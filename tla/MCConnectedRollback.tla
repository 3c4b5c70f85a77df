------------------------- MODULE MCConnectedRollback -------------------------
(***************************************************************************)
(* An intent for each way a connector has to undo one, or not to.          *)
(***************************************************************************)
EXTENDS ConnectedRollback

Github(action, given) ==
  [type |-> "github", action |-> action, given |-> given, config |-> {"repository"}]
Http(config) == [type |-> "http", action |-> "deliver", given |-> {"body"}, config |-> config]

MCAsks ==
  {[type |-> "mock", action |-> "update", given |-> {}, config |-> {}],
   Http({"url", "rollbackUrl"}), Http({"url"}), Http({"rollbackUrl"}),
   Github("create_issue", {"title"}), Github("create_issue", {}),
   Github("add_issue_comment", {"issueNumber", "body"}),
   Github("add_issue_comment", {"issueNumber"}),
   Github("close_issue", {"issueNumber"}), Github("close_issue", {"title"})}
=============================================================================
