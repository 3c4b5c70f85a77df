------------------------ MODULE MCConnectedExecution ------------------------
(***************************************************************************)
(* An intent for each way a connector has to do one, or to turn it down.   *)
(***************************************************************************)
EXTENDS ConnectedExecution

Github(action, given) ==
  [type |-> "github", action |-> action, given |-> given, config |-> {"repository"}]
Http(config) == [type |-> "http", action |-> "deliver", given |-> {"body"}, config |-> config]
Mock(action) == [type |-> "mock", action |-> action, given |-> {}, config |-> {}]

MCAsks ==
  {Mock("update"), Mock("fail_validation"), Mock("fail_execution"),
   Http({"url", "rollbackUrl"}), Http({"url"}), Http({"rollbackUrl"}),
   Github("create_issue", {"title"}), Github("add_issue_comment", {"issueNumber", "body"}),
   Github("close_issue", {"issueNumber"}), Github("close_issue", {})}
=============================================================================
