----------------------------- MODULE Connectors -----------------------------
(***************************************************************************)
(* modules/connectors/framework: what the three registered connectors      *)
(* accept, what their simulation promises of a rollback, what an execution *)
(* does and records, and what a rollback needs and undoes.                 *)
(*                                                                         *)
(* The remote system is external: it is asked, and either carries the      *)
(* request out and answers, refuses it, or carries it out and its answer   *)
(* is lost; the last two are one error to the connector.  An answer of     *)
(* GitHub of which the head comes and the body does not is a success of    *)
(* which the connector knows nothing more.                                 *)
(***************************************************************************)
EXTENDS Naturals

CONSTANTS
  Asks,      \* the intents that may come, each with its connector's configuration
  Nothing,   \* a field that holds nothing
  MaxLost    \* bound on the answers lost, and on those that cannot be read

\* The usable fields of a configuration; "repository" is owner, repo and token
\* together.
Configuration == SUBSET {"url", "rollbackUrl", "repository"}
\* given: the usable fields of `parameters`.
Ask == [type : {"mock", "http", "github"}, action : STRING,
        given : SUBSET {"title", "body", "issueNumber"},
        config : Configuration]

ASSUME ConnectorsAssumption == Asks \subseteq Ask /\ MaxLost \in Nat

VARIABLES
  ask,      \* the intent under study
  rotated,  \* the encryption key was replaced after the connector was registered
  result,   \* the fields of execution_jobs.result, once it is written
  remote,   \* what the remote system has done
  lost,     \* number of answers lost, or that could not be read
  hits      \* number of rollback requests that were carried out

connectorVars == <<ask, rotated, result, remote, lost, hits>>
worldVars == <<remote, lost, hits>>

ConnectorsTypeOK ==
  /\ ask \in Ask
  /\ rotated \in BOOLEAN
  /\ result \in {Nothing} \cup SUBSET STRING
  /\ remote \in {"before", "done", "undone"}
  /\ lost \in 0..MaxLost
  /\ hits \in Nat

-----------------------------------------------------------------------------
(* validate                                                                *)

GithubAccepts(a) ==
  /\ "repository" \in a.config
  /\ a.action \in {"create_issue", "add_issue_comment", "close_issue"}
  /\ a.action = "create_issue" => "title" \in a.given
  /\ a.action = "add_issue_comment" => {"issueNumber", "body"} \subseteq a.given
  /\ a.action = "close_issue" => "issueNumber" \in a.given

HttpAccepts(a) == "url" \in a.config

MockAccepts(a) == a.action # "fail_validation"

Validated(a) ==
  CASE a.type = "github" -> GithubAccepts(a)
    [] a.type = "http" -> HttpAccepts(a)
    [] a.type = "mock" -> MockAccepts(a)

-----------------------------------------------------------------------------
(* simulate: the reversibility it reports                                  *)

GithubReversibility(a) ==
  IF a.action \in {"create_issue", "add_issue_comment"} THEN "partial" ELSE "none"

HttpReversibility(a) == IF "rollbackUrl" \in a.config THEN "partial" ELSE "none"

Reversibility(a) ==
  CASE a.type = "github" -> GithubReversibility(a)
    [] a.type = "http" -> HttpReversibility(a)
    [] a.type = "mock" -> "full"

-----------------------------------------------------------------------------
(* The configuration is stored encrypted, or not at all when it is empty;  *)
(* buildConnectorRuntimeContext throws when it cannot be decrypted.        *)

Opens(a) == a.config = {} \/ ~rotated

-----------------------------------------------------------------------------
(* execute: the fields of the data it returns, and what it does            *)

\* Of a comment the issue is known beforehand, the rest is in the answer, which
\* githubRequest replaces by {} when it cannot be read.
GithubResult(a, read) ==
  {"repository"}
    \cup (IF a.action = "add_issue_comment" THEN {"issueNumber"} ELSE {})
    \cup (IF ~read THEN {}
          ELSE IF a.action = "add_issue_comment" THEN {"commentId"} ELSE {"issueNumber", "issueId"})

HttpResult(a) == {"request", "response"} \cup (a.config \cap {"rollbackUrl"})

MockResult(a) == {"action", "parameters", "mockResult"}

Result(a, read) ==
  CASE a.type = "github" -> GithubResult(a, read)
    [] a.type = "http" -> HttpResult(a)
    [] a.type = "mock" -> MockResult(a)

\* A column that holds nothing is told from one that holds a result.
ASSUME ResultAssumption == \A a \in Asks, read \in BOOLEAN : Result(a, read) # Nothing

\* The mock connector is in the process and answers for certain.
AnswerLost ==
  /\ ask.type # "mock"
  /\ lost < MaxLost
  /\ lost' = lost + 1

\* Bug: an answer that is not JSON is taken for an error.
DoesItOrThrows(ok) ==
  /\ ask.type = "mock" => ok = (ask.action # "fail_execution")
  /\ \/ ok /\ remote' = "done" /\ UNCHANGED lost
     \/ ~ok /\ UNCHANGED <<remote, lost>>
     \/ ~ok /\ ask.type # "mock" /\ remote' = "done" /\ UNCHANGED lost
     \/ ~ok /\ remote' = "done" /\ AnswerLost
  /\ UNCHANGED hits

\* A call of connector.execute that returns (ok) or throws.
DoesIt(ok) ==
  /\ ask.type = "mock" => ok = (ask.action # "fail_execution")
  /\ \/ ok /\ remote' = "done" /\ UNCHANGED lost
     \/ ok /\ ask.type = "github" /\ remote' = "done" /\ AnswerLost
     \/ ~ok /\ UNCHANGED <<remote, lost>>
     \/ ~ok /\ remote' = "done" /\ AnswerLost
  /\ UNCHANGED hits

-----------------------------------------------------------------------------
(* rollback                                                                *)

\* Fields of an execution receipt's data; the connector's own are in `result`.
ReceiptData == {"action", "connectorType", "parameters", "result", "executionJobId"}

\* getExecutionContext of the rollback worker.
ExecutionContext(receipt) ==
  CASE result # Nothing -> result
    [] result = Nothing /\ receipt -> ReceiptData
    [] OTHER -> {}

GithubUndoes(a, data) ==
  \/ a.action = "create_issue" /\ "issueNumber" \in data
  \/ a.action = "add_issue_comment" /\ "commentId" \in data

\* Bug: without a rollback URL the request goes to the connector's URL.
HttpUndoesAnyway(a) == a.config # {}

HttpUndoes(a) == "rollbackUrl" \in a.config

\* Whether the connector sends a request at all, or throws before it does.
Undoes(a, data) ==
  CASE a.type = "github" -> GithubUndoes(a, data)
    [] a.type = "http" -> HttpUndoes(a)
    [] a.type = "mock" -> TRUE

\* GitHub deletes a comment once, and closes an issue as often as it is asked.
RemoteUndoes == ask.action = "add_issue_comment" => remote = "done"

Undone == remote' = "undone" /\ hits' = hits + 1

\* A call of connector.rollback that returns (ok) or throws.
UndoesIt(data, ok) ==
  LET sent == Undoes(ask, data) IN
  \/ ok /\ sent /\ RemoteUndoes /\ Undone /\ UNCHANGED lost
  \/ ~ok /\ ~(sent /\ ask.type = "mock") /\ UNCHANGED worldVars
  \/ ~ok /\ sent /\ RemoteUndoes /\ Undone /\ AnswerLost
=============================================================================
