----------------------- MODULE ConnectedRollbackProofs -----------------------
(***************************************************************************)
(* Theorems about ConnectedRollback, for any number of rollbacks,          *)
(* attempts, faults and lost answers.  What a worker is told by its        *)
(* connector is the truth whatever overlaps.  What the outcome says of the *)
(* remote system takes requests one at a time: then at most one job at a   *)
(* time has still to settle the intent, and the row says so.               *)
(***************************************************************************)
EXTENDS ConnectedRollback, FiniteSetTheorems, TLAPS

\* What holds whatever overlaps, fails or is lost.
WorldTypeOK ==
  /\ ask \in Ask /\ Validated(ask)
  /\ rotated \in BOOLEAN
  /\ \E read \in BOOLEAN : result = Result(ask, read)
  /\ remote \in {"done", "undone"}
  /\ lost \in Nat /\ hits \in Nat

Succeeded(r) ==
  \/ undoPc[r] \in {"complete", "receipt"}
  \/ undoPc[r] \in {"transition", "update"} /\ undoGoal[r] = "rolled_back"

RollbackState == {"succeeded", "rollback_pending", "rolled_back", "rollback_failed"}

Truthful ==
  /\ status \in RollbackState
  /\ undone > 0 => remote = "undone"
  /\ status = "rolled_back" => undone > 0
  /\ \A r \in Rollbacks : Succeeded(r) => undone > 0
  /\ Reversibility(ask) = "none" => remote = "done"

WorldInv == RollbackTypeOK /\ WorldTypeOK /\ Truthful

\* A request that will write rollback_pending, and one whose job has still to
\* write what became of it.
Opening(r) == askPc[r] \in {"create", "transition", "update"}
Final(r) == attempt[r] = "failed" /\ job[r].attempts + 1 >= MaxRollbackAttempts
Settling(r) ==
  \/ askPc[r] = "add"
  \/ job[r].state = "waiting"
  \/ /\ job[r].state = "active"
     /\ undoPc[r] \notin {"receipt", "finish"}
     /\ ~(undoPc[r] = "throw" /\ attempt[r] = "failed")

\* Of a request and its job: how far they are and what the attempt row says.
JobFits(r) ==
  /\ askPc[r] \in {"idle", "create", "transition", "update", "add", "done", "refused"}
  /\ asked[r] = "rollback_pending"
  /\ askPc[r] # "done" => job[r].state = "none" /\ attempt[r] \in {"none", "pending"}
  /\ (undoPc[r] # "idle") = (job[r].state = "active")
  /\ job[r].state = "completed" \/ undoPc[r] \in {"receipt", "finish"} => attempt[r] = "completed"
  /\ job[r].state = "failed" => attempt[r] = "failed" \/ missing
  /\ undoPc[r] \in {"load", "undo", "complete", "caught"} => attempt[r] = "in_progress"
  /\ undoPc[r] = "throw" =>
       \/ Final(r)
       \/ attempt[r] # "failed" /\ (missing \/ job[r].attempts + 1 < MaxRollbackAttempts)
  /\ undoPc[r] \in {"transition", "update"} =>
       IF undoGoal[r] = "rolled_back" THEN attempt[r] = "completed" ELSE Final(r)

OneSettles ==
  /\ \A r, s \in RunningAsks : r = s
  /\ \A r \in Rollbacks : Opening(r) => status \in {"succeeded", "rollback_failed"}
  /\ \A r \in Rollbacks : Settling(r) => status = "rollback_pending"
  /\ \A r, s \in Rollbacks : Settling(r) /\ Settling(s) => r = s
  /\ status = "rollback_pending" => missing \/ \E r \in Rollbacks : Settling(r)

Counted ==
  /\ undone \in {0, 1}
  /\ undone > 0 => status = "rolled_back" \/ \E r \in Rollbacks : Settling(r) /\ Succeeded(r)
  /\ hits <= undone + lost
  /\ remote = "undone" => hits > 0

MockUndoes ==
  ask.type = "mock" =>
    /\ status # "rollback_failed"
    /\ \A r \in Rollbacks : undoPc[r] # "caught" /\ undoGoal[r] = "rolled_back"

Orderly == (\A r \in Rollbacks : JobFits(r)) /\ OneSettles /\ Counted /\ MockUndoes

IInv == WorldInv /\ (OneAtATime /\ faults = 0 => Orderly)

-----------------------------------------------------------------------------
(* Types                                                                   *)

LEMMA TransitionsTyped ==
  ASSUME NEW from, NEW to, IsValidTransition(from, to)
  PROVE  from \in IntentState /\ to \in IntentState
BY DEF IsValidTransition, StateTransitions, IntentState

\* The shared row stays well typed through each of transitionIntent's steps.
LEMMA StoreSteps ==
  ASSUME StoreTypeOK
  PROVE  /\ \A to : TransitionAllowed(to) => StoreTypeOK' /\ to \in IntentState
         /\ \A to : TransitionRefused(to) => StoreTypeOK'
         /\ \A to \in IntentState : ApplyTransition(to) => StoreTypeOK'
         /\ Fault => StoreTypeOK'
         /\ UNCHANGED storeVars => StoreTypeOK'
BY TransitionsTyped, MaxFaultsAssumption
DEF StoreTypeOK, TransitionAllowed, TransitionRefused, ApplyTransition, Fault, storeVars

LEMMA RollbackJobMoved ==
  ASSUME NEW jobs \in [Rollbacks -> RollbackJob], NEW r \in Rollbacks,
         NEW s \in {"waiting", "active", "completed", "failed"}
  PROVE  [jobs EXCEPT ![r].state = s] \in [Rollbacks -> RollbackJob]
BY DEF RollbackJob

LEMMA RollbackJobCounted ==
  ASSUME NEW jobs \in [Rollbacks -> RollbackJob], NEW r \in Rollbacks,
         NEW s \in {"waiting", "failed"}
  PROVE  /\ [jobs EXCEPT ![r].attempts = jobs[r].attempts + 1, ![r].state = s]
              \in [Rollbacks -> RollbackJob]
         /\ [jobs EXCEPT ![r].state = s, ![r].stalls = jobs[r].stalls + 1]
              \in [Rollbacks -> RollbackJob]
<1>1. jobs[r].attempts + 1 \in Nat /\ jobs[r].stalls + 1 \in Nat
  BY DEF RollbackJob
<1>2. ASSUME NEW n \in Nat
      PROVE  [jobs EXCEPT ![r].attempts = n, ![r].state = s] \in [Rollbacks -> RollbackJob]
  BY DEF RollbackJob
<1>3. ASSUME NEW n \in Nat
      PROVE  [jobs EXCEPT ![r].state = s, ![r].stalls = n] \in [Rollbacks -> RollbackJob]
  BY DEF RollbackJob
<1> QED
  BY <1>1, <1>2, <1>3

LEMMA RollbackTyped ==
  ASSUME RollbackTypeOK, RollbackNext
  PROVE  RollbackTypeOK'
<1> USE StoreSteps, RollbackAssumption DEF RollbackTypeOK
<1> SUFFICES ASSUME NEW r \in Rollbacks,
                    \/ RollbackRead(r) \/ AskStep(r) \/ RollbackAddFails(r) \/ AskDies(r)
                    \/ UndoStep(r) \/ UndoFault(r) \/ UndoCrash(r)
             PROVE  RollbackTypeOK'
  BY DEF RollbackNext
<1>1. CASE RollbackRead(r) \/ AskStep(r) \/ RollbackAddFails(r) \/ AskDies(r)
  <2> USE DEF AskPc, AskEnded, AskGoes, undoVars, undoEffects
  <2>1. CASE RollbackRead(r) \/ RollbackCreate(r) \/ RollbackRevert(r)
    BY <2>1 DEF RollbackRead, RollbackCreate, RollbackRevert
  <2>2. CASE AskTransition(r) \/ AskUpdate(r) \/ AskDies(r)
    BY <2>2 DEF AskTransition, AskUpdate, AskDies, IntentState
  <2>3. CASE RollbackAdd(r) \/ RollbackAddFails(r)
    <3>1. [job EXCEPT ![r].state = "waiting"] \in [Rollbacks -> RollbackJob]
      BY RollbackJobMoved
    <3> QED
      BY <2>3, <3>1 DEF RollbackAdd, RollbackAddFails
  <2> QED
    BY <1>1, <2>1, <2>2, <2>3 DEF AskStep
<1>2. CASE UndoStep(r) \/ UndoFault(r) \/ UndoCrash(r)
  <2> USE DEF UndoPc, UndoGoes, UndoAsks, UndoErrorPath, askVars, undoEffects
  <2>1. CASE UndoDeliver(r) \/ UndoFinish(r) \/ UndoThrow(r) \/ UndoCrash(r)
    <3>1. job' \in [Rollbacks -> RollbackJob]
      <4>1. CASE UndoDeliver(r) \/ UndoFinish(r)
        <5>1. [job EXCEPT ![r].state = "active"] \in [Rollbacks -> RollbackJob]
          BY RollbackJobMoved
        <5>2. [job EXCEPT ![r].state = "completed"] \in [Rollbacks -> RollbackJob]
          BY RollbackJobMoved
        <5> QED
          BY <4>1, <5>1, <5>2 DEF UndoDeliver, UndoFinish
      <4>2. CASE UndoThrow(r)
        BY <4>2, RollbackJobCounted DEF UndoThrow
      <4>3. CASE UndoCrash(r)
        BY <4>3, RollbackJobMoved, RollbackJobCounted DEF UndoCrash
      <4> QED
        BY <2>1, <4>1, <4>2, <4>3
    <3> QED
      BY <2>1, <3>1 DEF UndoDeliver, UndoFinish, UndoThrow, UndoCrash
  <2>2. CASE UndoStart(r) \/ UndoComplete(r) \/ UndoCaught(r)
    BY <2>2 DEF UndoStart, UndoComplete, UndoCaught
  <2>3. CASE UndoLoad(r)
    <3>1. missing' \in BOOLEAN
      BY <2>3 DEF UndoLoad
    <3>2. undoPc' \in [Rollbacks -> UndoPc]
      BY <2>3 DEF UndoLoad
    <3>3. /\ attempt' \in [Rollbacks -> {"none", "pending", "in_progress",
                                        "completed", "failed"}]
          /\ job' \in [Rollbacks -> RollbackJob]
          /\ askPc' \in [Rollbacks -> AskPc]
          /\ asked' \in [Rollbacks -> {"rollback_pending", "rollback_failed"}]
          /\ undoGoal' \in [Rollbacks -> {"rolled_back", "rollback_failed"}]
          /\ undoCalls' \in [Rollbacks -> Nat]
          /\ undone' \in Nat
          /\ StoreTypeOK'
      BY <2>3 DEF UndoLoad
    <3> QED
      BY ONLY <3>1, <3>2, <3>3 DEF RollbackTypeOK, UndoPc
  <2>4. CASE Undo(r) \/ UndoReceipt(r) \/ UndoFault(r)
    BY <2>4 DEF Undo, UndoReceipt, UndoFault
  <2>5. CASE UndoTransition(r) \/ UndoUpdate(r)
    BY <2>5 DEF UndoTransition, UndoUpdate, IntentState
  <2> QED
    BY <1>2, <2>1, <2>2, <2>3, <2>4, <2>5 DEF UndoStep
<1> QED
  BY <1>1, <1>2

-----------------------------------------------------------------------------
(* What the connectors do to the remote system                             *)

\* A rollback that the simulation did not promise sends no request.
LEMMA NothingToUndo ==
  ASSUME WorldTypeOK, Reversibility(ask) = "none", NEW data
  PROVE  ~Undoes(ask, data)
<1>1. CASE ask.type = "github"
  BY <1>1 DEF Reversibility, GithubReversibility, Undoes, GithubUndoes
<1>2. CASE ask.type = "http"
  BY <1>2 DEF Reversibility, HttpReversibility, Undoes, HttpUndoes
<1>3. CASE ask.type = "mock"
  BY <1>3 DEF Reversibility
<1> QED
  BY <1>1, <1>2, <1>3 DEF WorldTypeOK, Ask

LEMMA UndoTouchesRemote ==
  ASSUME WorldTypeOK, NEW data, NEW ok, UndoesIt(data, ok)
  PROVE  /\ remote' = remote \/ (remote' = "undone" /\ Undoes(ask, data))
         /\ ok => remote' = "undone" /\ hits' = hits + 1 /\ lost' = lost
         /\ ~ok => \/ UNCHANGED worldVars /\ ask.type # "mock"
                   \/ remote' = "undone" /\ hits' = hits + 1 /\ lost' = lost + 1
                        /\ ask.type # "mock"
<1>1. ask.type = "mock" => Undoes(ask, data)
  BY DEF Undoes
<1> QED
  BY <1>1 DEF UndoesIt, Undone, AnswerLost, worldVars

LEMMA StepTouchesRemote ==
  ASSUME WorldTypeOK, NEW r \in Rollbacks,
         Asking(r) \/ Undoing(r) \/ UndoLost(r) \/ UndoFails(r)
  PROVE  /\ UNCHANGED <<ask, rotated, result>>
         /\ remote' = remote \/ (remote' = "undone" /\ Reversibility(ask) # "none")
         /\ lost' \in Nat /\ hits' \in Nat
<1>1. CASE Asking(r) \/ UndoFails(r)
  BY <1>1 DEF Asking, UndoFails, connectorVars, WorldTypeOK
<1>2. CASE Undoing(r)
  <2>1. CASE undoPc[r] = "undo"
    <3> DEFINE ok == undone' > undone
               data == ExecutionContext(TRUE)
    <3>1. UndoesIt(data, ok)
      BY <1>2, <2>1 DEF Undoing
    <3> HIDE DEF ok, data
    <3>2. /\ remote' = remote \/ (remote' = "undone" /\ Undoes(ask, data))
          /\ UNCHANGED worldVars \/ (hits' = hits + 1 /\ lost' \in {lost, lost + 1})
      BY <3>1 DEF UndoesIt, Undone, AnswerLost, worldVars
    <3>3. Reversibility(ask) = "none" => ~Undoes(ask, data)
      BY NothingToUndo
    <3> QED
      BY <1>2, <3>2, <3>3 DEF Undoing, WorldTypeOK, worldVars
  <2>2. CASE undoPc[r] # "undo"
    BY <1>2, <2>2 DEF Undoing, WorldTypeOK, worldVars
  <2> QED
    BY <2>1, <2>2
<1>3. CASE UndoLost(r)
  <2> DEFINE data == ExecutionContext(TRUE)
  <2>1. Reversibility(ask) = "none" => ~Undoes(ask, data)
    BY NothingToUndo
  <2>2. /\ UNCHANGED <<ask, rotated, result, lost>>
        /\ \/ Undoes(ask, data) /\ Undone
           \/ UNCHANGED <<remote, hits>>
    BY <1>3 DEF UndoLost
  <2> HIDE DEF data
  <2>3. CASE Undone /\ Reversibility(ask) # "none"
    BY <2>2, <2>3 DEF Undone, WorldTypeOK
  <2>4. CASE UNCHANGED <<remote, hits>>
    BY <2>2, <2>4 DEF WorldTypeOK
  <2> QED
    BY <2>1, <2>2, <2>3, <2>4
<1> QED
  BY <1>1, <1>2, <1>3

LEMMA WorldTyped ==
  ASSUME WorldTypeOK, NEW r \in Rollbacks,
         Asking(r) \/ Undoing(r) \/ UndoLost(r) \/ UndoFails(r)
  PROVE  WorldTypeOK'
BY StepTouchesRemote DEF WorldTypeOK, Validated, Result, GithubAccepts, HttpAccepts,
   MockAccepts, GithubResult, HttpResult, MockResult

-----------------------------------------------------------------------------
(* The outcome is true, whatever overlaps                                  *)

\* A step of a request or a worker, whichever spec it is a part of.
RollbackStep(r) ==
  \/ RollbackRead(r) \/ AskStep(r) \/ RollbackAddFails(r) \/ AskDies(r)
  \/ UndoStep(r) \/ UndoFault(r) \/ UndoCrash(r)

LEMMA StepsAre ==
  ASSUME NEW r \in Rollbacks, Asking(r) \/ Undoing(r) \/ UndoLost(r) \/ UndoFails(r)
  PROVE  RollbackStep(r) /\ RollbackNext
BY DEF Asking, Undoing, UndoLost, UndoFails, RollbackStep, RollbackNext

\* Successful calls are counted and never taken back, and what follows a
\* successful call follows it only.
LEMMA StepSucceeds ==
  ASSUME RollbackTypeOK, NEW r \in Rollbacks, RollbackStep(r)
  PROVE  /\ undone' = undone \/ (undone' = undone + 1 /\ undoPc[r] = "undo")
         /\ \A s \in Rollbacks : Succeeded(s)' => undone' > undone \/ Succeeded(s)
         /\ status' = "rolled_back" => status = "rolled_back" \/ Succeeded(r)
         /\ status' = status \/ status' \in RollbackState
<1> USE DEF RollbackTypeOK
<1>1. CASE RollbackRead(r) \/ AskStep(r) \/ RollbackAddFails(r) \/ AskDies(r)
  <2>1. UNCHANGED <<undoPc, undoGoal, undone>>
    BY <1>1 DEF AskStep, RollbackRead, RollbackCreate, AskTransition, AskUpdate, RollbackAdd,
                RollbackRevert, RollbackAddFails, AskDies, undoVars, undoEffects
  <2>2. status' = status \/ status' \in RollbackState \ {"rolled_back"}
    BY <1>1 DEF RollbackState, AskStep, RollbackRead, RollbackCreate, AskTransition, AskUpdate, RollbackAdd,
                RollbackRevert, RollbackAddFails, AskDies, storeVars, ApplyTransition, Fault,
                TransitionAllowed, TransitionRefused
  <2> QED
    BY <2>1, <2>2 DEF Succeeded
<1>2. CASE Undo(r)
  BY <1>2 DEF Undo, UndoGoes, Succeeded, storeVars
<1>3. CASE \/ UndoDeliver(r) \/ UndoStart(r) \/ UndoLoad(r) \/ UndoComplete(r) \/ UndoReceipt(r)
           \/ UndoCaught(r) \/ UndoFinish(r) \/ UndoThrow(r)
  BY <1>3 DEF UndoDeliver, UndoStart, UndoLoad, UndoComplete, UndoReceipt, UndoCaught,
              UndoFinish, UndoThrow, UndoGoes, UndoAsks, undoEffects, storeVars, Succeeded
<1>4. CASE UndoTransition(r) \/ UndoUpdate(r)
  BY <1>4 DEF RollbackState, UndoTransition, UndoUpdate, UndoGoes, UndoErrorPath, undoEffects, Succeeded,
              TransitionAllowed, TransitionRefused, ApplyTransition, storeVars
<1>5. CASE UndoFault(r) \/ UndoCrash(r)
  BY <1>5 DEF UndoFault, UndoCrash, UndoGoes, UndoErrorPath, undoEffects, Succeeded, Fault
<1> QED
  BY <1>1, <1>2, <1>3, <1>4, <1>5 DEF RollbackStep, UndoStep

LEMMA WorldStep ==
  ASSUME WorldInv, [ConnectedNext]_vars
  PROVE  WorldInv'
<1>1. CASE UNCHANGED vars
  BY <1>1 DEF vars, storeVars, rollbackVars, connectorVars, WorldInv, WorldTypeOK, Truthful,
     Succeeded, RollbackTypeOK, StoreTypeOK, Validated, Result, GithubAccepts, HttpAccepts,
     MockAccepts, GithubResult, HttpResult, MockResult, Reversibility, GithubReversibility,
     HttpReversibility
<1>2. CASE ConnectedNext
  <2>1. PICK r \in Rollbacks : Asking(r) \/ Undoing(r) \/ UndoLost(r) \/ UndoFails(r)
    BY <1>2 DEF ConnectedNext
  <2>2. RollbackTypeOK' /\ WorldTypeOK'
    BY <2>1, RollbackTyped, WorldTyped, StepsAre DEF WorldInv
  <2>3. /\ undone' = undone \/ (undone' = undone + 1 /\ undoPc[r] = "undo")
        /\ \A s \in Rollbacks : Succeeded(s)' => undone' > undone \/ Succeeded(s)
        /\ status' = "rolled_back" => status = "rolled_back" \/ Succeeded(r)
        /\ status' = status \/ status' \in RollbackState
    BY <2>1, StepsAre, StepSucceeds DEF WorldInv
  <2>4. undone \in Nat /\ undone' \in Nat
    BY <2>2 DEF WorldInv, RollbackTypeOK
  <2>5. UNCHANGED ask /\ (remote' = remote \/ (remote' = "undone" /\ Reversibility(ask) # "none"))
    BY <2>1, StepTouchesRemote DEF WorldInv
  <2>6. undone' > undone => remote' = "undone"
    <3> SUFFICES ASSUME undone' > undone PROVE remote' = "undone"
      OBVIOUS
    <3>1. undoPc[r] = "undo" /\ Undoing(r)
      <4>1. undoPc[r] = "undo" /\ undone' # undone
        BY <2>3, <2>4
      <4>2. ~Asking(r) /\ ~UndoLost(r) /\ ~UndoFails(r)
        BY <4>1 DEF Asking, UndoLost, UndoFails, AskStep, RollbackRead, RollbackCreate,
           AskTransition, AskUpdate, RollbackAdd, RollbackRevert, RollbackAddFails, AskDies,
           UndoFault, UndoCrash, undoEffects
      <4> QED
        BY <2>1, <4>1, <4>2
    <3>2. UndoesIt(ExecutionContext(TRUE), TRUE)
      BY <3>1 DEF Undoing
    <3> QED
      BY <3>2, UndoTouchesRemote DEF WorldInv
  <2>7. Reversibility(ask)' = Reversibility(ask)
    BY <2>5 DEF Reversibility, GithubReversibility, HttpReversibility
  <2>8. Truthful'
    BY <2>3, <2>4, <2>5, <2>6, <2>7 DEF WorldInv, Truthful
  <2> QED
    BY <2>2, <2>8 DEF WorldInv
<1> QED
  BY <1>1, <1>2

-----------------------------------------------------------------------------
(* One at a time and without faults: the step of one request and its job,  *)
(* and what it leaves alone                                                *)

Others(r) ==
  /\ \A s \in Rollbacks : s # r =>
       /\ attempt'[s] = attempt[s] /\ job'[s] = job[s]
       /\ askPc'[s] = askPc[s] /\ asked'[s] = asked[s]
       /\ undoPc'[s] = undoPc[s] /\ undoGoal'[s] = undoGoal[s]
  /\ missing => missing'

LEMMA OthersKept ==
  ASSUME RollbackTypeOK, NEW r \in Rollbacks, RollbackStep(r)
  PROVE  Others(r)
<1> USE DEF RollbackTypeOK, Others
<1>1. CASE RollbackRead(r) \/ AskStep(r) \/ RollbackAddFails(r) \/ AskDies(r)
  BY <1>1 DEF AskStep, RollbackRead, RollbackCreate, AskTransition, AskUpdate, RollbackAdd,
              RollbackRevert, RollbackAddFails, AskDies, AskGoes, undoVars, undoEffects
<1>2. CASE UndoStep(r)
  <2>1. CASE UndoDeliver(r) \/ UndoStart(r) \/ UndoLoad(r) \/ Undo(r) \/ UndoComplete(r)
    BY <2>1 DEF UndoDeliver, UndoStart, UndoLoad, Undo, UndoComplete, UndoGoes, UndoAsks,
                askVars, undoEffects
  <2>2. CASE \/ UndoTransition(r) \/ UndoUpdate(r) \/ UndoReceipt(r) \/ UndoCaught(r)
             \/ UndoFinish(r) \/ UndoThrow(r)
    BY <2>2 DEF UndoTransition, UndoUpdate, UndoReceipt, UndoCaught, UndoFinish, UndoThrow,
                UndoGoes, UndoAsks, askVars, undoEffects
  <2> QED
    BY <1>2, <2>1, <2>2 DEF UndoStep
<1>3. CASE UndoFault(r) \/ UndoCrash(r)
  BY <1>3 DEF UndoFault, UndoCrash, UndoGoes, askVars, undoEffects
<1> QED
  BY <1>1, <1>2, <1>3 DEF RollbackStep

LEMMA JobsFit ==
  ASSUME NEW r \in Rollbacks, Others(r), \A s \in Rollbacks : JobFits(s), JobFits(r)'
  PROVE  \A s \in Rollbacks : JobFits(s)'
BY DEF Others, JobFits, Final

\* A step that changes nothing another request or the row could tell.
Unnoticed(r) ==
  /\ UNCHANGED <<status, undone, hits, lost, remote, ask>>
  /\ Opening(r)' => Opening(r)
  /\ (r \in RunningAsks)' => r \in RunningAsks
  /\ Settling(r)' => Settling(r)
  /\ Settling(r) => Settling(r)' \/ missing'
  /\ Settling(r) /\ Succeeded(r) => Settling(r)' /\ Succeeded(r)'
  /\ ask.type = "mock" => undoPc'[r] # "caught" /\ undoGoal'[r] = "rolled_back"

LEMMA UnnoticedKeeps ==
  ASSUME NEW r \in Rollbacks, Orderly, Others(r), Unnoticed(r), JobFits(r)'
  PROVE  Orderly'
<1>1. \A s \in Rollbacks : JobFits(s)'
  BY JobsFit DEF Orderly
<1>2. \A s \in Rollbacks : /\ Opening(s)' => Opening(s)
                           /\ (s \in RunningAsks)' => s \in RunningAsks
                           /\ Settling(s)' => Settling(s)
                           /\ Settling(s) => Settling(s)' \/ missing'
                           /\ Settling(s) /\ Succeeded(s) => Settling(s)' /\ Succeeded(s)'
  <2> SUFFICES ASSUME NEW s \in Rollbacks, s # r
               PROVE  /\ Opening(s)' => Opening(s)
                      /\ (s \in RunningAsks)' => s \in RunningAsks
                      /\ Settling(s)' => Settling(s)
                      /\ Settling(s) => Settling(s)'
                      /\ Settling(s) /\ Succeeded(s) => Settling(s)' /\ Succeeded(s)'
    BY DEF Unnoticed
  <2> QED
    BY DEF Others, Opening, RunningAsks, Settling, Succeeded
<1>3. OneSettles'
  <2>1. RunningAsks' \subseteq Rollbacks /\ RunningAsks \subseteq Rollbacks
    BY DEF RunningAsks
  <2>2. status' = status /\ (missing => missing')
    BY DEF Unnoticed, Others
  <2> QED
    BY <1>2, <2>1, <2>2 DEF Orderly, OneSettles
<1>4. Counted'
  BY <1>2 DEF Orderly, Counted, Unnoticed
<1>5. MockUndoes'
  BY DEF Orderly, MockUndoes, Unnoticed, Others
<1> QED
  BY <1>1, <1>3, <1>4, <1>5 DEF Orderly

\* Before a step that is no fault.
Calm == WorldInv /\ Orderly /\ faults = 0

LEMMA CalmFaults ==
  ASSUME Calm, faults' = 0
  PROVE  ~Fault
BY DEF Calm, Fault

\* What the fields of r's job are after each way a step writes them.
LEMMA JobWritten ==
  ASSUME RollbackTypeOK, NEW r \in Rollbacks
  PROVE  /\ \A s : job' = [job EXCEPT ![r].state = s] =>
                 job'[r].state = s /\ job'[r].attempts = job[r].attempts
         /\ \A n, s : job' = [job EXCEPT ![r].attempts = n, ![r].state = s] =>
                 job'[r].state = s /\ job'[r].attempts = n
<1>1. r \in DOMAIN job /\ job[r] \in RollbackJob
  BY DEF RollbackTypeOK
<1>2. {"state", "attempts"} \subseteq DOMAIN job[r]
  BY <1>1 DEF RollbackJob
<1> QED
  BY <1>1, <1>2, ZenonT(60)

LEMMA AskUnnoticed ==
  ASSUME Calm, faults' = 0, NEW r \in Rollbacks, UNCHANGED connectorVars,
         RollbackCreate(r) \/ AskTransition(r) \/ RollbackAdd(r)
  PROVE  JobFits(r)' /\ Unnoticed(r)
<1> USE DEF Calm, WorldInv, RollbackTypeOK, Orderly, JobFits, AskGoes, undoVars, undoEffects,
            storeVars, connectorVars
<1> DEFINE quiet == UNCHANGED <<undoPc, undoGoal, undone, hits, lost, remote, ask, status, missing>>
<1>1. quiet /\ JobFits(r)
  BY DEF RollbackCreate, AskTransition, RollbackAdd, TransitionAllowed, TransitionRefused
<1>2. ask.type = "mock" => undoPc'[r] # "caught" /\ undoGoal'[r] = "rolled_back"
  BY <1>1 DEF MockUndoes
<1>3. CASE RollbackCreate(r)
  BY <1>1, <1>2, <1>3
  DEF RollbackCreate, Unnoticed, Opening, RunningAsks, AskEnded, Settling, Succeeded, Final
<1>4. CASE AskTransition(r)
  BY <1>1, <1>2, <1>4
  DEF AskTransition, Unnoticed, Opening, RunningAsks, AskEnded, Settling, Succeeded, Final
<1>5. CASE RollbackAdd(r)
  <2>1. job'[r].state = "waiting" /\ job'[r].attempts = job[r].attempts
    BY <1>5, JobWritten DEF RollbackAdd
  <2>2. askPc[r] = "add" /\ askPc'[r] = "done" /\ UNCHANGED <<attempt, asked>>
    BY <1>5 DEF RollbackAdd
  <2> QED
    BY <1>1, <1>2, <2>1, <2>2
    DEF Unnoticed, Opening, RunningAsks, AskEnded, Settling, Succeeded, Final
<1> QED
  BY <1>3, <1>4, <1>5
LEMMA UndoUnnoticed ==
  ASSUME Calm, faults' = 0, NEW r \in Rollbacks, UNCHANGED connectorVars,
         \/ UndoDeliver(r) \/ UndoStart(r) \/ UndoLoad(r) \/ UndoComplete(r)
         \/ UndoTransition(r) \/ UndoReceipt(r) \/ UndoCaught(r) \/ UndoFinish(r)
         \/ UndoThrow(r)
  PROVE  JobFits(r)' /\ Unnoticed(r)
<1> USE DEF Calm, WorldInv, RollbackTypeOK, Orderly, UndoGoes, UndoAsks, askVars, undoEffects,
            storeVars, connectorVars
<1> DEFINE quiet ==
      UNCHANGED <<askPc, asked, status, undone, hits, lost, remote, ask>> /\ (missing => missing')
<1>1. quiet /\ JobFits(r)
  BY DEF UndoDeliver, UndoStart, UndoLoad, UndoComplete, UndoTransition, UndoReceipt, UndoCaught,
         UndoFinish, UndoThrow, TransitionAllowed, TransitionRefused
<1>2. Opening(r)' = Opening(r) /\ (r \in RunningAsks)' = (r \in RunningAsks)
  BY <1>1 DEF Opening, RunningAsks
<1>3. Settling(r) => status = "rollback_pending"
  BY DEF OneSettles
<1>4. ask.type = "mock" => undoPc[r] # "caught" /\ undoGoal[r] = "rolled_back"
  BY DEF MockUndoes
<1>5. CASE UndoDeliver(r)
  <2>1. job'[r].state = "active" /\ job'[r].attempts = job[r].attempts
    BY <1>5, JobWritten DEF UndoDeliver
  <2>2. job[r].state = "waiting" /\ undoPc[r] = "idle" /\ undoPc'[r] = "start"
        /\ UNCHANGED <<attempt, undoGoal>>
    BY <1>5 DEF UndoDeliver
  <2> QED
    BY <1>1, <1>2, <1>4, <2>1, <2>2 DEF JobFits, Unnoticed, Settling, Succeeded, Final
<1>6. CASE UndoStart(r)
  BY <1>1, <1>2, <1>4, <1>6 DEF UndoStart, JobFits, Unnoticed, Settling, Succeeded, Final
<1>7. CASE UndoLoad(r)
  BY <1>1, <1>2, <1>4, <1>7 DEF UndoLoad, JobFits, Unnoticed, Settling, Succeeded, Final
<1>8. CASE UndoComplete(r)
  BY <1>1, <1>2, <1>4, <1>8 DEF UndoComplete, JobFits, Unnoticed, Settling, Succeeded, Final
<1>9. CASE UndoTransition(r)
  <2>1. job[r].state = "active" /\ status = "rollback_pending"
    BY <1>1, <1>3, <1>9 DEF UndoTransition, JobFits, Settling
  <2>2. undoPc[r] = "transition" /\ undoPc'[r] = "update" /\ UNCHANGED <<attempt, job, undoGoal>>
    BY <1>9, <2>1 DEF UndoTransition, TransitionRefused, IsValidTransition, StateTransitions
  <2> QED
    BY <1>1, <1>2, <1>4, <2>1, <2>2 DEF JobFits, Unnoticed, Settling, Succeeded, Final
<1>10. CASE UndoReceipt(r)
  BY <1>1, <1>2, <1>4, <1>10 DEF UndoReceipt, JobFits, Unnoticed, Settling, Succeeded, Final
<1>11. CASE UndoCaught(r)
  BY <1>1, <1>2, <1>4, <1>11, RollbackAssumption
  DEF UndoCaught, JobFits, Unnoticed, Settling, Succeeded, Final, RollbackJob
<1>12. CASE UndoFinish(r)
  <2>1. job'[r].state = "completed" /\ job'[r].attempts = job[r].attempts
    BY <1>12, JobWritten DEF UndoFinish
  <2>2. undoPc[r] = "finish" /\ undoPc'[r] = "idle" /\ UNCHANGED <<attempt, undoGoal>>
    BY <1>12 DEF UndoFinish
  <2> QED
    BY <1>1, <1>2, <1>4, <2>1, <2>2 DEF JobFits, Unnoticed, Settling, Succeeded, Final
<1>13. CASE UndoThrow(r)
  <2>1. job'[r].state = IF job[r].attempts + 1 < MaxRollbackAttempts THEN "waiting" ELSE "failed"
    BY <1>13, JobWritten, ZenonT(60) DEF UndoThrow
  <2>2. undoPc[r] = "throw" /\ undoPc'[r] = "idle" /\ UNCHANGED <<attempt, undoGoal>>
    BY <1>13 DEF UndoThrow
  <2>3. job[r].state = "active" /\ job[r].attempts \in Nat
    BY <1>1, <2>2 DEF JobFits, RollbackJob
  <2> QED
    BY <1>1, <1>2, <1>4, <2>1, <2>2, <2>3, RollbackAssumption
    DEF JobFits, Unnoticed, Settling, Succeeded, Final
<1> QED
  BY <1>5, <1>6, <1>7, <1>8, <1>9, <1>10, <1>11, <1>12, <1>13
\* One at a time: a request is read only when no other runs.
LEMMA NoneRunning ==
  ASSUME OneAtATime, Cardinality(RunningAsks) < MaxRequestsInFlight
  PROVE  RunningAsks = {}
<1>1. IsFiniteSet(RunningAsks)
  BY FS_Subset, RollbackAssumption DEF RunningAsks
<1>2. Cardinality(RunningAsks) \in Nat
  BY <1>1, FS_CardinalityType
<1>3. Cardinality(RunningAsks) = 0
  BY <1>2 DEF OneAtATime
<1> QED
  BY <1>1, <1>3, FS_EmptySet

LEMMA ReadKeeps ==
  ASSUME Calm, OneAtATime, NEW r \in Rollbacks, Others(r), UNCHANGED connectorVars,
         RollbackRead(r)
  PROVE  Orderly'
<1> USE DEF Calm, WorldInv, RollbackTypeOK, Orderly
<1>1. UNCHANGED <<attempt, job, asked, undoPc, undoGoal, status, undone, hits, lost, remote, ask,
                  missing>>
  BY DEF RollbackRead, undoVars, undoEffects, storeVars, connectorVars
<1>2. /\ askPc[r] = "idle"
      /\ \/ askPc'[r] = "refused"
         \/ askPc'[r] = "create" /\ status \in {"succeeded", "rollback_failed"}
  BY DEF RollbackRead, AskGoes
<1>3. JobFits(r)'
  BY <1>1, <1>2 DEF JobFits, Final
<1>4. \A s \in Rollbacks : JobFits(s)'
  BY <1>3, JobsFit
<1>5. RunningAsks = {}
  BY NoneRunning DEF RollbackRead
<1>6. RunningAsks' \subseteq {r}
  BY <1>5 DEF Others, RunningAsks
<1>7. \A s \in Rollbacks : /\ Settling(s)' = Settling(s) /\ Succeeded(s)' = Succeeded(s)
                           /\ s # r => Opening(s)' = Opening(s)
  <2>1. \A s \in Rollbacks : (askPc'[s] = "add") = (askPc[s] = "add")
    BY <1>2 DEF Others
  <2> QED
    BY <1>1, <2>1 DEF Others, Settling, Succeeded, Opening
<1>8. OneSettles'
  <2>1. \A s \in Rollbacks : Opening(s)' => status \in {"succeeded", "rollback_failed"}
    BY <1>2, <1>7 DEF OneSettles, Opening
  <2> QED
    BY <1>1, <1>6, <1>7, <2>1 DEF OneSettles
<1>9. Counted'
  BY <1>1, <1>7 DEF Counted
<1>10. MockUndoes'
  BY <1>1 DEF MockUndoes
<1> QED
  BY <1>4, <1>8, <1>9, <1>10

LEMMA OpensIt ==
  ASSUME Calm, NEW r \in Rollbacks, Others(r), UNCHANGED connectorVars, AskUpdate(r)
  PROVE  Orderly'
<1> USE DEF Calm, WorldInv, RollbackTypeOK, Orderly
<1>1. UNCHANGED <<attempt, job, asked, undoPc, undoGoal, undone, hits, lost, remote, ask, missing>>
  BY DEF AskUpdate, undoVars, undoEffects, connectorVars
<1>2. askPc[r] = "update" /\ askPc'[r] = "add" /\ status' = "rollback_pending"
  BY DEF AskUpdate, ApplyTransition, AskGoes, JobFits
<1>3. status \in {"succeeded", "rollback_failed"}
  BY <1>2 DEF OneSettles, Opening
<1>4. \A s \in Rollbacks : ~Settling(s)
  BY <1>3 DEF OneSettles
<1>5. undone = 0
  BY <1>3, <1>4 DEF Counted
<1>6. \A s \in Rollbacks : JobFits(s)'
  <2>1. JobFits(r)'
    BY <1>1, <1>2 DEF JobFits, Final
  <2> QED
    BY <2>1, JobsFit
<1>7. \A s \in Rollbacks : s # r => ~Opening(s)' /\ ~Settling(s)'
  <2> SUFFICES ASSUME NEW s \in Rollbacks, s # r
               PROVE  ~Opening(s)' /\ ~Settling(s)'
    OBVIOUS
  <2>1. r \in RunningAsks /\ (Opening(s) => s \in RunningAsks)
    BY <1>2 DEF RunningAsks, Opening, AskEnded
  <2>2. ~Opening(s)
    BY <2>1 DEF OneSettles
  <2> QED
    BY <1>4, <2>2 DEF Others, Settling, Opening
<1>8. Settling(r)' /\ ~Opening(r)'
  BY <1>2 DEF Settling, Opening
<1>9. RunningAsks' \subseteq RunningAsks
  BY <1>2 DEF Others, RunningAsks, AskEnded
<1>10. OneSettles'
  <2>1. \A p, q \in RunningAsks' : p = q
    BY <1>9 DEF OneSettles
  <2> QED
    BY <1>2, <1>7, <1>8, <2>1 DEF OneSettles
<1>11. Counted'
  BY <1>1, <1>5 DEF Counted
<1>12. MockUndoes'
  BY <1>1, <1>2 DEF MockUndoes
<1> QED
  BY <1>6, <1>10, <1>11, <1>12

LEMMA UndoKeeps ==
  ASSUME Calm, NEW r \in Rollbacks, Others(r), Undo(r), Undoing(r)
  PROVE  Orderly'
<1> USE DEF Calm, WorldInv, RollbackTypeOK, Orderly
<1>1. UNCHANGED <<attempt, job, askPc, asked, undoGoal, status, missing, ask>>
  BY DEF Undo, Undoing, askVars, storeVars
<1>2. undoPc[r] = "undo" /\ undoPc'[r] \in {"complete", "caught"}
  BY DEF Undo, UndoGoes
<1>3. JobFits(r)' /\ Settling(r) /\ Settling(r)'
  BY <1>1, <1>2 DEF JobFits, Settling, Final
<1>4. \A s \in Rollbacks : JobFits(s)'
  BY <1>3, JobsFit
<1>5. \A s \in Rollbacks : Settling(s)' = Settling(s) /\ Opening(s)' = Opening(s)
  BY <1>1, <1>3 DEF Others, Settling, Opening
<1>6. OneSettles'
  BY <1>1, <1>5 DEF OneSettles, RunningAsks
<1>7. undone = 0
  <2>1. status = "rollback_pending" /\ (\A s \in Rollbacks : Settling(s) => s = r)
    BY <1>3 DEF OneSettles
  <2> QED
    BY <1>2, <2>1 DEF Counted, Succeeded
<1>8. UndoesIt(ExecutionContext(TRUE), undone' > undone)
  BY <1>2 DEF Undoing
<1>9. CASE undone' = undone + 1 /\ undoPc'[r] = "complete"
  <2>1. UndoesIt(ExecutionContext(TRUE), TRUE)
    <3>1. (undone' > undone) = TRUE
      BY <1>7, <1>9
    <3> QED
      BY ONLY <1>8, <3>1
  <2>2. hits' = hits + 1 /\ lost' = lost
    BY <2>1, UndoTouchesRemote
  <2>3. Counted'
    BY <1>3, <1>7, <1>9, <2>2 DEF Counted, Succeeded, WorldTypeOK
  <2>4. MockUndoes'
    BY <1>1, <1>9 DEF MockUndoes, Others
  <2> QED
    BY <1>4, <1>6, <2>3, <2>4
<1>10. CASE undone' = undone /\ undoPc'[r] = "caught"
  <2>1. UndoesIt(ExecutionContext(TRUE), FALSE)
    <3>1. (undone' > undone) = FALSE
      BY <1>7, <1>10
    <3> QED
      BY ONLY <1>8, <3>1
  <2>2. ask.type # "mock"
        /\ (UNCHANGED worldVars \/ (hits' = hits + 1 /\ lost' = lost + 1))
    BY <2>1, UndoTouchesRemote
  <2>3. Counted'
    BY <1>7, <1>10, <2>2 DEF Counted, WorldTypeOK, worldVars
  <2>4. MockUndoes'
    BY <1>1, <2>2 DEF MockUndoes
  <2> QED
    BY <1>4, <1>6, <2>3, <2>4
<1> QED
  BY <1>9, <1>10 DEF Undo, UndoGoes

LEMMA SettlesIt ==
  ASSUME Calm, NEW r \in Rollbacks, Others(r), UNCHANGED connectorVars, UndoUpdate(r)
  PROVE  Orderly'
<1> USE DEF Calm, WorldInv, RollbackTypeOK, Orderly
<1>1. UNCHANGED <<attempt, job, askPc, asked, undoGoal, undone, hits, lost, remote, ask, missing>>
  BY DEF UndoUpdate, askVars, undoEffects, connectorVars
<1>2. /\ undoPc[r] = "update" /\ status' = undoGoal[r]
      /\ undoPc'[r] = IF undoGoal[r] = "rolled_back" THEN "receipt" ELSE "throw"
  BY DEF UndoUpdate, ApplyTransition, UndoGoes
<1>3. Settling(r) /\ JobFits(r)
  BY <1>2 DEF JobFits, Settling
<1>4. status = "rollback_pending" /\ \A s \in Rollbacks : Settling(s) => s = r
  BY <1>3 DEF OneSettles
<1>5. \A s \in Rollbacks : ~Opening(s)'
  BY <1>1, <1>4 DEF OneSettles, Opening
<1>6. JobFits(r)' /\ ~Settling(r)'
  BY <1>1, <1>2, <1>3 DEF JobFits, Settling, Final
<1>7. \A s \in Rollbacks : ~Settling(s)'
  BY <1>4, <1>6 DEF Others, Settling
<1>8. \A s \in Rollbacks : JobFits(s)'
  BY <1>6, JobsFit
<1>9. OneSettles'
  BY <1>1, <1>2, <1>5, <1>7 DEF OneSettles, RunningAsks
<1>10. Counted'
  <2>1. undone > 0 => undoGoal[r] = "rolled_back"
    BY <1>2, <1>4 DEF Counted, Succeeded
  <2> QED
    BY <1>1, <1>2, <2>1 DEF Counted
<1>11. MockUndoes'
  BY <1>1, <1>2 DEF MockUndoes, Others
<1> QED
  BY <1>8, <1>9, <1>10, <1>11
-----------------------------------------------------------------------------
(* The inductive invariant                                                 *)

LEMMA IInvInit ==
  ASSUME ConnectedInit
  PROVE  IInv
<1> USE DEF ConnectedInit, SucceededStart, StoreInit, RollbackInit
<1>1. RollbackTypeOK
  <2>1. [state |-> "none", attempts |-> 0, stalls |-> 0] \in RollbackJob
    BY DEF RollbackJob
  <2>2. StoreTypeOK
    BY MaxFaultsAssumption DEF StoreTypeOK, IntentState
  <2> QED
    BY <2>1, <2>2 DEF RollbackTypeOK, AskPc, UndoPc
<1>2. WorldTypeOK
  BY ConnectorsAssumption DEF WorldTypeOK
<1>3. Truthful
  BY DEF Truthful, Succeeded, RollbackState
<1>4. \A r \in Rollbacks : /\ askPc[r] = "idle" /\ undoPc[r] = "idle" /\ job[r].state = "none"
                           /\ attempt[r] = "none" /\ undoGoal[r] = "rolled_back"
                           /\ asked[r] = "rollback_pending"
  OBVIOUS
<1>5. RunningAsks = {}
  BY DEF RunningAsks
<1>6. Orderly
  BY <1>4, <1>5
  DEF Orderly, JobFits, OneSettles, Counted, MockUndoes, Opening, Settling, Succeeded
<1> QED
  BY <1>1, <1>2, <1>3, <1>6 DEF IInv, WorldInv

LEMMA OrderlyStep ==
  ASSUME Calm, OneAtATime, faults' = 0, ConnectedNext
  PROVE  Orderly'
<1>1. PICK r \in Rollbacks : Asking(r) \/ Undoing(r) \/ UndoLost(r) \/ UndoFails(r)
  BY DEF ConnectedNext
<1>2. Others(r)
  BY <1>1, StepsAre, OthersKept DEF Calm, WorldInv
<1>3. ~Fault
  BY CalmFaults
<1>4. CASE Asking(r)
  <2>1. UNCHANGED connectorVars
    BY <1>4 DEF Asking
  <2>2. CASE RollbackCreate(r) \/ AskTransition(r) \/ RollbackAdd(r)
    BY <1>2, <2>1, <2>2, AskUnnoticed, UnnoticedKeeps DEF Calm
  <2>3. ~RollbackRevert(r)
    BY DEF RollbackRevert, Calm, Orderly, JobFits
  <2> QED
    BY <1>2, <1>3, <1>4, <2>1, <2>2, <2>3, ReadKeeps, OpensIt
    DEF Asking, AskStep, RollbackAddFails, AskDies
<1>5. CASE Undoing(r)
  <2>1. CASE Undo(r)
    BY <1>2, <1>5, <2>1, UndoKeeps
  <2>2. CASE ~Undo(r)
    <3>1. undoPc[r] # "undo"
      BY <1>5, <2>2 DEF Undoing, UndoStep, UndoDeliver, UndoStart, UndoLoad, UndoComplete,
         UndoTransition, UndoUpdate, UndoReceipt, UndoCaught, UndoFinish, UndoThrow
    <3>2. UNCHANGED connectorVars
      BY <1>5, <3>1 DEF Undoing, connectorVars, worldVars
    <3>3. CASE UndoUpdate(r)
      BY <1>2, <3>2, <3>3, SettlesIt
    <3>4. CASE \/ UndoDeliver(r) \/ UndoStart(r) \/ UndoLoad(r) \/ UndoComplete(r)
               \/ UndoTransition(r) \/ UndoReceipt(r) \/ UndoCaught(r) \/ UndoFinish(r)
               \/ UndoThrow(r)
      BY <1>2, <3>2, <3>4, UndoUnnoticed, UnnoticedKeeps DEF Calm
    <3> QED
      BY <1>5, <2>2, <3>3, <3>4 DEF Undoing, UndoStep
  <2> QED
    BY <2>1, <2>2
<1>6. ~UndoLost(r) /\ ~UndoFails(r)
  BY <1>3 DEF UndoLost, UndoFails, UndoFault, UndoCrash
<1> QED
  BY <1>1, <1>4, <1>5, <1>6

\* A fault is never forgotten.
LEMMA FaultsStay ==
  ASSUME WorldInv, faults' = 0, ConnectedNext
  PROVE  faults = 0
<1>1. PICK r \in Rollbacks : RollbackStep(r)
  BY StepsAre DEF ConnectedNext
<1>2. faults' = faults \/ Fault
  BY <1>1 DEF RollbackStep, RollbackRead, AskStep, RollbackAddFails, AskDies, RollbackCreate,
     AskTransition, AskUpdate, RollbackAdd, RollbackRevert, UndoStep, UndoFault, UndoCrash,
     UndoDeliver, UndoStart, UndoLoad, Undo, UndoComplete, UndoTransition, UndoUpdate,
     UndoReceipt, UndoCaught, UndoFinish, UndoThrow, storeVars, TransitionAllowed,
     TransitionRefused, ApplyTransition
<1> QED
  BY <1>2 DEF Fault, WorldInv, RollbackTypeOK, StoreTypeOK

LEMMA IInvStep ==
  ASSUME IInv, [ConnectedNext]_vars
  PROVE  IInv'
<1>1. WorldInv'
  BY WorldStep DEF IInv
<1>2. ASSUME OneAtATime, faults' = 0
      PROVE  Orderly'
  <2>1. CASE ConnectedNext
    <3>1. faults = 0
      BY <1>2, <2>1, FaultsStay DEF IInv
    <3> QED
      BY <1>2, <2>1, <3>1, OrderlyStep DEF IInv, Calm
  <2>2. CASE UNCHANGED vars
    <3>1. Orderly
      BY <1>2, <2>2 DEF IInv, vars, storeVars
    <3> QED
      BY <2>2, <3>1 DEF vars, storeVars, rollbackVars, connectorVars, Orderly, JobFits, OneSettles,
         Counted, MockUndoes, Opening, Settling, Succeeded, Final, RunningAsks
  <2> QED
    BY <2>1, <2>2
<1> QED
  BY <1>1, <1>2 DEF IInv, OneAtATime

\* The inductive invariant holds in every behaviour.
THEOREM ConnectedRollbackInvariant == ConnectedSpec => []IInv
BY IInvInit, IInvStep, PTL DEF ConnectedSpec

-----------------------------------------------------------------------------
(* The theorems                                                            *)

\* Whatever overlaps, fails, is retried or lost: an intent is reported rolled
\* back only if the remote system was restored.
THEOREM RolledBackOnlyIfRestored == ConnectedSpec => []RolledBackIsRestored
<1>1. IInv => RolledBackIsRestored
  BY DEF IInv, WorldInv, Truthful, RolledBackIsRestored
<1> QED
  BY <1>1, ConnectedRollbackInvariant, PTL

\* What the simulation said of the reversibility is what the rollback does.
THEOREM SimulatedReversibilityHolds == ConnectedSpec => []ReversibilityIsHonest
<1>1. ASSUME IInv PROVE ReversibilityIsHonest
  <2>1. Reversibility(ask) = "full" => ask.type = "mock"
    BY <1>1 DEF IInv, WorldInv, WorldTypeOK, Ask, Reversibility, GithubReversibility,
       HttpReversibility
  <2>2. Reversibility(ask) = "none" => remote = "done" /\ status # "rolled_back"
    BY <1>1 DEF IInv, WorldInv, Truthful
  <2>3. OneAtATime /\ ask.type = "mock" /\ status = "rollback_failed" => faults > 0
    BY <1>1 DEF IInv, Orderly, MockUndoes, WorldInv, RollbackTypeOK, StoreTypeOK
  <2> QED
    BY <2>1, <2>2, <2>3 DEF ReversibilityIsHonest
<1> QED
  BY <1>1, ConnectedRollbackInvariant, PTL

\* With requests one at a time, a rollback that is reported failed left the side
\* effect in place, unless an answer was lost on the way.
THEOREM FailedRollbackLeavesIt == ConnectedSpec => []FailedRollbackLeftIt
<1>1. ASSUME IInv, OneAtATime, status = "rollback_failed", faults = 0, lost = 0
      PROVE  remote = "done"
  <2>1. undone = 0
    BY <1>1 DEF IInv, Orderly, Counted, OneSettles
  <2> QED
    BY <1>1, <2>1 DEF IInv, Orderly, Counted, WorldInv, WorldTypeOK
<1>2. IInv => FailedRollbackLeftIt
  BY <1>1 DEF FailedRollbackLeftIt
<1> QED
  BY <1>2, ConnectedRollbackInvariant, PTL

\* With requests one at a time, the remote system is asked to undo the same thing
\* again only after an answer or a worker was lost, or a row could not be written.
THEOREM UndoneAtMostOnce == ConnectedSpec => []NotUndoneAgain
<1>1. IInv => NotUndoneAgain
  BY DEF IInv, Orderly, Counted, WorldInv, WorldTypeOK, RollbackTypeOK, StoreTypeOK, NotUndoneAgain
<1> QED
  BY <1>1, ConnectedRollbackInvariant, PTL

\* With requests one at a time, when every job has left the queue without a fault
\* and with a usable connector, the intent and its attempt rows say which of the
\* two outcomes it was.
THEOREM OutcomeIsTold == ConnectedSpec => []RollbackOutcomeIsTold
<1>1. ASSUME IInv, OneAtATime, JobsDone, RunningAsks = {}, faults = 0, ~missing
      PROVE  /\ undone > 0 => status = "rolled_back"
             /\ undone = 0 => status \in {"succeeded", "rollback_failed"}
             /\ \A r \in Rollbacks :
                  /\ job[r].state = "completed" => attempt[r] = "completed"
                  /\ job[r].state = "failed" => attempt[r] = "failed"
  <2>1. \A r \in Rollbacks : ~Settling(r)
    BY <1>1 DEF JobsDone, RunningAsks, AskEnded, Settling
  <2>2. Orderly
    BY <1>1 DEF IInv
  <2> QED
    BY <1>1, <2>1, <2>2
    DEF Orderly, JobFits, OneSettles, Counted, IInv, WorldInv, Truthful, RollbackState
<1>2. IInv => RollbackOutcomeIsTold
  BY <1>1 DEF RollbackOutcomeIsTold
<1> QED
  BY <1>2, ConnectedRollbackInvariant, PTL
=============================================================================
