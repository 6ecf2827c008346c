------------------------- MODULE SubmitRequestProofs -------------------------
(***************************************************************************)
(* Proofs about SubmitRequest, for any posts, languages, jobs and workers. *)
(*                                                                         *)
(* The handlers call the pool as WorkerPool allows, so what WorkerPoolProofs*)
(* shows of the pool holds here too.  RequestInv, which ties the step of a *)
(* handler to its call of ExecuteJob and to its row, adds the rest.        *)
(***************************************************************************)
EXTENDS SubmitRequest, WorkerPoolProofs

HandlerSteps == {"check", "insert", "execute", "waiting", "update", "done"}

\* The call of a handler starts and ends with its execute and waiting steps, and a
\* handler that has not inserted a row has none.
RequestInv ==
  /\ handler \in [Jobs -> HandlerSteps]
  /\ row \in [Jobs -> Statuses \cup {"none"}]
  /\ answer \in [Jobs -> {"none", "empty", "400", "500", "result"}]
  /\ \A j \in Jobs :
       /\ reply[j] # None <=> call[j] = "returned"
       /\ handler[j] = "update" => call[j] \in {"returned", "refused"}
       /\ handler[j] \in {"check", "insert"} => row[j] = "none"

----------------------------------------------------------------------------
(* The pool of SubmitRequest is a WorkerPool. *)

\* A handler leaves the pool alone or makes a call, waits for one or is refused.
LEMMA PoolNext == [SubmitNext]_submitVars => [Next]_vars
<1>. SUFFICES ASSUME [SubmitNext]_submitVars PROVE [Next]_vars
  OBVIOUS
<1>1. ASSUME NEW j \in Jobs, Handle(j) PROVE [Next]_vars
  <2>1. CASE Execute(j) \/ ExecuteRefused(j) \/ Executed(j)
    BY <2>1 DEF Execute, ExecuteRefused, Executed, Next
  <2>2. CASE Prepare(j) \/ TurnAway(j) \/ QueryFails(j) \/ Insert(j) \/ InsertFails(j)
             \/ Update(j) \/ UpdateFails(j)
    BY <2>2 DEF Prepare, TurnAway, QueryFails, Insert, InsertFails, Update, UpdateFails
  <2>. QED
    BY <1>1, <2>1, <2>2 DEF Handle
<1>2. ASSUME NEW j \in Jobs, LeaveRequest(j) PROVE [Next]_vars
  BY <1>2 DEF LeaveRequest
<1>3. ASSUME NEW w \in Workers, Work(w) PROVE [Next]_vars
  BY <1>3 DEF Next
<1>4. CASE UNCHANGED submitVars
  BY <1>4 DEF submitVars
<1>. QED
  BY <1>1, <1>2, <1>3, <1>4 DEF SubmitNext

\* submission.go:124: the handlers use the pool through ExecuteJob alone, so every
\* behaviour of theirs is one of WorkerPool.
THEOREM PoolImplemented == SubmitSpec => Spec
<1>1. SubmitInit => Init
  BY DEF SubmitInit
<1>. QED
  BY <1>1, PoolNext, PTL DEF SubmitSpec, Spec

----------------------------------------------------------------------------
(* The steps of a handler. *)

LEMMA VerdictKnown ==
  ASSUME NEW p, Verified(p) # "built"
  PROVE  Verified(p) \in {"400", "500", "empty"}
<1>1. Built(p).err \in {"none", "parsed", "sanitization"}
  BY DEF Built, Builder!Build
<1>. QED
  BY <1>1 DEF Verified

LEMMA WorkKeepsCalls ==
  ASSUME NEW w \in Workers, Work(w)
  PROVE  UNCHANGED <<call, reply>>
BY DEF Work, Pick, Claim, Retry, GiveUp, Copy, CopyFails, CompileCode, CompileError,
       CompileFails, PassTest, FailTest, RunFails, PassAll, Release, callVars

LEMMA FaultsGrow == TypeOK /\ [Next]_vars => faults' \in Nat /\ faults' >= faults
<1>. SUFFICES ASSUME TypeOK, [Next]_vars PROVE faults' \in Nat /\ faults' >= faults
  OBVIOUS
<1>1. faults \in Nat
  BY DEF TypeOK
<1>2. UNCHANGED faults \/ faults' = faults + 1
  BY DEF Next, Submit, Refuse, Return, Work, Pick, Claim, Retry, GiveUp, Copy, CopyFails,
         CompileCode, CompileError, CompileFails, PassTest, FailTest, RunFails, PassAll,
         Release, Fail, vars
<1>. QED
  BY <1>1, <1>2

LEMMA StatusType == \A r : StatusOf(r) \in Statuses \ {"pending"}
BY DEF StatusOf, Statuses

LEMMA InitRequest == SubmitInit => RequestInv
BY DEF SubmitInit, Init, RequestInv, HandlerSteps, Statuses

\* The handlers of other jobs keep their step, row and call.
LEMMA NextRequest == TypeOK /\ RequestInv /\ [SubmitNext]_submitVars => RequestInv'
<1>. SUFFICES ASSUME TypeOK, RequestInv, [SubmitNext]_submitVars PROVE RequestInv'
  OBVIOUS
<1>. USE DEF RequestInv, HandlerSteps, GoOn, Respond
<1>1. ASSUME NEW j \in Jobs, Prepare(j) PROVE RequestInv'
  BY <1>1 DEF Prepare, vars, callVars
<1>2. ASSUME NEW j \in Jobs, TurnAway(j) PROVE RequestInv'
  BY <1>2, VerdictKnown DEF TurnAway, vars, callVars
<1>3. ASSUME NEW j \in Jobs, QueryFails(j) PROVE RequestInv'
  BY <1>3 DEF QueryFails, vars, callVars
<1>4. ASSUME NEW j \in Jobs, LeaveRequest(j) PROVE RequestInv'
  BY <1>4 DEF LeaveRequest, vars, callVars
<1>5. ASSUME NEW j \in Jobs, Insert(j) \/ InsertFails(j) PROVE RequestInv'
  BY <1>5 DEF Insert, InsertFails, CreateSubmission, Statuses, vars, callVars
<1>6. ASSUME NEW j \in Jobs, Execute(j) PROVE RequestInv'
  BY <1>6 DEF Execute, Submit, TypeOK
<1>7. ASSUME NEW j \in Jobs, ExecuteRefused(j) PROVE RequestInv'
  BY <1>7 DEF ExecuteRefused, Refuse, TypeOK
<1>8. ASSUME NEW j \in Jobs, Executed(j) PROVE RequestInv'
  BY <1>8 DEF Executed, Return, TypeOK
<1>9. ASSUME NEW j \in Jobs, Update(j) \/ UpdateFails(j) PROVE RequestInv'
  BY <1>9, StatusType DEF Update, UpdateFails, UpdateSubmissionStatus, vars, callVars
<1>10. ASSUME NEW w \in Workers, Work(w), UNCHANGED requestVars PROVE RequestInv'
  BY <1>10, WorkKeepsCalls DEF requestVars
<1>11. CASE UNCHANGED submitVars
  BY <1>11 DEF submitVars, requestVars, vars, callVars
<1>. QED
  BY <1>1, <1>2, <1>3, <1>4, <1>5, <1>6, <1>7, <1>8, <1>9, <1>10, <1>11
     DEF SubmitNext, Handle

LEMMA RequestCorrect == SubmitSpec => []RequestInv
<1>1. SubmitSpec => []TypeOK
  BY PoolImplemented, TypeCorrect
<1>. QED
  BY <1>1, InitRequest, NextRequest, PTL DEF SubmitSpec

----------------------------------------------------------------------------
(* The status that is stored. *)

\* What StoredStatusIsVerdict lets row j hold.
Holds(j, st) ==
  \/ st = StatusOf(Verdict(j))
  \/ faults > 0 /\ st \in {"runtime_error", "compilation_error"}
  \/ call[j] = "refused" /\ st = "runtime_error"

\* A handler that updates has the result of its call, or was refused and has none.
LEMMA UpdateHolds ==
  ASSUME RequestInv, VerdictInv, NEW j \in Jobs, handler[j] = "update"
  PROVE  Holds(j, StatusOf(reply[j]))
<1>1. CASE call[j] = "returned"
  <2>1. Deserved(j, reply[j], faults)
    BY <1>1 DEF RequestInv, VerdictInv, VerdictOfOwnCode
  <2>. QED
    BY <2>1 DEF Deserved, Mishaps, Holds, StatusOf
<1>2. CASE call[j] = "refused"
  BY <1>2, PoolAssumption DEF RequestInv, Holds, StatusOf
<1>. QED
  BY <1>1, <1>2 DEF RequestInv

\* The excuses of a status do not expire.
LEMMA HoldsStable ==
  ASSUME TypeOK, RequestInv, [SubmitNext]_submitVars, NEW j \in Jobs, NEW st, Holds(j, st)
  PROVE  Holds(j, st)'
<1>1. faults \in Nat /\ faults' \in Nat /\ faults' >= faults
  BY PoolNext, FaultsGrow DEF TypeOK
<1>2. call[j] = "refused" => call'[j] = "refused"
  <2>. SUFFICES ASSUME call[j] = "refused" PROVE call'[j] = "refused"
    OBVIOUS
  <2>1. ASSUME NEW i \in Jobs, Submit(i) \/ Refuse(i) \/ Return(i) PROVE call'[j] = "refused"
    BY <2>1 DEF Submit, Refuse, Return, TypeOK
  <2>2. ASSUME NEW w \in Workers, Work(w) PROVE call'[j] = "refused"
    BY <2>2, WorkKeepsCalls
  <2>3. CASE UNCHANGED vars
    BY <2>3 DEF vars, callVars
  <2>. QED
    BY <2>1, <2>2, <2>3, PoolNext DEF Next
<1>. QED
  BY <1>1, <1>2 DEF Holds, Verdict, Failing, FirstFailing, StatusOf

\* Only an update stores a status that is not pending.
LEMMA RowStep ==
  ASSUME RequestInv, [SubmitNext]_submitVars, NEW j \in Jobs
  PROVE  \/ row'[j] \in {row[j], "pending"}
         \/ handler[j] = "update" /\ row'[j] = StatusOf(reply[j])
<1>. USE DEF RequestInv, GoOn, Respond
<1>1. ASSUME NEW i \in Jobs, Insert(i) \/ InsertFails(i) PROVE row'[j] \in {row[j], "pending"}
  BY <1>1 DEF Insert, InsertFails, CreateSubmission
<1>2. ASSUME NEW i \in Jobs, Update(i) \/ UpdateFails(i)
      PROVE  row'[j] = row[j] \/ (handler[j] = "update" /\ row'[j] = StatusOf(reply[j]))
  BY <1>2 DEF Update, UpdateFails, UpdateSubmissionStatus
<1>3. CASE UNCHANGED row
  BY <1>3
<1>. QED
  BY <1>1, <1>2, <1>3
     DEF SubmitNext, Handle, Prepare, TurnAway, QueryFails, Execute, ExecuteRefused, Executed,
         LeaveRequest, requestVars, submitVars

\* submission.go:152-167: whatever is posted and whatever fails, a stored status is the
\* verdict on the code, an error where Docker failed, or the default of a refused job.
THEOREM StoredStatusCorrect == SubmitSpec => []StoredStatusIsVerdict
<1>. DEFINE Inv == StoredStatusIsVerdict
<1>1. SubmitInit => Inv
  BY DEF SubmitInit, StoredStatusIsVerdict
<1>2. TypeOK /\ RequestInv /\ VerdictInv /\ Inv /\ [SubmitNext]_submitVars => Inv'
  <2>. SUFFICES ASSUME TypeOK, RequestInv, VerdictInv, Inv, [SubmitNext]_submitVars,
                       NEW j \in Jobs, NEW st, st = row'[j], st \notin {"none", "pending"}
                PROVE  Holds(j, st)'
    BY DEF StoredStatusIsVerdict, Holds
  <2>1. CASE st = row[j]
    <3>1. Holds(j, st)
      BY <2>1 DEF StoredStatusIsVerdict, Holds
    <3>. QED
      BY <3>1, HoldsStable
  <2>2. CASE handler[j] = "update" /\ st = StatusOf(reply[j])
    <3>1. Holds(j, st)
      BY <2>2, UpdateHolds
    <3>. QED
      BY <3>1, HoldsStable
  <2>. QED
    BY <2>1, <2>2, RowStep
<1>3. SubmitSpec => []TypeOK /\ []VerdictInv
  BY PoolImplemented, TypeCorrect, VerdictsCorrect
<1>. QED
  BY <1>1, <1>2, <1>3, RequestCorrect, PTL DEF SubmitSpec

----------------------------------------------------------------------------
(* Rows that stay pending. *)

\* submission.go:67, 116, 126: a handler that ends without a judged row has told its
\* client of a failure of the database or of the ten seconds.
THEOREM PendingCorrect == SubmitSpec => []PendingExplained
<1>. DEFINE Inv == PendingExplained
<1>1. SubmitInit => Inv
  BY DEF SubmitInit, PendingExplained
<1>2. RequestInv /\ Inv /\ [SubmitNext]_submitVars => Inv'
  <2>. SUFFICES ASSUME RequestInv, Inv, [SubmitNext]_submitVars PROVE Inv'
    OBVIOUS
  <2>. USE DEF RequestInv, PendingExplained, GoOn, Respond
  <2>1. ASSUME NEW j \in Jobs, Prepare(j) \/ TurnAway(j) \/ QueryFails(j) PROVE Inv'
    BY <2>1 DEF Prepare, TurnAway, QueryFails
  <2>2. ASSUME NEW j \in Jobs, Insert(j) \/ InsertFails(j) PROVE Inv'
    BY <2>2 DEF Insert, InsertFails, CreateSubmission
  <2>3. ASSUME NEW j \in Jobs, Execute(j) \/ ExecuteRefused(j) \/ Executed(j) PROVE Inv'
    BY <2>3 DEF Execute, ExecuteRefused, Executed
  <2>4. ASSUME NEW j \in Jobs, Update(j) PROVE Inv'
    BY <2>4, StatusType DEF Update, UpdateSubmissionStatus
  <2>5. ASSUME NEW j \in Jobs, UpdateFails(j) PROVE Inv'
    BY <2>5 DEF UpdateFails, UpdateSubmissionStatus
  <2>6. ASSUME NEW j \in Jobs, LeaveRequest(j) PROVE Inv'
    BY <2>6 DEF LeaveRequest
  <2>7. CASE UNCHANGED requestVars
    BY <2>7 DEF requestVars
  <2>. QED
    BY <2>1, <2>2, <2>3, <2>4, <2>5, <2>6, <2>7 DEF SubmitNext, Handle, submitVars
<1>. QED
  BY <1>1, <1>2, RequestCorrect, PTL DEF SubmitSpec
=============================================================================
