----------------------------- MODULE JobService -----------------------------
(***************************************************************************)
(* What WorkerPool.ExecuteJob promises its callers: a call is refused at   *)
(* once or accepted, and an accepted call is answered exactly once, with a *)
(* result that its code can have.                                          *)
(***************************************************************************)
CONSTANTS
  Jobs,      \* calls of ExecuteJob
  Answers,   \* Answers[j]: the results the code of j can have
  None       \* no result

VARIABLES
  call,      \* call[j]: new, waiting, refused or returned
  reply      \* reply[j]: the result the call returned

vars == <<call, reply>>

Init ==
  /\ call = [j \in Jobs |-> "new"]
  /\ reply = [j \in Jobs |-> None]

Accept(j) ==
  /\ call[j] = "new"
  /\ call' = [call EXCEPT ![j] = "waiting"]
  /\ UNCHANGED reply

Refuse(j) ==
  /\ call[j] = "new"
  /\ call' = [call EXCEPT ![j] = "refused"]
  /\ UNCHANGED reply

Answer(j) ==
  /\ call[j] = "waiting"
  /\ call' = [call EXCEPT ![j] = "returned"]
  /\ \E r \in Answers[j] : reply' = [reply EXCEPT ![j] = r]

Next == \E j \in Jobs : Accept(j) \/ Refuse(j) \/ Answer(j)

Safety == Init /\ [][Next]_vars

\* Nobody waits for ever.
Liveness == \A j \in Jobs : WF_vars(Answer(j))

Spec == Safety /\ Liveness
=============================================================================
