-------------------------- MODULE WorkerPoolProofs --------------------------
(***************************************************************************)
(* Proofs about WorkerPool, for any number of jobs, workers, containers    *)
(* and failures.                                                           *)
(*                                                                         *)
(* The invariants build on each other: TypeOK; HoldInv, who holds which    *)
(* container; JobInv, where each job is; VerdictInv, which needs both to   *)
(* follow a job's code from its container to its result.  JobService is    *)
(* implemented, as far as safety goes, because of all three.               *)
(***************************************************************************)
EXTENDS WorkerPool, FiniteSetTheorems, TLAPS

\* A worker's queue of one item less holds items of the queue.
LEMMA TailType ==
  ASSUME NEW S, NEW q \in Seq(S), q # <<>>
  PROVE  /\ Head(q) \in S
         /\ Tail(q) \in Seq(S)
         /\ Len(Tail(q)) = Len(q) - 1
         /\ Len(q) \in Nat \ {0}
         /\ Head(q) = q[1]
         /\ \A i \in 1..Len(Tail(q)) : Tail(q)[i] = q[i + 1]
OBVIOUS

LEMMA AppendType ==
  ASSUME NEW S, NEW q \in Seq(S), NEW e \in S
  PROVE  /\ Append(q, e) \in Seq(S)
         /\ Len(Append(q, e)) = Len(q) + 1
         /\ Len(q) \in Nat
         /\ \A i \in 1..Len(q) : Append(q, e)[i] = q[i]
         /\ Append(q, e)[Len(q) + 1] = e
OBVIOUS

----------------------------------------------------------------------------
(* Types. *)

LEMMA InitType == Init => TypeOK
<1>. SUFFICES ASSUME Init PROVE TypeOK
  OBVIOUS
<1>. USE PoolAssumption DEF Init
<1>1. jobs \in Seq(Jobs) /\ Len(jobs) <= MaxJobCount
  OBVIOUS
<1>2. /\ call \in [Jobs -> {"new", "waiting", "refused", "returned"}]
      /\ result \in [Jobs -> Results \cup {None}]
      /\ reply \in [Jobs -> Results \cup {None}]
  OBVIOUS
<1>3. /\ state \in [Containers -> {"idle", "busy", "error"}]
      /\ image \in [Containers -> Jobs \cup {None}]
  OBVIOUS
<1>4. /\ step \in [Workers -> Steps]
      /\ task \in [Workers -> Jobs \cup {None}]
      /\ held \in [Workers -> Containers \cup {None}]
  BY DEF Steps, Holding
<1>5. /\ tries \in [Workers -> 0..(MaxRetries - 1)]
      /\ passed \in [Workers -> Nat]
      /\ faults \in Nat
  OBVIOUS
<1>. QED
  BY <1>1, <1>2, <1>3, <1>4, <1>5 DEF TypeOK

\* The three calls of ExecuteJob and the steps of a worker, one lemma each, so
\* that the proofs of the invariants split Next once.
LEMMA NextType == TypeOK /\ [Next]_vars => TypeOK'
<1>. SUFFICES ASSUME TypeOK, [Next]_vars PROVE TypeOK'
  OBVIOUS
<1>. USE PoolAssumption
<1>. USE DEF TypeOK, callVars, dockerVars, workVars, Goto, SendResult, Results, Steps, Holding
<1>0. Fail => faults' \in Nat
  BY DEF Fail
<1>1. ASSUME NEW j \in Jobs, Submit(j) PROVE TypeOK'
  <2>1. jobs' \in Seq(Jobs) /\ Len(jobs') <= MaxJobCount
    BY <1>1, AppendType DEF Submit
  <2>. QED
    BY <1>1, <2>1 DEF Submit
<1>2. ASSUME NEW j \in Jobs, Refuse(j) PROVE TypeOK'
  BY <1>2 DEF Refuse
<1>3. ASSUME NEW j \in Jobs, Return(j) PROVE TypeOK'
  BY <1>3 DEF Return
<1>4. ASSUME NEW w \in Workers, Pick(w) PROVE TypeOK'
  <2>1. jobs' \in Seq(Jobs) /\ Len(jobs') <= MaxJobCount /\ Head(jobs) \in Jobs
    BY <1>4, TailType DEF Pick
  <2>. QED
    BY <1>4, <2>1 DEF Pick
<1>5. ASSUME NEW w \in Workers, Claim(w) PROVE TypeOK'
  BY <1>5 DEF Claim
<1>6. ASSUME NEW w \in Workers, Retry(w) PROVE TypeOK'
  <2>1. tries' \in [Workers -> 0..(MaxRetries - 1)]
    BY <1>6 DEF Retry
  <2>. QED
    BY <1>6, <2>1 DEF Retry
<1>7. ASSUME NEW w \in Workers, GiveUp(w) PROVE TypeOK'
  BY <1>7 DEF GiveUp
<1>8. ASSUME NEW w \in Workers, Copy(w) PROVE TypeOK'
  BY <1>8 DEF Copy
<1>9. ASSUME NEW w \in Workers, CopyFails(w) PROVE TypeOK'
  BY <1>0, <1>9 DEF CopyFails
<1>10. ASSUME NEW w \in Workers, CompileCode(w) PROVE TypeOK'
  BY <1>10 DEF CompileCode
<1>11. ASSUME NEW w \in Workers, CompileError(w) PROVE TypeOK'
  BY <1>11 DEF CompileError
<1>12. ASSUME NEW w \in Workers, CompileFails(w) PROVE TypeOK'
  BY <1>0, <1>12 DEF CompileFails
<1>13. ASSUME NEW w \in Workers, PassTest(w) PROVE TypeOK'
  BY <1>13 DEF PassTest
<1>14. ASSUME NEW w \in Workers, FailTest(w) PROVE TypeOK'
  BY <1>14 DEF FailTest
<1>15. ASSUME NEW w \in Workers, RunFails(w) PROVE TypeOK'
  BY <1>0, <1>15 DEF RunFails
<1>16. ASSUME NEW w \in Workers, PassAll(w) PROVE TypeOK'
  BY <1>16 DEF PassAll
<1>17. ASSUME NEW w \in Workers, Release(w) PROVE TypeOK'
  BY <1>17 DEF Release
<1>18. CASE UNCHANGED vars
  BY <1>18 DEF vars
<1>. QED
  BY <1>1, <1>2, <1>3, <1>4, <1>5, <1>6, <1>7, <1>8, <1>9, <1>10, <1>11, <1>12,
     <1>13, <1>14, <1>15, <1>16, <1>17, <1>18 DEF Next, Work

\* Every variable keeps the values the code can give it; the jobs channel never
\* holds more than MaxJobCount jobs.
THEOREM TypeCorrect == Spec => []TypeOK
BY InitType, NextType, PTL DEF Spec

----------------------------------------------------------------------------
(* Containers. *)

LEMMA InitHold == Init => HoldInv
BY PoolAssumption DEF Init, HoldInv, ContainersExclusive, Holding

\* A container changes hands in Claim and Release only; the other steps keep a
\* worker in Holding or out of it.
LEMMA NextHold == TypeOK /\ HoldInv /\ [Next]_vars => HoldInv'
<1>. SUFFICES ASSUME TypeOK, HoldInv, [Next]_vars PROVE HoldInv'
  OBVIOUS
<1>. USE PoolAssumption
<1>1. ASSUME UNCHANGED <<state, held>>,
             \/ UNCHANGED step
             \/ \E w \in Workers : \E to \in Steps :
                  /\ step[w] \in Holding <=> to \in Holding
                  /\ step' = [step EXCEPT ![w] = to]
      PROVE  HoldInv'
  <2>1. \A v \in Workers : step'[v] \in Holding <=> step[v] \in Holding
    <3>1. CASE UNCHANGED step
      BY <3>1
    <3>2. CASE ~UNCHANGED step
      <4>1. PICK w \in Workers, to \in Steps :
              /\ step[w] \in Holding <=> to \in Holding
              /\ step' = [step EXCEPT ![w] = to]
        BY <1>1, <3>2
      <4>. QED
        BY <4>1 DEF TypeOK
    <3>. QED BY <3>1, <3>2
  <2>. QED
    BY <1>1, <2>1 DEF HoldInv, ContainersExclusive
<1>2. ASSUME NEW j \in Jobs, Submit(j) \/ Refuse(j) \/ Return(j) PROVE HoldInv'
  BY <1>1, <1>2 DEF Submit, Refuse, Return, dockerVars, workVars
<1>3. ASSUME NEW w \in Workers, Claim(w) PROVE HoldInv'
  <2>1. PICK c \in Containers :
          /\ state[c] = "idle"
          /\ state' = [state EXCEPT ![c] = "busy"]
          /\ held' = [held EXCEPT ![w] = c]
    BY <1>3 DEF Claim
  <2>2. \A v \in Workers : held[v] # c
    BY <2>1 DEF HoldInv, ContainersExclusive
  <2>3. step[w] = "claim" /\ step' = [step EXCEPT ![w] = "copy"]
    BY <1>3 DEF Claim, Goto
  <2>4. held[w] = None
    BY <2>3 DEF HoldInv, Holding
  <2>5. ContainersExclusive'
    BY <2>1, <2>2, <2>4 DEF TypeOK, HoldInv, ContainersExclusive
  <2>6. \A v \in Workers : held'[v] # None <=> step'[v] \in Holding
    BY <2>1, <2>3 DEF TypeOK, HoldInv, Holding
  <2>. QED
    BY <2>5, <2>6 DEF HoldInv
<1>4. ASSUME NEW w \in Workers, Release(w) PROVE HoldInv'
  <2>1. /\ step[w] = "release" /\ step' = [step EXCEPT ![w] = "wait"]
        /\ state' = [state EXCEPT ![held[w]] = "idle"]
        /\ held' = [held EXCEPT ![w] = None]
    BY <1>4 DEF Release, Goto
  <2>2. held[w] \in Containers /\ state[held[w]] = "busy"
    BY <2>1 DEF TypeOK, HoldInv, ContainersExclusive, Holding
  <2>3. \A v \in Workers : v # w => held[v] # held[w]
    BY <2>2 DEF HoldInv, ContainersExclusive
  <2>4. ContainersExclusive'
    BY <2>1, <2>2, <2>3 DEF TypeOK, HoldInv, ContainersExclusive
  <2>5. \A v \in Workers : held'[v] # None <=> step'[v] \in Holding
    BY <2>1 DEF TypeOK, HoldInv, Holding
  <2>. QED
    BY <2>4, <2>5 DEF HoldInv
<1>5. ASSUME NEW w \in Workers, Pick(w) \/ Retry(w) \/ GiveUp(w) PROVE HoldInv'
  <2>. USE <1>1 DEF Steps, Holding
  <2>1. CASE Pick(w)
    BY <2>1 DEF Pick, Goto, dockerVars
  <2>2. CASE Retry(w)
    BY <2>2 DEF Retry, dockerVars
  <2>3. CASE GiveUp(w)
    BY <2>3 DEF GiveUp, Goto, dockerVars
  <2>. QED BY <1>5, <2>1, <2>2, <2>3
<1>6. ASSUME NEW w \in Workers, Copy(w) \/ CopyFails(w) PROVE HoldInv'
  <2>. USE <1>1 DEF Steps, Holding
  <2>1. CASE Copy(w)
    BY <2>1 DEF Copy, Goto
  <2>2. CASE CopyFails(w)
    BY <2>2 DEF CopyFails, Goto, dockerVars
  <2>. QED BY <1>6, <2>1, <2>2
<1>7. ASSUME NEW w \in Workers, CompileCode(w) \/ CompileError(w) \/ CompileFails(w)
      PROVE  HoldInv'
  <2>. USE <1>1 DEF Steps, Holding
  <2>1. CASE CompileCode(w)
    BY <2>1 DEF CompileCode, Goto, dockerVars
  <2>2. CASE CompileError(w)
    BY <2>2 DEF CompileError, Goto, dockerVars
  <2>3. CASE CompileFails(w)
    BY <2>3 DEF CompileFails, Goto, dockerVars
  <2>. QED BY <1>7, <2>1, <2>2, <2>3
<1>8. ASSUME NEW w \in Workers, PassTest(w) \/ FailTest(w) \/ RunFails(w) \/ PassAll(w)
      PROVE  HoldInv'
  <2>. USE <1>1 DEF Steps, Holding
  <2>1. CASE PassTest(w)
    BY <2>1 DEF PassTest, dockerVars
  <2>2. CASE FailTest(w)
    BY <2>2 DEF FailTest, Goto, dockerVars
  <2>3. CASE RunFails(w)
    BY <2>3 DEF RunFails, Goto, dockerVars
  <2>4. CASE PassAll(w)
    BY <2>4 DEF PassAll, Goto, dockerVars
  <2>. QED BY <1>8, <2>1, <2>2, <2>3, <2>4
<1>9. CASE UNCHANGED vars
  BY <1>1, <1>9 DEF vars, dockerVars, workVars
<1>. QED
  BY <1>2, <1>3, <1>4, <1>5, <1>6, <1>7, <1>8, <1>9 DEF Next, Work

LEMMA HoldCorrect == Spec => []HoldInv
BY TypeCorrect, InitHold, NextHold, PTL DEF Spec

\* No container ever runs the code of two workers: it is busy exactly while one
\* worker holds it.
THEOREM ExclusiveCorrect == Spec => []ContainersExclusive
<1>1. HoldInv => ContainersExclusive
  BY DEF HoldInv
<1>. QED BY <1>1, HoldCorrect, PTL

\* If no container is idle, every running one is held by a worker of its own; one
\* worker looks for a container, so there are more workers than containers.
LEMMA HoldersFewer == TypeOK /\ HoldInv => ContainerAvailable
<1>. SUFFICES ASSUME TypeOK, HoldInv, NEW w \in Workers, step[w] = "claim", NoneIdle
              PROVE  ~(Cardinality(Healthy) >= Cardinality(Workers))
  BY DEF ContainerAvailable, Equipped
<1>. DEFINE Others == Workers \ {w}
            holder == [c \in Healthy |-> CHOOSE v \in Workers : held[v] = c]
<1>1. \A c \in Healthy : \E v \in Workers : held[v] = c
  BY DEF TypeOK, HoldInv, ContainersExclusive, NoneIdle, Healthy
<1>2. held[w] = None
  BY DEF HoldInv, Holding
<1>3. \A c \in Healthy : holder[c] \in Others /\ held[holder[c]] = c
  BY <1>1, <1>2, PoolAssumption DEF Healthy
<1>4. holder \in Injection(Healthy, Others)
  BY <1>3 DEF Injection, IsInjective
<1>5. IsFiniteSet(Healthy) /\ IsFiniteSet(Others)
  BY PoolAssumption, FS_Subset DEF Healthy
<1>6. Cardinality(Healthy) <= Cardinality(Others)
  BY <1>4, <1>5, FS_Injection
<1>7. Cardinality(Others) = Cardinality(Workers) - 1
  BY PoolAssumption, FS_RemoveElement
<1>8. Cardinality(Healthy) \in Nat /\ Cardinality(Others) \in Nat /\ Cardinality(Workers) \in Nat
  BY <1>5, PoolAssumption, FS_CardinalityType
<1>. QED
  BY <1>6, <1>7, <1>8

\* With as many running containers as workers, every lookup finds one: executeJob
\* never reaches the return that leaves its caller waiting.
THEOREM AvailableCorrect == Spec => []ContainerAvailable
BY TypeCorrect, HoldCorrect, HoldersFewer, PTL

----------------------------------------------------------------------------
(* Jobs. *)

LEMMA InitJobs == Init => JobInv
BY PoolAssumption DEF Init, JobInv, OneResultPerJob, Judging

\* A worker goes on judging its job: nothing another one could notice.
LEMMA KeepJudging ==
  ASSUME TypeOK, JobInv, NEW w \in Workers, step[w] \in Judging,
         NEW to \in Judging, step' = [step EXCEPT ![w] = to],
         UNCHANGED <<jobs, call, result, task>>
  PROVE  JobInv'
<1>1. \A v \in Workers : /\ step'[v] \in Judging <=> step[v] \in Judging
                         /\ step'[v] = "wait" <=> step[v] = "wait"
  BY DEF TypeOK, Judging
<1>. QED
  BY <1>1 DEF JobInv, OneResultPerJob

\* A worker sends a result: the caller waits for it, and nobody else has the job.
LEMMA OneSend ==
  ASSUME TypeOK, JobInv, NEW w \in Workers, step[w] \in Judging,
         step' = [step EXCEPT ![w] = "release"],
         NEW r, result' = [result EXCEPT ![task[w]] = r],
         UNCHANGED <<jobs, call, task>>
  PROVE  JobInv'
<1>1. \A v \in Workers : /\ step'[v] \in Judging => step[v] \in Judging /\ v # w
                         /\ step'[v] = "wait" <=> step[v] = "wait"
  BY DEF TypeOK, Judging
<1>2. task[w] \in Jobs /\ call[task[w]] = "waiting"
  BY DEF TypeOK, JobInv, OneResultPerJob, Judging
<1>3. \A v \in Workers : v # w => task[v] # task[w]
  BY <1>2, PoolAssumption DEF JobInv, OneResultPerJob
<1>4. \A j \in Jobs : j # task[w] => result'[j] = result[j]
  BY DEF TypeOK
<1>5. OneResultPerJob'
  <2>1. ASSUME NEW v \in Workers, step'[v] \in Judging
        PROVE  call'[task'[v]] = "waiting" /\ result'[task'[v]] = None
    <3>1. step[v] \in Judging /\ v # w
      BY <1>1, <2>1
    <3>2. call[task[v]] = "waiting" /\ result[task[v]] = None /\ task[v] \in Jobs
      BY <3>1 DEF TypeOK, JobInv, OneResultPerJob, Judging
    <3>. QED BY <1>3, <1>4, <3>1, <3>2
  <2>2. \A u, v \in Workers : u # v /\ task'[u] # None => task'[u] # task'[v]
    BY DEF JobInv, OneResultPerJob
  <2>. QED BY <2>1, <2>2 DEF OneResultPerJob
<1>6. \A i \in 1..Len(jobs) : jobs[i] \in Jobs /\ jobs[i] # task[w]
  BY DEF TypeOK, JobInv
<1>7. \A i \in 1..Len(jobs) : result'[jobs[i]] = None
  BY <1>4, <1>6 DEF JobInv
<1>8. \A j \in Jobs : result'[j] # None => call[j] = "waiting"
  BY <1>2, <1>4 DEF JobInv
<1>. QED
  BY <1>1, <1>5, <1>7, <1>8 DEF JobInv

LEMMA NextJobs == TypeOK /\ JobInv /\ [Next]_vars => JobInv'
<1>. SUFFICES ASSUME TypeOK, JobInv, [Next]_vars PROVE JobInv'
  OBVIOUS
<1>. USE PoolAssumption
<1>1. ASSUME NEW j \in Jobs, Submit(j) PROVE JobInv'
  <2>1. /\ call[j] = "new" /\ call' = [call EXCEPT ![j] = "waiting"]
        /\ jobs' = Append(jobs, j) /\ UNCHANGED <<result, step, task>>
    BY <1>1 DEF Submit, workVars
  <2>2. result[j] = None /\ \A w \in Workers : task[w] # j
    <3>1. result[j] # None => call[j] = "waiting"
      BY DEF JobInv
    <3>2. \A w \in Workers : task[w] = j => call[j] \in {"waiting", "returned"}
      BY DEF JobInv
    <3>. QED BY <2>1, <3>1, <3>2
  <2>3. \A i \in 1..Len(jobs) : jobs[i] # j
    BY <2>1 DEF JobInv
  <2>4. /\ Len(jobs') = Len(jobs) + 1 /\ Len(jobs) \in Nat
        /\ \A i \in 1..Len(jobs) : jobs'[i] = jobs[i]
        /\ jobs'[Len(jobs) + 1] = j
    BY <2>1, AppendType DEF TypeOK
  <2>5. \A i \in 1..Len(jobs') : i \in 1..Len(jobs) \/ i = Len(jobs) + 1
    BY <2>4
  <2>6. \A k \in Jobs : k # j => call'[k] = call[k]
    BY <2>1 DEF TypeOK
  <2>7. call'[j] = "waiting"
    BY <2>1 DEF TypeOK
  <2>8. \A i \in 1..Len(jobs) : jobs[i] \in Jobs
    BY DEF TypeOK
  <2>9. \A i \in 1..Len(jobs') :
          /\ call'[jobs'[i]] = "waiting" /\ result'[jobs'[i]] = None
          /\ \A w \in Workers : task'[w] # jobs'[i]
    BY <2>1, <2>2, <2>3, <2>4, <2>5, <2>6, <2>7, <2>8 DEF JobInv
  <2>10. \A i, k \in 1..Len(jobs') : i # k => jobs'[i] # jobs'[k]
    <3>. SUFFICES ASSUME NEW i \in 1..Len(jobs'), NEW k \in 1..Len(jobs'), i # k
                  PROVE  jobs'[i] # jobs'[k]
      OBVIOUS
    <3>1. CASE i \in 1..Len(jobs) /\ k \in 1..Len(jobs)
      BY <3>1, <2>4 DEF JobInv
    <3>2. CASE i \in 1..Len(jobs) /\ k = Len(jobs) + 1
      BY <3>2, <2>3, <2>4
    <3>3. CASE i = Len(jobs) + 1 /\ k \in 1..Len(jobs)
      BY <3>3, <2>3, <2>4
    <3>. QED BY <2>5, <3>1, <3>2, <3>3
  <2>11. OneResultPerJob'
    <3>1. \A w \in Workers : step[w] \in Judging => task[w] \in Jobs /\ task[w] # j
      BY <2>2 DEF TypeOK, JobInv, Judging
    <3>. QED BY <3>1, <2>1, <2>6 DEF JobInv, OneResultPerJob
  <2>12. \A w \in Workers : task'[w] # None => call'[task'[w]] \in {"waiting", "returned"}
    BY <2>1, <2>2, <2>6 DEF TypeOK, JobInv
  <2>13. \A k \in Jobs : result'[k] # None => call'[k] = "waiting"
    BY <2>1, <2>6, <2>7 DEF JobInv
  <2>14. \A w \in Workers : task'[w] = None <=> step'[w] = "wait"
    BY <2>1 DEF JobInv
  <2>. QED
    BY <2>9, <2>10, <2>11, <2>12, <2>13, <2>14 DEF JobInv
<1>2. ASSUME NEW j \in Jobs, Refuse(j) PROVE JobInv'
  <2>1. /\ call[j] = "new" /\ call' = [call EXCEPT ![j] = "refused"]
        /\ UNCHANGED <<jobs, result, step, task>>
    BY <1>2 DEF Refuse, workVars
  <2>2. \A k \in Jobs : call[k] # "new" => call'[k] = call[k]
    BY <2>1 DEF TypeOK
  <2>3. \A w \in Workers : task[w] # None => task[w] \in Jobs /\ call'[task[w]] = call[task[w]]
    <3>. SUFFICES ASSUME NEW w \in Workers, task[w] # None
                  PROVE  task[w] \in Jobs /\ call'[task[w]] = call[task[w]]
      OBVIOUS
    <3>1. task[w] \in Jobs
      BY DEF TypeOK
    <3>2. call[task[w]] \in {"waiting", "returned"}
      BY DEF JobInv
    <3>. QED BY <2>2, <3>1, <3>2
  <2>4. \A i \in 1..Len(jobs) : jobs[i] \in Jobs /\ call'[jobs[i]] = call[jobs[i]]
    BY <2>2 DEF TypeOK, JobInv
  <2>5. \A w \in Workers : step[w] \in Judging => task[w] # None
    BY DEF JobInv, Judging
  <2>6. OneResultPerJob'
    BY <2>1, <2>3, <2>5 DEF JobInv, OneResultPerJob
  <2>7. \A k \in Jobs : result[k] # None => call'[k] = "waiting"
    BY <2>2 DEF JobInv
  <2>. QED
    BY <2>1, <2>3, <2>4, <2>6, <2>7 DEF JobInv
<1>3. ASSUME NEW j \in Jobs, Return(j) PROVE JobInv'
  <2>1. /\ call[j] = "waiting" /\ result[j] # None
        /\ call' = [call EXCEPT ![j] = "returned"]
        /\ result' = [result EXCEPT ![j] = None]
        /\ UNCHANGED <<jobs, step, task>>
    BY <1>3 DEF Return, workVars
  <2>2. \A k \in Jobs : k # j => call'[k] = call[k] /\ result'[k] = result[k]
    BY <2>1 DEF TypeOK
  <2>3. call'[j] = "returned" /\ result'[j] = None
    BY <2>1 DEF TypeOK
  <2>4. \A i \in 1..Len(jobs) : jobs[i] \in Jobs /\ jobs[i] # j
    BY <2>1 DEF TypeOK, JobInv
  <2>5. \A w \in Workers : step[w] \in Judging => task[w] \in Jobs /\ task[w] # j
    BY <2>1 DEF TypeOK, JobInv, OneResultPerJob, Judging
  <2>6. OneResultPerJob'
    BY <2>1, <2>2, <2>5 DEF JobInv, OneResultPerJob
  <2>7. ASSUME NEW w \in Workers, task[w] # None
        PROVE  call'[task[w]] \in {"waiting", "returned"}
    <3>1. task[w] \in Jobs
      BY <2>7 DEF TypeOK
    <3>2. call[task[w]] \in {"waiting", "returned"}
      BY <2>7 DEF JobInv
    <3>. QED BY <2>2, <2>3, <3>1, <3>2
  <2>8. \A k \in Jobs : result'[k] # None => call'[k] = "waiting"
    BY <2>2, <2>3 DEF JobInv
  <2>9. \A i \in 1..Len(jobs) : call'[jobs[i]] = "waiting" /\ result'[jobs[i]] = None
    BY <2>2, <2>4 DEF JobInv
  <2>. QED
    BY <2>1, <2>6, <2>7, <2>8, <2>9 DEF JobInv
<1>4. ASSUME NEW w \in Workers, Pick(w) PROVE JobInv'
  <2>. DEFINE j == Head(jobs)
  <2>1. /\ step[w] = "wait" /\ step' = [step EXCEPT ![w] = "claim"]
        /\ jobs # <<>> /\ jobs' = Tail(jobs) /\ task' = [task EXCEPT ![w] = j]
        /\ UNCHANGED <<call, result>>
    BY <1>4 DEF Pick, Goto
  <2>2. /\ j \in Jobs /\ j = jobs[1] /\ 1 \in 1..Len(jobs) /\ Len(jobs) \in Nat
        /\ Len(jobs') = Len(jobs) - 1
        /\ \A i \in 1..Len(jobs') : jobs'[i] = jobs[i + 1]
    BY <2>1, TailType DEF TypeOK
  <2>3. call[j] = "waiting" /\ result[j] = None /\ \A v \in Workers : task[v] # j
    BY <2>2 DEF JobInv
  <2>4. \A i \in 1..Len(jobs') : i + 1 \in 1..Len(jobs) /\ i + 1 # 1
    BY <2>2
  <2>5. \A i \in 1..Len(jobs') : jobs'[i] # j
    BY <2>2, <2>4 DEF JobInv
  <2>6. \A v \in Workers : /\ v # w => task'[v] = task[v] /\ step'[v] = step[v]
                           /\ v = w => task'[v] = j /\ step'[v] = "claim"
    BY <2>1 DEF TypeOK
  <2>7. OneResultPerJob'
    <3>1. ASSUME NEW v \in Workers, step'[v] \in Judging
          PROVE  call[task'[v]] = "waiting" /\ result[task'[v]] = None
      BY <2>3, <2>6, <3>1 DEF JobInv, OneResultPerJob
    <3>2. ASSUME NEW u \in Workers, NEW v \in Workers, u # v, task'[u] # None
          PROVE  task'[u] # task'[v]
      BY <2>3, <2>6, <3>2 DEF JobInv, OneResultPerJob
    <3>. QED BY <2>1, <3>1, <3>2 DEF OneResultPerJob
  <2>8. \A i \in 1..Len(jobs') :
          /\ call[jobs'[i]] = "waiting" /\ result[jobs'[i]] = None
          /\ \A v \in Workers : task'[v] # jobs'[i]
    BY <2>2, <2>4, <2>5, <2>6 DEF JobInv
  <2>9. \A i, k \in 1..Len(jobs') : i # k => jobs'[i] # jobs'[k]
    <3>. SUFFICES ASSUME NEW i \in 1..Len(jobs'), NEW k \in 1..Len(jobs'), i # k
                  PROVE  jobs'[i] # jobs'[k]
      OBVIOUS
    <3>1. i + 1 # k + 1
      BY <2>2
    <3>. QED BY <2>2, <2>4, <3>1 DEF JobInv
  <2>10. \A v \in Workers : /\ task'[v] = None <=> step'[v] = "wait"
                            /\ task'[v] # None => call[task'[v]] \in {"waiting", "returned"}
    <3>. SUFFICES ASSUME NEW v \in Workers
                  PROVE  /\ task'[v] = None <=> step'[v] = "wait"
                         /\ task'[v] # None => call[task'[v]] \in {"waiting", "returned"}
      OBVIOUS
    <3>1. CASE v = w
      <4>1. j # None
        BY <2>2
      <4>. QED BY <2>3, <2>6, <3>1, <4>1
    <3>2. CASE v # w
      BY <2>6, <3>2 DEF JobInv
    <3>. QED BY <3>1, <3>2
  <2>. QED
    BY <2>1, <2>7, <2>8, <2>9, <2>10 DEF JobInv
<1>5. ASSUME NEW w \in Workers, Claim(w) PROVE JobInv'
  BY <1>5, KeepJudging DEF Claim, Goto, Judging, callVars
<1>6. ASSUME NEW w \in Workers, Retry(w) PROVE JobInv'
  BY <1>6 DEF Retry, callVars, JobInv, OneResultPerJob
<1>7. ASSUME NEW w \in Workers, GiveUp(w) \/ Release(w) PROVE JobInv'
  <2>1. /\ step' = [step EXCEPT ![w] = "wait"] /\ task' = [task EXCEPT ![w] = None]
        /\ UNCHANGED <<jobs, call, result>>
    BY <1>7 DEF GiveUp, Release, Goto, callVars
  <2>2. \A v \in Workers : /\ v # w => task'[v] = task[v] /\ step'[v] = step[v]
                           /\ v = w => task'[v] = None /\ step'[v] = "wait"
    BY <2>1 DEF TypeOK
  <2>3. OneResultPerJob'
    BY <2>1, <2>2 DEF JobInv, OneResultPerJob, Judging
  <2>4. \A i \in 1..Len(jobs) : jobs[i] \in Jobs
    BY DEF TypeOK
  <2>5. \A i \in 1..Len(jobs) : \A v \in Workers : task'[v] # jobs[i]
    BY <2>2, <2>4 DEF JobInv
  <2>6. \A v \in Workers : /\ task'[v] = None <=> step'[v] = "wait"
                           /\ task'[v] # None => call[task'[v]] \in {"waiting", "returned"}
    BY <2>2 DEF JobInv
  <2>. QED
    BY <2>1, <2>3, <2>5, <2>6 DEF JobInv
<1>8. ASSUME NEW w \in Workers, Copy(w) \/ CompileCode(w) PROVE JobInv'
  <2>1. CASE Copy(w)
    BY <2>1, KeepJudging DEF Copy, Goto, Judging, callVars
  <2>2. CASE CompileCode(w)
    BY <2>2, KeepJudging DEF CompileCode, Goto, Judging, callVars
  <2>. QED BY <1>8, <2>1, <2>2
<1>9. ASSUME NEW w \in Workers,
             CopyFails(w) \/ CompileError(w) \/ CompileFails(w)
               \/ FailTest(w) \/ RunFails(w) \/ PassAll(w)
      PROVE  JobInv'
  <2>1. /\ step[w] \in Judging /\ step' = [step EXCEPT ![w] = "release"]
        /\ UNCHANGED <<jobs, call, task>>
    BY <1>9 DEF CopyFails, CompileError, CompileFails, FailTest, RunFails, PassAll,
                Goto, Judging, callVars
  <2>2. \E r : SendResult(w, r)
    BY <1>9 DEF CopyFails, CompileError, CompileFails, FailTest, RunFails, PassAll
  <2>3. PICK r : result' = [result EXCEPT ![task[w]] = r]
    BY <2>2 DEF SendResult
  <2>. QED BY <2>1, <2>3, OneSend
<1>10. ASSUME NEW w \in Workers, PassTest(w) PROVE JobInv'
  BY <1>10 DEF PassTest, callVars, JobInv, OneResultPerJob
<1>11. CASE UNCHANGED vars
  BY <1>11 DEF vars, callVars, workVars, JobInv, OneResultPerJob
<1>. QED
  BY <1>1, <1>2, <1>3, <1>4, <1>5, <1>6, <1>7, <1>8, <1>9, <1>10, <1>11 DEF Next, Work

LEMMA JobsCorrect == Spec => []JobInv
BY TypeCorrect, InitJobs, NextJobs, PTL DEF Spec

\* Every job has one worker and gets one result, sent to a caller that still
\* waits: no send on a job's channel ever blocks a worker.
THEOREM OneResultCorrect == Spec => []OneResultPerJob
<1>1. JobInv => OneResultPerJob
  BY DEF JobInv
<1>. QED BY <1>1, JobsCorrect, PTL

----------------------------------------------------------------------------
(* No call is left behind. *)

\* The states of the containers change between idle and busy only.
LEMMA HealthyKept == TypeOK /\ HoldInv /\ [Next]_vars => Healthy' = Healthy
<1>. SUFFICES ASSUME TypeOK, HoldInv, [Next]_vars PROVE Healthy' = Healthy
  OBVIOUS
<1>1. ASSUME NEW w \in Workers, Claim(w) PROVE Healthy' = Healthy
  BY <1>1 DEF Claim, TypeOK, Healthy
<1>2. ASSUME NEW w \in Workers, Release(w) PROVE Healthy' = Healthy
  <2>1. held[w] \in Containers /\ state[held[w]] = "busy"
    BY <1>2 DEF Release, Goto, TypeOK, HoldInv, ContainersExclusive, Holding
  <2>. QED BY <1>2, <2>1 DEF Release, TypeOK, Healthy
<1>3. ASSUME NEW w \in Workers, Work(w), ~Claim(w), ~Release(w) PROVE UNCHANGED state
  BY <1>3 DEF Work, Pick, Retry, GiveUp, Copy, CopyFails, CompileCode, CompileError,
              CompileFails, PassTest, FailTest, RunFails, PassAll, dockerVars
<1>4. ASSUME NEW j \in Jobs, Submit(j) \/ Refuse(j) \/ Return(j) PROVE UNCHANGED state
  BY <1>4 DEF Submit, Refuse, Return, dockerVars
<1>5. UNCHANGED vars => UNCHANGED state
  BY DEF vars, dockerVars
<1>. QED BY <1>1, <1>2, <1>3, <1>4, <1>5 DEF Next, Healthy

\* The step of a worker that goes on with its job, or sends a result for it.
LEMMA WorkInHand ==
  ASSUME TypeOK, NEW w \in Workers, step[w] \in Judging,
         NEW to \in Steps, step' = [step EXCEPT ![w] = to],
         to \in Judging \/ result'[task[w]] # None,
         UNCHANGED <<jobs, task>>,
         \A j \in Jobs : result[j] # None => result'[j] # None
  PROVE  \A j \in Jobs : InHand(j) => InHand(j)'
<1>. SUFFICES ASSUME NEW j \in Jobs, InHand(j) PROVE InHand(j)'
  OBVIOUS
<1>1. CASE \E v \in Workers : task[v] = j /\ step[v] \in Judging
  <2>1. PICK v \in Workers : task[v] = j /\ step[v] \in Judging
    BY <1>1
  <2>2. CASE v = w /\ to \notin Judging
    BY <2>1, <2>2 DEF InHand
  <2>3. CASE v # w \/ to \in Judging
    <3>1. step'[v] \in Judging
      BY <2>1, <2>3 DEF TypeOK
    <3>. QED BY <2>1, <3>1 DEF InHand
  <2>. QED BY <2>2, <2>3
<1>. QED BY <1>1 DEF InHand

LEMMA NextInHand ==
  TypeOK /\ HoldInv /\ JobInv /\ NoCallLost /\ [Next]_vars => NoCallLost'
<1>. SUFFICES ASSUME TypeOK, HoldInv, JobInv, [Next]_vars, Equipped,
                     \A j \in Jobs : call[j] = "waiting" => InHand(j),
                     NEW j \in Jobs, call'[j] = "waiting"
              PROVE  InHand(j)'
  BY HealthyKept DEF NoCallLost, Equipped
<1>1. ASSUME UNCHANGED call, \A i \in Jobs : InHand(i) => InHand(i)'
      PROVE  InHand(j)'
  BY <1>1
<1>2. ASSUME NEW i \in Jobs, Submit(i) PROVE InHand(j)'
  <2>1. /\ Len(jobs') = Len(jobs) + 1 /\ Len(jobs) \in Nat
        /\ \A k \in 1..Len(jobs) : jobs'[k] = jobs[k] /\ k \in 1..Len(jobs')
        /\ jobs'[Len(jobs) + 1] = i
    BY <1>2, AppendType DEF Submit, TypeOK
  <2>2. UNCHANGED <<result, step, task>> /\ (j # i => call[j] = "waiting")
    BY <1>2 DEF Submit, workVars, TypeOK
  <2>3. CASE j = i
    <3>1. Len(jobs) + 1 \in 1..Len(jobs')
      BY <2>1
    <3>. QED BY <2>1, <2>3, <3>1 DEF InHand
  <2>4. CASE j # i
    BY <2>1, <2>2, <2>4 DEF InHand
  <2>. QED BY <2>3, <2>4
<1>3. ASSUME NEW i \in Jobs, Refuse(i) PROVE InHand(j)'
  <2>1. UNCHANGED <<jobs, result, step, task>> /\ call[j] = "waiting"
    BY <1>3 DEF Refuse, workVars, TypeOK
  <2>. QED BY <2>1 DEF InHand
<1>4. ASSUME NEW i \in Jobs, Return(i) PROVE InHand(j)'
  <2>1. /\ UNCHANGED <<jobs, step, task>> /\ j # i /\ call[j] = "waiting"
        /\ result'[j] = result[j]
    BY <1>4 DEF Return, workVars, TypeOK
  <2>. QED BY <2>1 DEF InHand
<1>5. ASSUME NEW w \in Workers, Pick(w) PROVE InHand(j)'
  <2>1. /\ step[w] = "wait" /\ step' = [step EXCEPT ![w] = "claim"]
        /\ jobs # <<>> /\ jobs' = Tail(jobs) /\ task' = [task EXCEPT ![w] = Head(jobs)]
        /\ UNCHANGED <<call, result>>
    BY <1>5 DEF Pick, Goto
  <2>2. /\ Head(jobs) = jobs[1] /\ Len(jobs') = Len(jobs) - 1 /\ Len(jobs) \in Nat
        /\ \A i \in 1..Len(jobs') : jobs'[i] = jobs[i + 1]
    BY <2>1, TailType DEF TypeOK
  <2>3. /\ task'[w] = Head(jobs) /\ step'[w] = "claim"
        /\ \A v \in Workers \ {w} : task'[v] = task[v] /\ step'[v] = step[v]
    BY <2>1 DEF TypeOK
  <2>4. ASSUME NEW i \in 1..Len(jobs), jobs[i] = j PROVE InHand(j)'
    <3>1. CASE i = 1
      BY <2>2, <2>3, <2>4, <3>1 DEF InHand, Judging
    <3>2. CASE i # 1
      <4>1. i - 1 \in 1..Len(jobs') /\ (i - 1) + 1 = i
        BY <2>2, <3>2
      <4>. QED BY <2>2, <2>4, <4>1 DEF InHand
    <3>. QED BY <3>1, <3>2
  <2>5. ASSUME NEW v \in Workers, task[v] = j, step[v] \in Judging PROVE InHand(j)'
    <3>1. v # w
      BY <2>1, <2>5 DEF Judging
    <3>. QED BY <2>3, <2>5, <3>1 DEF InHand
  <2>. QED BY <2>1, <2>4, <2>5 DEF InHand
<1>6. ASSUME NEW w \in Workers, GiveUp(w) PROVE FALSE
  BY <1>6, HoldersFewer DEF ContainerAvailable, GiveUp, Goto
<1>7. ASSUME NEW w \in Workers, Claim(w) \/ Copy(w) \/ CompileCode(w) PROVE InHand(j)'
  <2>1. PICK to \in {"copy", "compile", "run"} : step' = [step EXCEPT ![w] = to]
    BY <1>7 DEF Claim, Copy, CompileCode, Goto
  <2>2. step[w] \in Judging /\ UNCHANGED <<jobs, call, result, task>>
    BY <1>7 DEF Claim, Copy, CompileCode, Goto, Judging, callVars
  <2>3. to \in Judging /\ to \in Steps
    BY DEF Judging, Steps, Holding
  <2>. QED BY <1>1, <2>1, <2>2, <2>3, WorkInHand
<1>8. ASSUME NEW w \in Workers,
             CopyFails(w) \/ CompileError(w) \/ CompileFails(w)
               \/ FailTest(w) \/ RunFails(w) \/ PassAll(w)
      PROVE  InHand(j)'
  <2>1. /\ step[w] \in Judging /\ step' = [step EXCEPT ![w] = "release"]
        /\ UNCHANGED <<jobs, call, task>>
    BY <1>8 DEF CopyFails, CompileError, CompileFails, FailTest, RunFails, PassAll,
                Goto, Judging, callVars
  <2>2. \E r \in Results : SendResult(w, r)
    BY <1>8 DEF CopyFails, CompileError, CompileFails, FailTest, RunFails, PassAll, Results
  <2>3. PICK r \in Results : result' = [result EXCEPT ![task[w]] = r]
    BY <2>2 DEF SendResult
  <2>4. task[w] \in Jobs /\ r # None
    BY <2>1, PoolAssumption DEF TypeOK, JobInv, Judging, Results
  <2>5. result'[task[w]] # None /\ \A i \in Jobs : result[i] # None => result'[i] # None
    BY <2>3, <2>4 DEF TypeOK
  <2>6. "release" \in Steps
    BY DEF Steps, Holding
  <2>. QED BY <1>1, <2>1, <2>5, <2>6, WorkInHand
<1>9. ASSUME NEW w \in Workers, Retry(w) \/ PassTest(w) PROVE InHand(j)'
  <2>1. UNCHANGED <<jobs, call, result, step, task>>
    BY <1>9 DEF Retry, PassTest, callVars
  <2>. QED BY <1>1, <2>1 DEF InHand
<1>10. ASSUME NEW w \in Workers, Release(w) PROVE InHand(j)'
  <2>1. /\ step[w] = "release" /\ step' = [step EXCEPT ![w] = "wait"]
        /\ task' = [task EXCEPT ![w] = None] /\ UNCHANGED <<jobs, call, result>>
    BY <1>10 DEF Release, Goto, callVars
  <2>2. ASSUME NEW v \in Workers, step[v] \in Judging
        PROVE  task'[v] = task[v] /\ step'[v] = step[v]
    BY <2>1, <2>2 DEF TypeOK, Judging
  <2>3. \A i \in Jobs : InHand(i) => InHand(i)'
    BY <2>1, <2>2 DEF InHand
  <2>. QED BY <1>1, <2>1, <2>3
<1>11. CASE UNCHANGED vars
  <2>1. UNCHANGED <<jobs, call, result, step, task>>
    BY <1>11 DEF vars, callVars, workVars
  <2>. QED BY <1>1, <2>1 DEF InHand
<1>. QED
  BY <1>2, <1>3, <1>4, <1>5, <1>6, <1>7, <1>8, <1>9, <1>10, <1>11 DEF Next, Work

\* ExecuteJob and worker: with as many running containers as workers, the job of every
\* call that waits is in the channel, with a worker that has still to answer it, or
\* answered, whatever fails in Docker.
THEOREM NoCallLostCorrect == Spec => []NoCallLost
<1>1. Init => NoCallLost
  BY DEF Init, NoCallLost
<1>. QED BY <1>1, TypeCorrect, HoldCorrect, JobsCorrect, NextInHand, PTL DEF Spec

----------------------------------------------------------------------------
(* Verdicts. *)

\* The first test case that is not passed decides.
LEMMA FirstFailure ==
  ASSUME NEW j \in Jobs, Compile[j] # "broken",
         NEW k \in 1..Len(Tests[j]), Tests[j][k] # "pass",
         \A i \in 1..(k - 1) : Tests[j][i] = "pass"
  PROVE  Verdict(j) = IF Tests[j][k] = "crash" THEN "runtime" ELSE "failed"
<1>1. Tests[j] \in Seq({"pass", "crash", "wrong"}) /\ Len(Tests[j]) \in Nat
  BY PoolAssumption
<1>2. k \in Failing(j) /\ Failing(j) \subseteq Nat
  BY <1>1 DEF Failing
<1>3. \A i \in Failing(j) : k <= i
  BY <1>1, <1>2 DEF Failing
<1>4. \A i \in Failing(j) : (\A n \in Failing(j) : i <= n) => i = k
  BY <1>2, <1>3
<1>5. FirstFailing(j) = k
  BY <1>2, <1>3, <1>4 DEF FirstFailing
<1>. QED BY <1>2, <1>5 DEF Verdict

LEMMA NoFailure ==
  ASSUME NEW j \in Jobs, Compile[j] # "broken",
         \A i \in 1..Len(Tests[j]) : Tests[j][i] = "pass"
  PROVE  Verdict(j) = "passed"
BY DEF Verdict, Failing

\* A result stays deserved when there are more failures, and a failure excuses an
\* error.
LEMMA DeservedStable ==
  ASSUME faults \in Nat, faults' = faults \/ Fail
  PROVE  \A j, r : Deserved(j, r, faults) => Deserved(j, r, faults')
<1>1. faults > 0 => faults' > 0
  BY DEF Fail
<1>. QED BY <1>1 DEF Deserved

LEMMA Excuse ==
  ASSUME faults \in Nat, Fail
  PROVE  \A j, r : r \in Mishaps => Deserved(j, r, faults')
<1>1. faults' > 0
  BY DEF Fail
<1>. QED BY <1>1 DEF Deserved

\* A worker that does nothing keeps its code, if its container does.
LEMMA OwnCodeKept ==
  ASSUME NEW w \in Workers, RunsOwnCode(w),
         step'[w] = step[w], task'[w] = task[w], held'[w] = held[w], passed'[w] = passed[w],
         step[w] \in {"compile", "run"} => image'[held[w]] = image[held[w]]
  PROVE  RunsOwnCode(w)'
BY DEF RunsOwnCode

\* The steps that send no result: it is enough that the worker that moves keeps to
\* its own code.
LEMMA NoResult ==
  ASSUME TypeOK, VerdictInv, NEW w \in Workers, RunsOwnCode(w)',
         NEW to, step' = [step EXCEPT ![w] = to],
         \A v \in Workers \ {w} :
           task'[v] = task[v] /\ held'[v] = held[v] /\ passed'[v] = passed[v],
         UNCHANGED <<image, reply, result, faults>>
  PROVE  VerdictInv'
<1>1. \A v \in Workers \ {w} : step'[v] = step[v]
  BY DEF TypeOK
<1>2. \A v \in Workers \ {w} : RunsOwnCode(v)'
  BY <1>1, OwnCodeKept DEF VerdictInv
<1>3. \A j \in Jobs : reply'[j] # None => Deserved(j, reply'[j], faults')
  BY DeservedStable DEF TypeOK, VerdictInv, VerdictOfOwnCode
<1>4. \A j \in Jobs : result'[j] # None => Deserved(j, result'[j], faults')
  BY DeservedStable DEF TypeOK, VerdictInv
<1>. QED BY <1>2, <1>3, <1>4 DEF VerdictInv, VerdictOfOwnCode

\* The steps that send a result: it is enough that the job deserves it.
LEMMA DeservedResult ==
  ASSUME TypeOK, VerdictInv, NEW w \in Workers,
         step' = [step EXCEPT ![w] = "release"],
         NEW r, SendResult(w, r), Deserved(task[w], r, faults'),
         faults' = faults \/ Fail,
         UNCHANGED <<image, reply, task, held, passed>>
  PROVE  VerdictInv'
<1>1. \A v \in Workers : v # w => step'[v] = step[v]
  BY DEF TypeOK
<1>2. step'[w] = "release"
  BY DEF TypeOK
<1>3. \A v \in Workers : RunsOwnCode(v)'
  <2>. SUFFICES ASSUME NEW v \in Workers PROVE RunsOwnCode(v)'
    OBVIOUS
  <2>1. CASE v = w
    BY <1>2, <2>1 DEF RunsOwnCode
  <2>2. CASE v # w
    BY <1>1, <2>2, OwnCodeKept DEF VerdictInv
  <2>. QED BY <2>1, <2>2
<1>4. \A j \in Jobs : reply'[j] # None => Deserved(j, reply'[j], faults')
  BY DeservedStable DEF TypeOK, VerdictInv, VerdictOfOwnCode
<1>5. ASSUME NEW j \in Jobs, result'[j] # None PROVE Deserved(j, result'[j], faults')
  <2>1. CASE j = task[w]
    BY <2>1 DEF TypeOK, SendResult
  <2>2. CASE j # task[w]
    <3>1. result'[j] = result[j]
      BY <2>2 DEF TypeOK, SendResult
    <3>. QED BY <1>5, <3>1, DeservedStable DEF TypeOK, VerdictInv
  <2>. QED BY <2>1, <2>2
<1>. QED BY <1>3, <1>4, <1>5 DEF VerdictInv, VerdictOfOwnCode

LEMMA InitVerdicts == Init => VerdictInv
BY DEF Init, VerdictInv, VerdictOfOwnCode, RunsOwnCode

LEMMA NextVerdicts == TypeOK /\ HoldInv /\ JobInv /\ VerdictInv /\ [Next]_vars => VerdictInv'
<1>. SUFFICES ASSUME TypeOK, HoldInv, JobInv, VerdictInv, [Next]_vars PROVE VerdictInv'
  OBVIOUS
<1>0. ASSUME NEW w \in Workers, step[w] \in Judging
      PROVE  /\ task[w] \in Jobs /\ RunsOwnCode(w)
             /\ Compile[task[w]] \in {"interpreted", "good", "broken"}
             /\ Tests[task[w]] \in Seq({"pass", "crash", "wrong"})
             /\ Len(Tests[task[w]]) \in Nat
             /\ passed[w] \in Nat
  <2>1. task[w] \in Jobs
    BY <1>0 DEF TypeOK, JobInv, Judging
  <2>. QED BY <2>1, PoolAssumption DEF TypeOK, VerdictInv
<1>1. ASSUME NEW j \in Jobs, Submit(j) \/ Refuse(j) PROVE VerdictInv'
  <2>1. UNCHANGED <<reply, result, dockerVars, workVars, faults>>
    BY <1>1 DEF Submit, Refuse
  <2>2. \A w \in Workers : RunsOwnCode(w)'
    BY <2>1, OwnCodeKept DEF VerdictInv, dockerVars, workVars
  <2>. QED BY <2>1, <2>2 DEF VerdictInv, VerdictOfOwnCode
<1>2. ASSUME NEW j \in Jobs, Return(j) PROVE VerdictInv'
  <2>1. /\ result[j] # None
        /\ reply' = [reply EXCEPT ![j] = result[j]]
        /\ result' = [result EXCEPT ![j] = None]
        /\ UNCHANGED <<dockerVars, workVars, faults>>
    BY <1>2 DEF Return
  <2>2. \A w \in Workers : RunsOwnCode(w)'
    BY <2>1, OwnCodeKept DEF VerdictInv, dockerVars, workVars
  <2>3. \A k \in Jobs : reply'[k] # None => Deserved(k, reply'[k], faults)
    BY <2>1 DEF TypeOK, VerdictInv, VerdictOfOwnCode
  <2>4. \A k \in Jobs : result'[k] # None => Deserved(k, result'[k], faults)
    BY <2>1 DEF TypeOK, VerdictInv
  <2>. QED BY <2>1, <2>2, <2>3, <2>4 DEF VerdictInv, VerdictOfOwnCode
<1>3. ASSUME NEW w \in Workers, Pick(w) \/ Claim(w) PROVE VerdictInv'
  <2>1. PICK to \in {"claim", "copy"} : step' = [step EXCEPT ![w] = to]
    BY <1>3 DEF Pick, Claim, Goto
  <2>2. step[w] \notin {"run", "release"} /\ UNCHANGED <<image, reply, result, faults, passed>>
    BY <1>3 DEF Pick, Claim, Goto, callVars, dockerVars
  <2>3. \A v \in Workers \ {w} : task'[v] = task[v] /\ held'[v] = held[v]
    BY <1>3 DEF Pick, Claim, TypeOK
  <2>4. RunsOwnCode(w)'
    BY <2>1, <2>2 DEF TypeOK, VerdictInv, RunsOwnCode
  <2>. QED BY <2>1, <2>2, <2>3, <2>4, NoResult
<1>4. ASSUME NEW w \in Workers, Retry(w) PROVE VerdictInv'
  <2>1. UNCHANGED <<reply, result, image, step, task, held, passed, faults>>
    BY <1>4 DEF Retry, callVars, dockerVars
  <2>2. \A v \in Workers : RunsOwnCode(v)'
    BY <2>1, OwnCodeKept DEF VerdictInv
  <2>. QED BY <2>1, <2>2 DEF VerdictInv, VerdictOfOwnCode
<1>5. ASSUME NEW w \in Workers, GiveUp(w) \/ Release(w) PROVE VerdictInv'
  <2>1. step' = [step EXCEPT ![w] = "wait"] /\ UNCHANGED <<image, reply, result, faults>>
    BY <1>5 DEF GiveUp, Release, Goto, callVars, dockerVars
  <2>2. passed'[w] = 0
    <3>1. CASE GiveUp(w)
      BY <3>1 DEF GiveUp, Goto, VerdictInv, RunsOwnCode
    <3>2. CASE Release(w)
      BY <3>2 DEF Release, TypeOK
    <3>. QED BY <1>5, <3>1, <3>2
  <2>3. \A v \in Workers \ {w} :
          task'[v] = task[v] /\ held'[v] = held[v] /\ passed'[v] = passed[v]
    BY <1>5 DEF GiveUp, Release, TypeOK
  <2>4. step'[w] = "wait"
    BY <2>1 DEF TypeOK
  <2>5. RunsOwnCode(w)'
    BY <2>2, <2>4 DEF RunsOwnCode
  <2>. QED BY <2>1, <2>3, <2>5, NoResult
<1>6. ASSUME NEW w \in Workers, Copy(w) PROVE VerdictInv'
  <2>1. /\ step[w] = "copy"
        /\ \/ step' = [step EXCEPT ![w] = "run"] /\ Compile[task[w]] = "interpreted"
           \/ step' = [step EXCEPT ![w] = "compile"] /\ Compile[task[w]] # "interpreted"
        /\ image' = [image EXCEPT ![held[w]] = task[w]]
        /\ UNCHANGED <<reply, result, task, held, passed, faults>>
    BY <1>6 DEF Copy, Goto, callVars
  <2>2. task[w] \in Jobs /\ Len(Tests[task[w]]) \in Nat /\ RunsOwnCode(w)
    BY <1>0, <2>1 DEF Judging
  <2>3. held[w] \in Containers
    BY <2>1 DEF TypeOK, HoldInv, Holding
  <2>4. image'[held[w]] = task[w] /\ passed[w] = 0
    BY <2>1, <2>2, <2>3 DEF TypeOK, RunsOwnCode
  <2>5. RunsOwnCode(w)'
    BY <2>1, <2>2, <2>4 DEF TypeOK, RunsOwnCode
  <2>6. \A v \in Workers \ {w} : image'[held[v]] = image[held[v]] /\ step'[v] = step[v]
    BY <2>1, <2>3, PoolAssumption DEF TypeOK, HoldInv, ContainersExclusive
  <2>7. \A v \in Workers \ {w} : RunsOwnCode(v)'
    BY <2>1, <2>6, OwnCodeKept DEF VerdictInv
  <2>. QED BY <2>1, <2>5, <2>7 DEF VerdictInv, VerdictOfOwnCode
<1>7. ASSUME NEW w \in Workers, CompileCode(w) PROVE VerdictInv'
  <2>1. /\ step[w] = "compile" /\ step' = [step EXCEPT ![w] = "run"]
        /\ Compile[image[held[w]]] = "good"
        /\ UNCHANGED <<image, reply, result, task, held, passed, faults>>
    BY <1>7 DEF CompileCode, Goto, callVars, dockerVars
  <2>2. /\ image[held[w]] = task[w] /\ passed[w] = 0
        /\ Len(Tests[task[w]]) \in Nat
    BY <1>0, <2>1 DEF Judging, RunsOwnCode
  <2>3. RunsOwnCode(w)'
    BY <2>1, <2>2 DEF TypeOK, RunsOwnCode
  <2>. QED BY <2>1, <2>3, NoResult
<1>8. ASSUME NEW w \in Workers, CompileError(w) PROVE VerdictInv'
  <2>1. /\ step[w] = "compile" /\ step' = [step EXCEPT ![w] = "release"]
        /\ Compile[image[held[w]]] # "good" /\ SendResult(w, "compile")
        /\ UNCHANGED <<image, reply, task, held, passed, faults>>
    BY <1>8 DEF CompileError, Goto, callVars, dockerVars
  <2>2. Compile[task[w]] = "broken"
    BY <1>0, <2>1 DEF Judging, RunsOwnCode
  <2>3. Deserved(task[w], "compile", faults')
    BY <2>2 DEF Deserved, Verdict
  <2>. QED BY <2>1, <2>3, DeservedResult
<1>9. ASSUME NEW w \in Workers, CopyFails(w) \/ CompileFails(w) \/ RunFails(w)
      PROVE  VerdictInv'
  <2>1. /\ Fail /\ step' = [step EXCEPT ![w] = "release"]
        /\ UNCHANGED <<image, reply, task, held, passed>>
    BY <1>9 DEF CopyFails, CompileFails, RunFails, Goto, callVars, dockerVars
  <2>2. PICK r \in Mishaps : SendResult(w, r)
    BY <1>9 DEF CopyFails, CompileFails, RunFails, Mishaps
  <2>3. Deserved(task[w], r, faults')
    BY <2>1, Excuse DEF TypeOK
  <2>. QED BY <2>1, <2>2, <2>3, DeservedResult
<1>10. ASSUME NEW w \in Workers, PassTest(w) PROVE VerdictInv'
  <2>1. /\ step[w] = "run" /\ passed[w] < Len(Tests[task[w]]) /\ Outcome(w) = "pass"
        /\ passed' = [passed EXCEPT ![w] = @ + 1]
        /\ UNCHANGED <<reply, result, image, step, task, held, faults>>
    BY <1>10 DEF PassTest, callVars, dockerVars
  <2>2. RunsOwnCode(w) /\ passed[w] \in Nat /\ Len(Tests[task[w]]) \in Nat
    BY <1>0, <2>1 DEF Judging
  <2>3. Tests[task[w]][passed[w] + 1] = "pass"
    BY <2>1, <2>2 DEF Outcome, RunsOwnCode
  <2>4. passed'[w] = passed[w] + 1 /\ \A v \in Workers \ {w} : passed'[v] = passed[v]
    BY <2>1 DEF TypeOK
  <2>5. passed'[w] <= Len(Tests[task[w]]) /\ \A i \in 1..passed'[w] : i \in 1..passed[w] \/ i = passed[w] + 1
    BY <2>1, <2>2, <2>4
  <2>6. RunsOwnCode(w)'
    BY <2>1, <2>2, <2>3, <2>5 DEF RunsOwnCode
  <2>7. \A v \in Workers \ {w} : RunsOwnCode(v)'
    BY <2>1, <2>4, OwnCodeKept DEF VerdictInv
  <2>. QED BY <2>1, <2>6, <2>7 DEF VerdictInv, VerdictOfOwnCode
<1>11. ASSUME NEW w \in Workers, FailTest(w) PROVE VerdictInv'
  <2>. DEFINE r == IF Outcome(w) = "crash" THEN "runtime" ELSE "failed"
  <2>1. /\ step[w] = "run" /\ step' = [step EXCEPT ![w] = "release"]
        /\ passed[w] < Len(Tests[task[w]]) /\ Outcome(w) # "pass"
        /\ SendResult(w, r)
        /\ UNCHANGED <<image, reply, task, held, passed, faults>>
    BY <1>11 DEF FailTest, Goto, callVars, dockerVars
  <2>2. /\ RunsOwnCode(w) /\ passed[w] \in Nat
        /\ task[w] \in Jobs /\ Len(Tests[task[w]]) \in Nat
    BY <1>0, <2>1 DEF Judging
  <2>3. Outcome(w) = Tests[task[w]][passed[w] + 1]
    BY <2>1, <2>2 DEF Outcome, RunsOwnCode
  <2>4. passed[w] + 1 \in 1..Len(Tests[task[w]]) /\ (passed[w] + 1) - 1 = passed[w]
    BY <2>1, <2>2
  <2>5. r = Verdict(task[w])
    BY <2>1, <2>2, <2>3, <2>4, FirstFailure DEF RunsOwnCode
  <2>6. Deserved(task[w], r, faults')
    BY <2>5 DEF Deserved
  <2>. HIDE DEF r
  <2>. QED BY <2>1, <2>6, DeservedResult
<1>12. ASSUME NEW w \in Workers, PassAll(w) PROVE VerdictInv'
  <2>1. /\ step[w] = "run" /\ step' = [step EXCEPT ![w] = "release"]
        /\ passed[w] = Len(Tests[task[w]]) /\ SendResult(w, "passed")
        /\ UNCHANGED <<image, reply, task, held, passed, faults>>
    BY <1>12 DEF PassAll, Goto, callVars, dockerVars
  <2>2. task[w] \in Jobs /\ RunsOwnCode(w)
    BY <1>0, <2>1 DEF Judging
  <2>3. Verdict(task[w]) = "passed"
    BY <2>1, <2>2, NoFailure DEF RunsOwnCode
  <2>4. Deserved(task[w], "passed", faults')
    BY <2>3 DEF Deserved
  <2>. QED BY <2>1, <2>4, DeservedResult
<1>13. CASE UNCHANGED vars
  <2>1. UNCHANGED <<reply, result, dockerVars, workVars, faults>>
    BY <1>13 DEF vars, callVars
  <2>2. \A w \in Workers : RunsOwnCode(w)'
    BY <2>1, OwnCodeKept DEF VerdictInv, dockerVars, workVars
  <2>. QED BY <2>1, <2>2 DEF VerdictInv, VerdictOfOwnCode
<1>. QED
  BY <1>1, <1>2, <1>3, <1>4, <1>5, <1>6, <1>7, <1>8, <1>9, <1>10, <1>11, <1>12, <1>13
     DEF Next, Work

LEMMA VerdictsCorrect == Spec => []VerdictInv
BY TypeCorrect, HoldCorrect, JobsCorrect, InitVerdicts, NextVerdicts, PTL DEF Spec

\* Whatever else runs, a call of ExecuteJob gets the result of its own code, or an
\* error when Docker or the clock failed.
THEOREM VerdictCorrect == Spec => []VerdictOfOwnCode
<1>1. VerdictInv => VerdictOfOwnCode
  BY DEF VerdictInv
<1>. QED BY <1>1, VerdictsCorrect, PTL

----------------------------------------------------------------------------
(* The promise of ExecuteJob. *)

LEMMA InitService == Init => Service!Init
BY DEF Init, Service!Init

LEMMA NextService ==
  TypeOK /\ VerdictInv /\ [Next]_vars => [Service!Next]_(Service!vars)
<1>. SUFFICES ASSUME TypeOK, VerdictInv, [Next]_vars, ~UNCHANGED <<call, reply>>
              PROVE  Service!Next
  BY DEF Service!vars
<1>1. ASSUME NEW j \in Jobs, Submit(j) PROVE Service!Accept(j)
  BY <1>1 DEF Submit, Service!Accept
<1>2. ASSUME NEW j \in Jobs, Refuse(j) PROVE Service!Refuse(j)
  BY <1>2 DEF Refuse, Service!Refuse
<1>3. ASSUME NEW j \in Jobs, Return(j) PROVE Service!Answer(j)
  <2>1. Deserved(j, result[j], faults)
    BY <1>3 DEF Return, VerdictInv
  <2>2. result[j] \in {Verdict(j)} \cup Mishaps
    BY <2>1 DEF Deserved
  <2>. QED BY <1>3, <2>2 DEF Return, Service!Answer
<1>4. ASSUME NEW w \in Workers, Work(w) PROVE UNCHANGED <<call, reply>>
  BY <1>4 DEF Work, Pick, Claim, Retry, GiveUp, Copy, CopyFails, CompileCode, CompileError,
              CompileFails, PassTest, FailTest, RunFails, PassAll, Release, callVars
<1>5. UNCHANGED vars => UNCHANGED <<call, reply>>
  BY DEF vars, callVars
<1>. QED
  BY <1>1, <1>2, <1>3, <1>4, <1>5 DEF Next, Service!Next

\* The pool implements JobService: a call is accepted or refused once, and an
\* accepted one is answered at most once, with a result its code can have.
THEOREM ServiceImplemented == Spec => Service!Safety
BY TypeCorrect, VerdictsCorrect, InitService, NextService, PTL DEF Spec, Service!Safety
=============================================================================
