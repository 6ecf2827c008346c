----------------------------- MODULE WorkerPool -----------------------------
(***************************************************************************)
(* The pool of workers that compiles and runs submitted code               *)
(* (internal/executor/worker_pool.go) and the containers it runs the code  *)
(* in (internal/executor/container_manager.go).                            *)
(*                                                                         *)
(* A call of ExecuteJob puts a job on the bounded channel `jobs`, or is    *)
(* refused, and waits on the job's own channel for the result.  A worker   *)
(* takes a job, claims a container, copies the code into it, compiles it,  *)
(* runs it on one test case after the other and gives the container back.  *)
(* step[w] names what worker w does next.                                  *)
(***************************************************************************)
EXTENDS Integers, Sequences, FiniteSets

CONSTANTS
  Jobs,          \* calls of ExecuteJob, each with its code and its test cases
  Compile,       \* Compile[j]: interpreted, good or broken
  Tests,         \* Tests[j]: what the code of j does on each of its test cases
  Workers,       \* goroutines running worker (5 in main)
  Containers,    \* containers registered by InitializePool: as many as workers,
                 \* unless a Docker call of balanceWorker failed
  Outages,       \* which of them may not be running then; those are never used
  MaxJobCount,   \* capacity of the jobs channel (3 in main)
  MaxRetries,    \* lookups of an idle container (10 in the code)
  MaxFaults,     \* bound: Docker calls that fail or exceed the 15 seconds of a job
  None           \* no job, no container, no result

ASSUME PoolAssumption ==
  /\ Compile \in [Jobs -> {"interpreted", "good", "broken"}]
  /\ Tests \in [Jobs -> Seq({"pass", "crash", "wrong"})]
  /\ IsFiniteSet(Workers) /\ IsFiniteSet(Containers)
  /\ Outages \subseteq SUBSET Containers
  /\ MaxJobCount \in Nat \ {0}
  /\ MaxRetries \in Nat \ {0}
  /\ MaxFaults \in Nat
  /\ None \notin Jobs \cup Containers
  /\ None \notin {"passed", "compile", "runtime", "failed", "setup"}

VARIABLES
  jobs,      \* WorkerPool.jobs
  call,      \* call[j]: new, waiting, refused or returned
  result,    \* result[j]: the content of the channel Job.Result
  reply,     \* reply[j]: what the call of ExecuteJob returned
  state,     \* state[c]: ContainerInfo.State
  image,     \* image[c]: the job whose code was last copied into c
  step,      \* step[w]: what worker w does next
  task,      \* task[w]: the job worker w has taken
  held,      \* held[w]: the container worker w has claimed
  tries,     \* tries[w]: lookups that have failed for this job
  passed,    \* passed[w]: test cases the code has passed
  faults     \* failures so far

callVars   == <<jobs, call, reply>>
dockerVars == <<state, image>>
workVars   == <<step, task, held, tries, passed>>
vars == <<callVars, result, dockerVars, workVars, faults>>

Results == {"passed", "compile", "runtime", "failed", "setup"}
Holding == {"copy", "compile", "run", "release"}
Steps   == {"wait", "claim"} \cup Holding

Init ==
  /\ jobs = <<>>
  /\ call = [j \in Jobs |-> "new"]
  /\ result = [j \in Jobs |-> None]
  /\ reply = [j \in Jobs |-> None]
  /\ \E stopped \in Outages :
       state = [c \in Containers |-> IF c \in stopped THEN "error" ELSE "idle"]
  /\ image = [c \in Containers |-> None]
  /\ step = [w \in Workers |-> "wait"]
  /\ task = [w \in Workers |-> None]
  /\ held = [w \in Workers |-> None]
  /\ tries = [w \in Workers |-> 0]
  /\ passed = [w \in Workers |-> 0]
  /\ faults = 0

Goto(w, from, to) == step[w] = from /\ step' = [step EXCEPT ![w] = to]
Fail == faults < MaxFaults /\ faults' = faults + 1

\* job.Result <- r, on a channel of capacity one.
SendResult(w, r) ==
  /\ result[task[w]] = None
  /\ result' = [result EXCEPT ![task[w]] = r]

(***************************************************************************)
(* ExecuteJob.                                                             *)
(***************************************************************************)
\* Mutant: the channel holds one job more.
SubmitOneMore(j) ==
  /\ call[j] = "new"
  /\ Len(jobs) <= MaxJobCount
  /\ jobs' = Append(jobs, j)
  /\ call' = [call EXCEPT ![j] = "waiting"]
  /\ UNCHANGED <<reply, result, dockerVars, workVars, faults>>

Submit(j) ==
  /\ call[j] = "new"
  /\ Len(jobs) < MaxJobCount
  /\ jobs' = Append(jobs, j)
  /\ call' = [call EXCEPT ![j] = "waiting"]
  /\ UNCHANGED <<reply, result, dockerVars, workVars, faults>>

\* The zero Result: no error and no success.
Refuse(j) ==
  /\ call[j] = "new"
  /\ Len(jobs) >= MaxJobCount
  /\ call' = [call EXCEPT ![j] = "refused"]
  /\ UNCHANGED <<jobs, reply, result, dockerVars, workVars, faults>>

Return(j) ==
  /\ call[j] = "waiting"
  /\ result[j] # None
  /\ reply' = [reply EXCEPT ![j] = result[j]]
  /\ result' = [result EXCEPT ![j] = None]
  /\ call' = [call EXCEPT ![j] = "returned"]
  /\ UNCHANGED <<jobs, dockerVars, workVars, faults>>

(***************************************************************************)
(* worker and executeJob.                                                  *)
(***************************************************************************)
Pick(w) ==
  /\ Goto(w, "wait", "claim")
  /\ jobs # <<>>
  /\ task' = [task EXCEPT ![w] = Head(jobs)]
  /\ jobs' = Tail(jobs)
  /\ UNCHANGED <<call, reply, result, dockerVars, held, tries, passed, faults>>

\* Mutant: the lookup does not mark the container it hands out.
ClaimUnmarked(w) ==
  /\ Goto(w, "claim", "copy")
  /\ \E c \in Containers : state[c] = "idle" /\ held' = [held EXCEPT ![w] = c]
  /\ tries' = [tries EXCEPT ![w] = 0]
  /\ UNCHANGED <<callVars, result, dockerVars, task, passed, faults>>

\* GetAvailableContainer: lookup and claim happen under one lock.
Claim(w) ==
  /\ Goto(w, "claim", "copy")
  /\ \E c \in Containers :
       /\ state[c] = "idle"
       /\ state' = [state EXCEPT ![c] = "busy"]
       /\ held' = [held EXCEPT ![w] = c]
  /\ tries' = [tries EXCEPT ![w] = 0]
  /\ UNCHANGED <<callVars, result, image, task, passed, faults>>

NoneIdle == \A c \in Containers : state[c] # "idle"

Retry(w) ==
  /\ step[w] = "claim"
  /\ NoneIdle
  /\ tries[w] + 1 < MaxRetries
  /\ tries' = [tries EXCEPT ![w] = @ + 1]
  /\ UNCHANGED <<callVars, result, dockerVars, step, task, held, passed, faults>>

\* The last lookup returns no container and no error; SetContainerState does not
\* know the container "" and executeJob returns without sending a result.
GiveUp(w) ==
  /\ Goto(w, "claim", "wait")
  /\ NoneIdle
  /\ tries[w] + 1 >= MaxRetries
  /\ tries' = [tries EXCEPT ![w] = 0]
  /\ task' = [task EXCEPT ![w] = None]
  /\ UNCHANGED <<callVars, result, dockerVars, held, passed, faults>>

Copy(w) ==
  /\ \/ Goto(w, "copy", "run") /\ Compile[task[w]] = "interpreted"
     \/ Goto(w, "copy", "compile") /\ Compile[task[w]] # "interpreted"
  /\ image' = [image EXCEPT ![held[w]] = task[w]]
  /\ UNCHANGED <<callVars, result, state, task, held, tries, passed, faults>>

\* Mutant: the error is returned to the worker and not to the caller.
CopyFailsSilently(w) ==
  /\ Fail
  /\ Goto(w, "copy", "release")
  /\ UNCHANGED <<callVars, result, dockerVars, task, held, tries, passed>>

CopyFails(w) ==
  /\ Fail
  /\ Goto(w, "copy", "release")
  /\ SendResult(w, "setup")
  /\ UNCHANGED <<callVars, dockerVars, task, held, tries, passed>>

CompileCode(w) ==
  /\ Goto(w, "compile", "run")
  /\ Compile[image[held[w]]] = "good"
  /\ UNCHANGED <<callVars, result, dockerVars, task, held, tries, passed, faults>>

\* Mutant: the container is not given back when the code does not compile.
CompileErrorLeaks(w) ==
  /\ Goto(w, "compile", "wait")
  /\ Compile[image[held[w]]] # "good"
  /\ SendResult(w, "compile")
  /\ task' = [task EXCEPT ![w] = None]
  /\ held' = [held EXCEPT ![w] = None]
  /\ UNCHANGED <<callVars, dockerVars, tries, passed, faults>>

\* Mutant: the container is given back with the error, and again by the deferred call.
CompileErrorReleasesTwice(w) ==
  /\ Goto(w, "compile", "release")
  /\ Compile[image[held[w]]] # "good"
  /\ SendResult(w, "compile")
  /\ state' = [state EXCEPT ![held[w]] = "idle"]
  /\ UNCHANGED <<callVars, image, task, held, tries, passed, faults>>

CompileError(w) ==
  /\ Goto(w, "compile", "release")
  /\ Compile[image[held[w]]] # "good"
  /\ SendResult(w, "compile")
  /\ UNCHANGED <<callVars, dockerVars, task, held, tries, passed, faults>>

\* docker exec failed, or the 15 seconds of the job were over.
CompileFails(w) ==
  /\ Fail
  /\ Goto(w, "compile", "release")
  /\ SendResult(w, "compile")
  /\ UNCHANGED <<callVars, dockerVars, task, held, tries, passed>>

\* The next test case of w's job, run on the code that lies in w's container.
Outcome(w) ==
  IF image[held[w]] = task[w] THEN Tests[task[w]][passed[w] + 1] ELSE "wrong"

PassTest(w) ==
  /\ step[w] = "run"
  /\ passed[w] < Len(Tests[task[w]])
  /\ Outcome(w) = "pass"
  /\ passed' = [passed EXCEPT ![w] = @ + 1]
  /\ UNCHANGED <<callVars, result, dockerVars, step, task, held, tries, faults>>

\* Mutant: no return after the result of a failed test case is sent.
FailTestAndGoOn(w) ==
  /\ step[w] = "run"
  /\ passed[w] < Len(Tests[task[w]])
  /\ Outcome(w) # "pass"
  /\ SendResult(w, IF Outcome(w) = "crash" THEN "runtime" ELSE "failed")
  /\ passed' = [passed EXCEPT ![w] = @ + 1]
  /\ UNCHANGED <<callVars, dockerVars, step, task, held, tries, faults>>

FailTest(w) ==
  /\ Goto(w, "run", "release")
  /\ passed[w] < Len(Tests[task[w]])
  /\ Outcome(w) # "pass"
  /\ SendResult(w, IF Outcome(w) = "crash" THEN "runtime" ELSE "failed")
  /\ UNCHANGED <<callVars, dockerVars, task, held, tries, passed, faults>>

RunFails(w) ==
  /\ Fail
  /\ Goto(w, "run", "release")
  /\ passed[w] < Len(Tests[task[w]])
  /\ SendResult(w, "runtime")
  /\ UNCHANGED <<callVars, dockerVars, task, held, tries, passed>>

\* Mutant: the last test case is not run.
PassAllButOne(w) ==
  /\ Goto(w, "run", "release")
  /\ passed[w] + 1 >= Len(Tests[task[w]])
  /\ SendResult(w, "passed")
  /\ UNCHANGED <<callVars, dockerVars, task, held, tries, passed, faults>>

PassAll(w) ==
  /\ Goto(w, "run", "release")
  /\ passed[w] = Len(Tests[task[w]])
  /\ SendResult(w, "passed")
  /\ UNCHANGED <<callVars, dockerVars, task, held, tries, passed, faults>>

\* The deferred SetContainerState(containerID, StateIdle).  It writes without the
\* mutex; "idle" and "busy" have the same length, so a lookup that races with it sees
\* one of the two, and one that sees "busy" acts as if it had come before.
Release(w) ==
  /\ Goto(w, "release", "wait")
  /\ state' = [state EXCEPT ![held[w]] = "idle"]
  /\ held' = [held EXCEPT ![w] = None]
  /\ task' = [task EXCEPT ![w] = None]
  /\ passed' = [passed EXCEPT ![w] = 0]
  /\ UNCHANGED <<callVars, result, image, tries, faults>>

Work(w) ==
  \/ Pick(w)
  \/ Claim(w) \/ Retry(w) \/ GiveUp(w)
  \/ Copy(w) \/ CopyFails(w)
  \/ CompileCode(w) \/ CompileError(w) \/ CompileFails(w)
  \/ PassTest(w) \/ FailTest(w) \/ RunFails(w) \/ PassAll(w)
  \/ Release(w)

Next ==
  \/ \E j \in Jobs : Submit(j) \/ Refuse(j) \/ Return(j)
  \/ \E w \in Workers : Work(w)

Spec == Init /\ [][Next]_vars

\* Every goroutine that can run does; a program that does not end is stopped by
\* the 15 seconds of its job.
Fairness ==
  /\ \A w \in Workers : WF_vars(Work(w))
  /\ \A j \in Jobs : WF_vars(Return(j))

FairSpec == Spec /\ Fairness

----------------------------------------------------------------------------
(* Properties. *)

TypeOK ==
  /\ jobs \in Seq(Jobs) /\ Len(jobs) <= MaxJobCount
  /\ call \in [Jobs -> {"new", "waiting", "refused", "returned"}]
  /\ result \in [Jobs -> Results \cup {None}]
  /\ reply \in [Jobs -> Results \cup {None}]
  /\ state \in [Containers -> {"idle", "busy", "error"}]
  /\ image \in [Containers -> Jobs \cup {None}]
  /\ step \in [Workers -> Steps]
  /\ task \in [Workers -> Jobs \cup {None}]
  /\ held \in [Workers -> Containers \cup {None}]
  /\ tries \in [Workers -> 0..(MaxRetries - 1)]
  /\ passed \in [Workers -> Nat]
  /\ faults \in Nat

\* GetAvailableContainer and the deferred SetContainerState: a container is busy
\* exactly while one worker holds it, and never two.
ContainersExclusive ==
  /\ \A c \in Containers : state[c] = "busy" <=> \E w \in Workers : held[w] = c
  /\ \A w, v \in Workers : w # v /\ held[w] # None => held[w] # held[v]

\* With it inductive: who holds a container.
HoldInv ==
  /\ ContainersExclusive
  /\ \A w \in Workers : held[w] # None <=> step[w] \in Holding

Healthy  == {c \in Containers : state[c] # "error"}
Equipped == Cardinality(Healthy) >= Cardinality(Workers)

\* balanceWorker: with as many running containers as workers, a worker that looks
\* for a container finds one, so no job is given up.
ContainerAvailable ==
  Equipped => \A w \in Workers : step[w] = "claim" => ~NoneIdle

\* Steps at which a worker has a job and has sent no result for it.
Judging == {"claim", "copy", "compile", "run"}

\* executeJob sends on job.Result in five places: for every job at most once, to a
\* caller that still waits, so the send never blocks a worker and the container it
\* holds.
OneResultPerJob ==
  \A w \in Workers :
    /\ step[w] \in Judging => call[task[w]] = "waiting" /\ result[task[w]] = None
    /\ \A v \in Workers : w # v /\ task[w] # None => task[w] # task[v]

\* With it inductive: a job is in the channel, with one worker or answered.
JobInv ==
  /\ OneResultPerJob
  /\ \A w \in Workers : task[w] = None <=> step[w] = "wait"
  /\ \A w \in Workers : task[w] # None => call[task[w]] \in {"waiting", "returned"}
  /\ \A i \in 1..Len(jobs) :
       /\ call[jobs[i]] = "waiting" /\ result[jobs[i]] = None
       /\ \A w \in Workers : task[w] # jobs[i]
       /\ \A k \in 1..Len(jobs) : i # k => jobs[i] # jobs[k]
  /\ \A j \in Jobs : result[j] # None => call[j] = "waiting"

\* A call that waits is heard of: its job is queued, with a worker that will answer it,
\* or answered.
InHand(j) ==
  \/ \E i \in 1..Len(jobs) : jobs[i] = j
  \/ \E w \in Workers : task[w] = j /\ step[w] \in Judging
  \/ result[j] # None

\* worker_pool.go:119-126 and 162-290: executeJob returns in seven places and answers in
\* five, and nobody but the worker knows of the job.  With as many running containers as
\* workers, no return leaves a caller behind.
NoCallLost == Equipped => \A j \in Jobs : call[j] = "waiting" => InHand(j)

\* The result a job should have: the error of its compiler, or of the first test
\* case its code does not pass.
Failing(j) == {i \in 1..Len(Tests[j]) : Tests[j][i] # "pass"}
FirstFailing(j) == CHOOSE i \in Failing(j) : \A k \in Failing(j) : i <= k
Verdict(j) ==
  IF Compile[j] = "broken" THEN "compile"
  ELSE IF Failing(j) = {} THEN "passed"
  ELSE IF Tests[j][FirstFailing(j)] = "crash" THEN "runtime" ELSE "failed"

\* What a failure of Docker or the time limit turns a verdict into, and the results
\* job j may get after n failures.
Mishaps == {"setup", "compile", "runtime"}
Deserved(j, r, n) == r = Verdict(j) \/ (n > 0 /\ r \in Mishaps)

\* executeJob: a call gets the result of its own code, whatever else runs in the
\* containers; a failure of Docker or the time limit may turn it into an error,
\* never into a success.
VerdictOfOwnCode == \A j \in Jobs : reply[j] # None => Deserved(j, reply[j], faults)

\* A worker compiles and runs the code of its own job, and has run it on the test
\* cases it has passed.
RunsOwnCode(w) ==
  /\ step[w] \in {"compile", "run"} => image[held[w]] = task[w]
  /\ step[w] = "compile" => Compile[task[w]] # "interpreted"
  /\ step[w] = "run" =>
       /\ Compile[task[w]] # "broken"
       /\ passed[w] <= Len(Tests[task[w]])
       /\ \A i \in 1..passed[w] : Tests[task[w]][i] = "pass"
  /\ step[w] \notin {"run", "release"} => passed[w] = 0

\* With it VerdictOfOwnCode is inductive.
VerdictInv ==
  /\ VerdictOfOwnCode
  /\ \A j \in Jobs : result[j] # None => Deserved(j, result[j], faults)
  /\ \A w \in Workers : RunsOwnCode(w)

\* What ExecuteJob promises.
Service == INSTANCE JobService
             WITH Answers <- [j \in Jobs |-> {Verdict(j)} \cup Mishaps]

\* worker_pool.go:119: every accepted call is answered at most once, and exactly once
\* if the pool starts with a running container for each worker.
ServiceSpec == Service!Safety /\ (Equipped => Service!Liveness)

\* worker_pool.go:119: ExecuteJob submits the job and waits for its result, so a
\* call that was accepted returns.
EveryCallReturns == \A j \in Jobs : call[j] = "waiting" ~> call[j] = "returned"
=============================================================================
