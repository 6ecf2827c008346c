---------------------------- MODULE ContainerPool ----------------------------
(***************************************************************************)
(* How a start of the server builds its pool of worker containers, and how *)
(* the server comes and goes: InitializePool, balanceWorker and what they  *)
(* call (executor/container_manager.go), NewWorkerPool, main and           *)
(* Application.Run (cmd/api/server.go).                                    *)
(*                                                                         *)
(* Docker outlives the server.  A start registers every worker container   *)
(* it finds, running or not, and starts or removes as many as the pool is  *)
(* short of or beyond MaxWorkers.  Nothing looks at the pool again:        *)
(* MonitorContainers and ShutDown are never called.                        *)
(***************************************************************************)
EXTENDS Integers, FiniteSets

CONSTANTS
  Containers,   \* worker containers that may exist
  MaxWorkers,   \* size of the pool (5 in main)
  None          \* no container

VARIABLES
  docker,       \* docker[c]: absent, created, running or exited
  pool,         \* pool[c]: none, or the state of c in the manager's map
  phase,        \* where the server is: down, a step of its start, up or stopping
  needed,       \* containers balanceWorker has still to start or to remove
  starting,     \* the container that is created and not started yet
  spoiled       \* history: a Docker call of this start has failed

vars == <<docker, pool, phase, needed, starting, spoiled>>

Exists     == {c \in Containers : docker[c] # "absent"}
Registered == {c \in Containers : pool[c] # "none"}
Empty      == [c \in Containers |-> "none"]

\* Left over by an earlier deployment of any size.
Init ==
  /\ docker \in [Containers -> {"absent", "running", "exited"}]
  /\ pool = Empty
  /\ phase = "down"
  /\ needed = 0
  /\ starting = None
  /\ spoiled = FALSE

Goto(from, to) == phase = from /\ phase' = to

(***************************************************************************)
(* main: NewWorkerPool, InitializePool.                                    *)
(***************************************************************************)
Boot ==
  /\ Goto("down", "list")
  /\ spoiled' = FALSE
  /\ UNCHANGED <<docker, pool, needed, starting>>

\* Mutant: only containers that run are registered.
RegisterRunning ==
  /\ Goto("list", "balance")
  /\ pool' = [c \in Containers |-> IF docker[c] = "running" THEN "idle" ELSE "none"]
  /\ UNCHANGED <<docker, needed, starting, spoiled>>

Register ==
  /\ Goto("list", "balance")
  /\ pool' = [c \in Containers |->
                CASE docker[c] = "absent"  -> "none"
                  [] docker[c] = "running" -> "idle"
                  [] OTHER                 -> "error"]
  /\ UNCHANGED <<docker, needed, starting, spoiled>>

\* Mutant: one container is kept beyond the limit.
BalanceOneMore ==
  /\ phase = "balance"
  /\ LET n == Cardinality(Registered)
     IN  \/ /\ n < MaxWorkers
            /\ phase' = "create" /\ needed' = MaxWorkers - n
         \/ /\ n > MaxWorkers + 1
            /\ phase' = "remove" /\ needed' = n - MaxWorkers
         \/ /\ n \in {MaxWorkers, MaxWorkers + 1}
            /\ phase' = "up" /\ UNCHANGED needed
  /\ UNCHANGED <<docker, pool, starting, spoiled>>

\* Mutant: the excess is subtracted the other way round.
BalanceReversed ==
  /\ phase = "balance"
  /\ LET n == Cardinality(Registered)
     IN  \/ /\ n # MaxWorkers
            /\ phase' = IF n < MaxWorkers THEN "create" ELSE "remove"
            /\ needed' = MaxWorkers - n
         \/ /\ n = MaxWorkers
            /\ phase' = "up" /\ UNCHANGED needed
  /\ UNCHANGED <<docker, pool, starting, spoiled>>

\* balanceWorker counts the containers once.
Balance ==
  /\ phase = "balance"
  /\ LET n == Cardinality(Registered)
     IN  \/ /\ n < MaxWorkers
            /\ phase' = "create" /\ needed' = MaxWorkers - n
         \/ /\ n > MaxWorkers
            /\ phase' = "remove" /\ needed' = n - MaxWorkers
         \/ /\ n = MaxWorkers
            /\ phase' = "up" /\ UNCHANGED needed
  /\ UNCHANGED <<docker, pool, starting, spoiled>>

(***************************************************************************)
(* StartContainer.                                                         *)
(***************************************************************************)
Create(c) ==
  /\ Goto("create", "start")
  /\ docker[c] = "absent"
  /\ docker' = [docker EXCEPT ![c] = "created"]
  /\ starting' = c
  /\ UNCHANGED <<pool, needed, spoiled>>

Done(last) ==
  /\ needed' = needed - 1
  /\ phase' = IF needed = 1 THEN "up" ELSE last

Start ==
  /\ phase = "start"
  /\ Done("create")
  /\ docker' = [docker EXCEPT ![starting] = "running"]
  /\ pool' = [pool EXCEPT ![starting] = "idle"]
  /\ starting' = None
  /\ UNCHANGED spoiled

\* removeExcessContainer takes the first that the iteration over the map meets.
Remove(c) ==
  /\ phase = "remove"
  /\ c \in Registered
  /\ Done("remove")
  /\ docker' = [docker EXCEPT ![c] = "absent"]
  /\ pool' = [pool EXCEPT ![c] = "none"]
  /\ UNCHANGED <<starting, spoiled>>

(***************************************************************************)
(* Docker calls that fail.  InitializePool ignores the error of            *)
(* balanceWorker; the error of ContainerList ends in a panic of main.      *)
(***************************************************************************)
ListFails ==
  /\ Goto("list", "down")
  /\ UNCHANGED <<docker, pool, needed, starting, spoiled>>

\* The call that fails may have had its effect.  A container that is created and not
\* registered stays behind.
Effects ==
  {[docker EXCEPT ![c] = "created"] : c \in {d \in Containers \ Exists : phase = "create"}}
  \cup {[docker EXCEPT ![c] = "running"] : c \in {d \in {starting} : phase = "start"}}
  \cup {[docker EXCEPT ![c] = "absent"] : c \in {d \in Registered : phase = "remove"}}

BalanceFails ==
  /\ phase \in {"create", "start", "remove"}
  /\ phase' = "up"
  /\ needed' = 0
  /\ starting' = None
  /\ spoiled' = TRUE
  /\ docker' \in {docker} \cup Effects
  /\ UNCHANGED pool

(***************************************************************************)
(* The process.                                                            *)
(***************************************************************************)
\* Docker gives up on a container; nothing in the server notices before the next
\* start, so it matters only that it happens before that.
Exit(c) ==
  /\ phase = "down"
  /\ docker[c] = "running"
  /\ docker' = [docker EXCEPT ![c] = "exited"]
  /\ UNCHANGED <<pool, phase, needed, starting, spoiled>>

\* What is lost with the process.
Forget ==
  /\ phase' = "down"
  /\ pool' = Empty
  /\ needed' = 0
  /\ starting' = None
  /\ UNCHANGED <<docker, spoiled>>

\* A crash, at any time.
Crash == phase # "down" /\ Forget

\* SIGINT or SIGTERM: srv.Shutdown closes the listener and waits.
Signal ==
  /\ Goto("up", "stopping")
  /\ UNCHANGED <<docker, pool, needed, starting, spoiled>>

\* Shutdown has seen the last request end, or its 30 seconds are over.
Stop == phase = "stopping" /\ Forget

Starting ==
  \/ Register \/ Balance \/ Start
  \/ \E c \in Containers : Create(c) \/ Remove(c)

----------------------------------------------------------------------------
(* Properties. *)

Phases == {"down", "list", "balance", "create", "start", "remove", "up", "stopping"}

TypeOK ==
  /\ docker \in [Containers -> {"absent", "created", "running", "exited"}]
  /\ pool \in [Containers -> {"none", "idle", "error"}]
  /\ phase \in Phases
  /\ needed \in Nat
  /\ starting \in Containers \cup {None}
  /\ spoiled \in BOOLEAN

\* container_manager.go:263: "ensure the number of workers is exactly equal to
\* `maxWorkers`".  Whatever a start finds, what it has registered when it is done is
\* exactly MaxWorkers containers, unless a call of Docker has failed.
PoolBalanced ==
  phase \in {"up", "stopping"} /\ ~spoiled => Cardinality(Registered) = MaxWorkers
=============================================================================
