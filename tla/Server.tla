-------------------------------- MODULE Server --------------------------------
(***************************************************************************)
(* The server process: it builds its pool of containers (ContainerPool),   *)
(* serves the requests for events (EventRequests) and the open-ended       *)
(* streams of the SSE handlers while it is up, and ends by a crash or by a *)
(* signal.  A signal closes the listener; the handlers that run are waited *)
(* for, at most 30 seconds.                                                *)
(***************************************************************************)
EXTENDS EventRequests

CONSTANTS
  Containers,   \* worker containers that may exist
  MaxWorkers,   \* size of the pool (5 in main)
  Scenarios     \* bound: what the first start may find in Docker, and who comes, guilds
                \* that file these requests, and streams; and how many statements fail
                \* and stops happen

ASSUME ServerAssumption ==
  /\ IsFiniteSet(Containers)
  /\ MaxWorkers \in Nat \ {0}
  /\ MaxWorkers <= Cardinality(Containers)
  /\ Scenarios \subseteq [docker : [Containers -> {"absent", "running", "exited"}],
                            requests : SUBSET Requests, streams : BOOLEAN,
                            faults : 0..MaxFaults, stops : Nat]

VARIABLES
  docker, pool, phase, needed, starting, spoiled,
  streams,      \* an SSE request is open
  stops,        \* crashes, failed starts and signals so far
  scenario      \* the scenario of this behaviour

poolVars    == <<docker, pool, phase, needed, starting, spoiled>>
processVars == <<streams, stops, scenario>>
serverVars  == <<vars, poolVars, processVars>>

Pool == INSTANCE ContainerPool

ServerInit ==
  /\ Init
  /\ scenario \in Scenarios
  /\ Pool!Init /\ docker = scenario.docker
  /\ streams = FALSE
  /\ stops = 0

FaultHere == Fault /\ faults' <= scenario.faults
OneStop == stops < scenario.stops /\ stops' = stops + 1 /\ UNCHANGED scenario

----------------------------------------------------------------------------
(* The start. *)
Starting == (Pool!Boot \/ Pool!Starting) /\ UNCHANGED <<vars, processVars>>

\* main panics.
StartFails == Pool!ListFails /\ OneStop /\ UNCHANGED <<vars, streams>>

\* The pool stays as it is.
BalanceFails == FaultHere /\ Pool!BalanceFails /\ UNCHANGED <<tableVars, adminVars, contested, processVars>>

ContainerExits == FaultHere /\ (\E c \in Containers : Pool!Exit(c))
                  /\ UNCHANGED <<tableVars, adminVars, contested, processVars>>

(* Requests that reach the server, and handlers that run. *)
Serving == UNCHANGED <<poolVars, processVars>> /\ faults' <= scenario.faults

Request(a) == phase = "up" /\ Receive(a) /\ Serving
Handle(a)  == phase \in {"up", "stopping"} /\ Processing(a) /\ Serving
ListPending(a) == phase = "up" /\ Look(a) /\ Serving
FileRequest ==
  /\ phase = "up"
  /\ \E r \in scenario.requests : File(r) \/ FileFails(r)
  /\ Serving

OpenStream ==
  /\ phase = "up"
  /\ scenario.streams
  /\ streams' = TRUE
  /\ UNCHANGED <<vars, poolVars, stops, scenario>>

EndStream ==
  /\ phase \in {"up", "stopping"}
  /\ streams' = FALSE
  /\ UNCHANGED <<vars, poolVars, stops, scenario>>

(* The end. *)
Killed == Abort /\ streams' = FALSE

Crash == OneStop /\ Pool!Crash /\ Killed

Signal == OneStop /\ Pool!Signal /\ UNCHANGED <<vars, streams>>

\* srv.Shutdown returns nil, and main ends.
StopCleanly ==
  /\ Open = {} /\ ~streams
  /\ Pool!Stop /\ Killed
  /\ UNCHANGED <<stops, scenario>>

\* Mutant: Shutdown is given a context that does not expire.
NeverTimesOut == FALSE

\* The context of Shutdown expires, Run returns its error and main calls os.Exit.
StopTimesOut ==
  /\ Open # {} \/ streams
  /\ Pool!Stop /\ Killed
  /\ UNCHANGED <<stops, scenario>>

----------------------------------------------------------------------------
ServerNext ==
  \/ Starting \/ StartFails \/ BalanceFails \/ ContainerExits
  \/ \E a \in Admins : ListPending(a) \/ Request(a) \/ Handle(a)
  \/ FileRequest \/ OpenStream \/ EndStream
  \/ Crash \/ Signal \/ StopCleanly \/ StopTimesOut

ServerSpec == ServerInit /\ [][ServerNext]_serverVars

\* Handlers run, timers fire, admins go on processing what they are shown, and a
\* server that is down is started again.  Nobody has to end a stream.
Fairness ==
  /\ WF_serverVars(Starting)
  /\ WF_serverVars(StopCleanly \/ StopTimesOut)
  /\ \A a \in Admins : WF_serverVars(ListPending(a)) /\ WF_serverVars(Request(a))
                       /\ WF_serverVars(Handle(a))

FairSpec == ServerSpec /\ Fairness

----------------------------------------------------------------------------
(* Properties. *)

ServerTypeOK ==
  /\ TypeOK /\ Pool!TypeOK
  /\ streams \in BOOLEAN
  /\ stops \in Nat
  /\ scenario \in Scenarios

\* container_manager.go:263: "ensure the number of workers is exactly equal to
\* `maxWorkers`", after every start in which no call of Docker failed.
PoolBalanced == Pool!PoolBalanced

\* container_manager.go:94-112 and 264-277: containers that are registered without
\* running are counted, so no start creates one beyond MaxWorkers, however many starts
\* were cut short before it.
NeverOverfull ==
  [][Cardinality(Pool!Exists') > Cardinality(Pool!Exists)
       => Cardinality(Pool!Exists') <= MaxWorkers]_serverVars

\* server.go:39-42: a server that was told to stop is down after a while, although the
\* SSE requests it waits for may never end.
StopEnds == phase = "stopping" ~> phase = "down"
=============================================================================
