----------------------------- MODULE ServerProofs -----------------------------
(***************************************************************************)
(* Proofs about Server, for any requests, admins, containers, failures and *)
(* stops.                                                                  *)
(*                                                                         *)
(* A step of the server is a step of the requests (RequestsStep) and of    *)
(* the pool (PoolStep) at once, one of which may change nothing.  The      *)
(* steps of the requests fall into six kinds, and the invariants of the    *)
(* tables are shown for each kind: types; complete events; the outcome of  *)
(* a request that was not contested; what the admins were told.  Each kind *)
(* is then a step of RequestLedger, or none.                               *)
(***************************************************************************)
EXTENDS Server, FiniteSetTheorems, TLAPS

RequestsStep ==
  \/ \E r \in Requests : File(r) \/ FileFails(r)
  \/ \E a \in Admins : Look(a) \/ Receive(a) \/ Processing(a)
  \/ Abort
  \/ UNCHANGED <<tableVars, adminVars, contested>> /\ (UNCHANGED faults \/ Fault)

PoolStep ==
  \/ Pool!Boot \/ Pool!Starting \/ Pool!ListFails \/ Pool!BalanceFails
  \/ \E c \in Containers : Pool!Exit(c)
  \/ Pool!Crash \/ Pool!Signal \/ Pool!Stop
  \/ UNCHANGED poolVars

LEMMA ServerStep ==
  ASSUME scenario \in Scenarios, [ServerNext]_serverVars
  PROVE  RequestsStep /\ PoolStep /\ UNCHANGED scenario
<1>. USE DEF RequestsStep, PoolStep, processVars, vars
<1>1. CASE Starting
  BY <1>1 DEF Starting
<1>2. CASE StartFails
  BY <1>2 DEF StartFails, OneStop
<1>3. CASE BalanceFails
  BY <1>3 DEF BalanceFails, FaultHere
<1>4. CASE ContainerExits
  BY <1>4 DEF ContainerExits, FaultHere
<1>5. ASSUME NEW a \in Admins, ListPending(a) \/ Request(a) \/ Handle(a)
      PROVE  RequestsStep /\ PoolStep /\ UNCHANGED scenario
  BY <1>5 DEF ListPending, Request, Handle, Serving
<1>6. CASE FileRequest
  <2>1. scenario.requests \subseteq Requests
    BY ServerAssumption
  <2>. QED
    BY <1>6, <2>1 DEF FileRequest, Serving
<1>7. CASE OpenStream \/ EndStream
  BY <1>7 DEF OpenStream, EndStream
<1>8. CASE Crash
  BY <1>8 DEF Crash, Killed, OneStop
<1>9. CASE Signal
  BY <1>9 DEF Signal, OneStop
<1>10. CASE StopCleanly \/ StopTimesOut
  BY <1>10 DEF StopCleanly, StopTimesOut, Killed
<1>11. CASE UNCHANGED serverVars
  BY <1>11 DEF serverVars
<1>. QED
  BY <1>1, <1>2, <1>3, <1>4, <1>5, <1>6, <1>7, <1>8, <1>9, <1>10, <1>11 DEF ServerNext

----------------------------------------------------------------------------
(* The steps of the requests. *)

\* A handler that runs knows its request.
TypeInv == TypeOK /\ \A a \in Admins : step[a] # "away" => target[a] \in Requests

\* Steps that leave the tables alone: a handler goes on or ends, or nothing happens.
Quiet ==
  /\ UNCHANGED <<tableVars, contested, target>>
  /\ step' \in [Admins -> Steps] /\ built' \in [Admins -> Nat]
  /\ lock' \in [Requests -> Admins \cup {None}]
  /\ reply' \in [Admins -> {"none", "approved", "declined", "400", "500"}]
  /\ faults' \in 0..MaxFaults
  /\ \A b \in Admins :
       /\ step'[b] # "away" => step[b] # "away"
       /\ step'[b] \in Deciding => step[b] \in Deciding
       /\ step'[b] \in {"approved", "declined"} => step'[b] = step[b]
       /\ reply'[b] \in {"approved", "declined"} => reply'[b] \in {reply[b], step[b]}
       /\ step'[b] \in {"enter", "update", "commit"} =>
            \/ step[b] \in {"enter", "update", "commit"} /\ built'[b] = built[b]
            \/ built'[b] = Rooms[target[b]]

\* The transaction of a takes effect; its handler may not hear of it.
CommitStep(a) ==
  /\ step[a] = "commit"
  /\ Committed(a)
  /\ \E to \in {"approved", "failed"} : step' = [step EXCEPT ![a] = to]
  /\ built' = [built EXCEPT ![a] = 0]
  /\ lock' = [lock EXCEPT ![target[a]] = None]
  /\ UNCHANGED <<target, reply, contested>>
  /\ faults' \in 0..MaxFaults

DeclineStep(a) ==
  /\ step[a] = "decline"
  /\ Declined(a)
  /\ \E to \in {"declined", "failed"} : step' = [step EXCEPT ![a] = to]
  /\ UNCHANGED <<target, built, lock, reply, contested>>
  /\ faults' \in 0..MaxFaults

FileStep(r) ==
  /\ status[r] = "unfiled"
  /\ \/ CreateEventRequest(r)
     \/ UNCHANGED filed /\ \E st \in {"400", "500"} : status' = [status EXCEPT ![r] = st]
  /\ UNCHANGED <<approved, events, rooms, participants, adminVars, contested>>
  /\ faults' \in 0..MaxFaults

LEMMA FaultType == TypeOK /\ (Fault \/ UNCHANGED faults) => faults' \in 0..MaxFaults
BY RequestsAssumption DEF TypeOK, Fault

\* Where a handler ends, and what it answers.
Answers ==
  {"read", "decide", "begin", "rooms", "enter", "update", "failed"} \X {"400", "500"}
  \cup {<<"approved", "approved">>, <<"declined", "declined">>}

LEMMA AnswerQuiet ==
  ASSUME TypeInv, NEW a \in Admins, NEW from, NEW code, Answer(a, from, code),
         <<from, code>> \in Answers, Fault \/ UNCHANGED faults
  PROVE  Quiet
<1>. USE DEF TypeInv, TypeOK, Answers
<1>1. /\ step[a] = from /\ step' = [step EXCEPT ![a] = "away"]
      /\ reply' = [reply EXCEPT ![a] = code]
      /\ built' = [built EXCEPT ![a] = 0]
      /\ lock' = [r \in Requests |-> IF lock[r] = a THEN None ELSE lock[r]]
      /\ UNCHANGED <<tableVars, contested, target>>
  BY DEF Answer, Move, Own
<1>2. /\ step' \in [Admins -> Steps] /\ built' \in [Admins -> Nat]
      /\ lock' \in [Requests -> Admins \cup {None}]
      /\ reply' \in [Admins -> {"none", "approved", "declined", "400", "500"}]
  BY <1>1 DEF Steps
<1>3. faults' \in 0..MaxFaults
  BY FaultType
<1>4. ASSUME NEW b \in Admins
      PROVE  /\ step'[b] # "away" => step[b] # "away"
             /\ step'[b] \in Deciding => step[b] \in Deciding
             /\ step'[b] \in {"approved", "declined"} => step'[b] = step[b]
             /\ reply'[b] \in {"approved", "declined"} => reply'[b] \in {reply[b], step[b]}
             /\ step'[b] \in {"enter", "update", "commit"} =>
                  step[b] \in {"enter", "update", "commit"} /\ built'[b] = built[b]
  BY <1>1 DEF Deciding
<1>. QED
  BY <1>1, <1>2, <1>3, <1>4 DEF Quiet

\* The steps of a transaction before it commits.
LEMMA GoOnQuiet ==
  ASSUME TypeInv, NEW a \in Admins,
         Choose(a) \/ CreateEvent(a) \/ CreateRoom(a) \/ EnterGuild(a) \/ UpdateRequest(a)
  PROVE  Quiet
<1>. USE DEF TypeInv, TypeOK
<1>1. /\ step[a] \in {"decide", "begin", "rooms", "enter", "update"}
      /\ \E to \in Deciding :
           /\ step' = [step EXCEPT ![a] = to]
           /\ to \in {"enter", "update", "commit"} =>
                \/ step[a] \in {"enter", "update"} /\ built'[a] = built[a]
                \/ built'[a] = Rooms[target[a]]
      /\ built' = built \/ built' = [built EXCEPT ![a] = @ + 1]
      /\ lock' = lock \/ lock' = [lock EXCEPT ![target[a]] = a]
      /\ UNCHANGED <<tableVars, contested, target, reply, faults>>
  <2>. USE DEF Move, Own, Deciding
  <2>1. CASE Choose(a)
    BY <2>1 DEF Choose
  <2>2. CASE CreateEvent(a) \/ EnterGuild(a)
    BY <2>2 DEF CreateEvent, EnterGuild
  <2>3. CASE CreateRoom(a)
    <3>1. CASE built[a] < Rooms[target[a]]
      <4>1. /\ built' = [built EXCEPT ![a] = @ + 1] /\ step' = step /\ step[a] = "rooms"
            /\ UNCHANGED <<tableVars, contested, target, lock, reply, faults>>
        <5>1. target[a] \in Requests
          BY <2>3 DEF CreateRoom
        <5>2. built[a] \in Nat /\ Rooms[target[a]] \in Nat
          BY <5>1, RequestsAssumption
        <5>3. built[a] # Rooms[target[a]]
          BY <3>1, <5>2
        <5>. QED
          BY <2>3, <5>3 DEF CreateRoom
      <4>2. step' = [step EXCEPT ![a] = "rooms"]
        BY <4>1
      <4>. QED
        BY <4>1, <4>2
    <3>2. CASE ~(built[a] < Rooms[target[a]])
      BY <2>3, <3>2 DEF CreateRoom
    <3>. QED
      BY <3>1, <3>2
  <2>4. CASE UpdateRequest(a)
    BY <2>4 DEF UpdateRequest
  <2>. QED
    BY <2>1, <2>2, <2>3, <2>4
<1>2. PICK to \in Deciding :
        /\ step' = [step EXCEPT ![a] = to]
        /\ to \in {"enter", "update", "commit"} =>
             \/ step[a] \in {"enter", "update"} /\ built'[a] = built[a]
             \/ built'[a] = Rooms[target[a]]
  BY <1>1
<1>3. /\ step' \in [Admins -> Steps] /\ built' \in [Admins -> Nat]
      /\ lock' \in [Requests -> Admins \cup {None}]
  <2>1. step' \in [Admins -> Steps]
    BY <1>2 DEF Steps
  <2>2. built' \in [Admins -> Nat]
    <3>1. built' = built \/ built' = [built EXCEPT ![a] = built[a] + 1]
      BY <1>1
    <3>2. built \in [Admins -> Nat] /\ built[a] + 1 \in Nat
      OBVIOUS
    <3>. QED
      BY <3>1, <3>2
  <2>3. lock' \in [Requests -> Admins \cup {None}]
    BY <1>1
  <2>. QED
    BY <2>1, <2>2, <2>3
<1>4. ASSUME NEW b \in Admins
      PROVE  /\ step'[b] # "away" => step[b] # "away"
             /\ step'[b] \in Deciding => step[b] \in Deciding
             /\ step'[b] \in {"approved", "declined"} => step'[b] = step[b]
             /\ step'[b] \in {"enter", "update", "commit"} =>
                  \/ step[b] \in {"enter", "update", "commit"} /\ built'[b] = built[b]
                  \/ built'[b] = Rooms[target[b]]
  BY <1>1, <1>2 DEF Deciding
<1>. QED
  BY <1>1, <1>3, <1>4 DEF Quiet

LEMMA AbortQuiet == TypeInv /\ Abort => Quiet
<1>. SUFFICES ASSUME TypeInv, Abort PROVE Quiet
  OBVIOUS
<1>. USE DEF TypeInv, TypeOK, Abort
<1>1. /\ step' \in [Admins -> Steps] /\ built' \in [Admins -> Nat]
      /\ lock' \in [Requests -> Admins \cup {None}]
  BY DEF Steps
<1>2. \A b \in Admins : step'[b] \in {step[b], "away"} /\ step'[b] \in {"read", "away"}
  OBVIOUS
<1>. QED
  BY <1>1, <1>2 DEF Quiet, Deciding

LEMMA StepKinds ==
  ASSUME TypeInv, RequestsStep
  PROVE  \/ Quiet
         \/ \E r \in Requests : FileStep(r)
         \/ \E a \in Admins : Look(a) \/ Read(a) \/ CommitStep(a) \/ DeclineStep(a)
<1>1. ASSUME NEW r \in Requests, File(r) \/ FileFails(r) PROVE FileStep(r)
  <2>1. faults' \in 0..MaxFaults
    BY <1>1, FaultType DEF File, FileFails, TypeInv
  <2>2. CASE File(r)
    <3>1. Form[r] \in {"good", "invalid", "unknown"}
      BY RequestsAssumption
    <3>. QED
      BY <2>1, <2>2, <3>1 DEF File, FileStep
  <2>3. CASE FileFails(r)
    BY <2>1, <2>3 DEF FileFails, FileStep
  <2>. QED
    BY <1>1, <2>2, <2>3
<1>2. ASSUME NEW a \in Admins, ReadProcessed(a) \/ ReadFails(a) \/ ChooseBadly(a)
      PROVE  Quiet
  <2>1. CASE ReadProcessed(a)
    <3>1. Answer(a, "read", "400") /\ UNCHANGED faults
      BY <2>1 DEF ReadProcessed
    <3>. QED
      BY <3>1, AnswerQuiet DEF Answers
  <2>2. CASE ReadFails(a)
    <3>1. Answer(a, "read", "500") /\ Fault
      BY <2>2 DEF ReadFails
    <3>. QED
      BY <3>1, AnswerQuiet DEF Answers
  <2>3. CASE ChooseBadly(a)
    <3>1. Answer(a, "decide", "400") /\ Fault
      BY <2>3 DEF ChooseBadly
    <3>. QED
      BY <3>1, AnswerQuiet DEF Answers
  <2>. QED
    BY <1>2, <2>1, <2>2, <2>3
<1>3. ASSUME NEW a \in Admins, StatementFails(a) \/ Reply(a) PROVE Quiet
  <2>1. CASE StatementFails(a)
    <3>1. Fault /\ \E st \in {"begin", "rooms", "enter", "update"} : Answer(a, st, "500")
      BY <2>1 DEF StatementFails
    <3>2. PICK st \in {"begin", "rooms", "enter", "update"} : Answer(a, st, "500")
      BY <3>1
    <3>. QED
      BY <3>1, <3>2, AnswerQuiet DEF Answers
  <2>2. CASE Reply(a)
    <3>1. /\ UNCHANGED faults
          /\ \/ Answer(a, "approved", "approved")
             \/ Answer(a, "declined", "declined")
             \/ Answer(a, "failed", "500")
      BY <2>2 DEF Reply
    <3>2. CASE Answer(a, "approved", "approved")
      BY <3>1, <3>2, AnswerQuiet DEF Answers
    <3>3. CASE Answer(a, "declined", "declined")
      BY <3>1, <3>3, AnswerQuiet DEF Answers
    <3>4. CASE Answer(a, "failed", "500")
      BY <3>1, <3>4, AnswerQuiet DEF Answers
    <3>. QED
      BY <3>1, <3>2, <3>3, <3>4
  <2>. QED
    BY <1>3, <2>1, <2>2
<1>4. ASSUME NEW a \in Admins,
             Choose(a) \/ CreateEvent(a) \/ CreateRoom(a) \/ EnterGuild(a) \/ UpdateRequest(a)
      PROVE  Quiet
  BY <1>4, GoOnQuiet
<1>5. ASSUME NEW a \in Admins, Commit(a) PROVE CommitStep(a)
  BY <1>5, FaultType DEF Commit, CommitStep, Move, TypeInv
<1>6. ASSUME NEW a \in Admins, CommitFails(a) PROVE Quiet \/ CommitStep(a)
  <2>1. CASE Committed(a)
    BY <1>6, <2>1, FaultType DEF CommitFails, CommitStep, Move, TypeInv
  <2>2. CASE UNCHANGED tableVars
    <3>. USE DEF TypeInv, TypeOK
    <3>1. /\ step[a] = "commit" /\ step' = [step EXCEPT ![a] = "failed"]
          /\ built' = [built EXCEPT ![a] = 0]
          /\ lock' = [lock EXCEPT ![target[a]] = None]
          /\ UNCHANGED <<target, reply, contested>>
          /\ faults' \in 0..MaxFaults
      BY <1>6, FaultType DEF CommitFails, Move
    <3>2. /\ step' \in [Admins -> Steps] /\ built' \in [Admins -> Nat]
          /\ lock' \in [Requests -> Admins \cup {None}]
      BY <3>1 DEF Steps
    <3>3. \A b \in Admins : \/ step'[b] = "failed" /\ step[b] = "commit"
                            \/ step'[b] = step[b] /\ built'[b] = built[b]
      BY <3>1
    <3>. QED
      BY <2>2, <3>1, <3>2, <3>3 DEF Quiet, Deciding
  <2>. QED
    BY <1>6, <2>1, <2>2 DEF CommitFails
<1>7. ASSUME NEW a \in Admins, Decline(a) PROVE DeclineStep(a)
  BY <1>7, FaultType DEF Decline, DeclineStep, Move, TypeInv
<1>8. ASSUME NEW a \in Admins, DeclineFails(a) PROVE Quiet \/ DeclineStep(a)
  <2>1. CASE Declined(a)
    BY <1>8, <2>1, FaultType DEF DeclineFails, DeclineStep, Move, TypeInv
  <2>2. CASE UNCHANGED tableVars
    <3>. USE DEF TypeInv, TypeOK
    <3>1. /\ step[a] = "decline" /\ step' = [step EXCEPT ![a] = "failed"]
          /\ UNCHANGED <<target, built, lock, reply, contested>>
          /\ faults' \in 0..MaxFaults
      BY <1>8, FaultType DEF DeclineFails, Move
    <3>2. step' \in [Admins -> Steps]
      BY <3>1 DEF Steps
    <3>3. \A b \in Admins : \/ step'[b] = "failed" /\ step[b] = "decline"
                            \/ step'[b] = step[b]
      BY <3>1
    <3>. QED
      BY <2>2, <3>1, <3>2, <3>3 DEF Quiet, Deciding
  <2>. QED
    BY <1>8, <2>1, <2>2 DEF DeclineFails
<1>9. CASE UNCHANGED <<tableVars, adminVars, contested>> /\ (UNCHANGED faults \/ Fault)
  BY <1>9, FaultType DEF Quiet, adminVars, TypeInv, TypeOK
<1>. QED
  BY <1>1, <1>2, <1>3, <1>4, <1>5, <1>6, <1>7, <1>8, <1>9, AbortQuiet
     DEF RequestsStep, Receive, Processing

----------------------------------------------------------------------------
(* Types. *)

LEMMA LookType == ASSUME TypeInv, NEW a \in Admins, Look(a)
                  PROVE  /\ target' \in [Admins -> Requests \cup {None}]
                         /\ target'[a] \in Requests
                         /\ \A b \in Admins \ {a} : target'[b] = target[b]
                         /\ step[a] = "away" /\ step' = [step EXCEPT ![a] = "read"]
                         /\ reply' = [reply EXCEPT ![a] = "none"]
                         /\ UNCHANGED <<tableVars, contested, built, lock, faults>>
<1>1. \A st : \A x \in GetEventRequests(st) : x.id \in Requests
  <2>1. Rows \subseteq Requests
    BY DEF Rows, TypeInv, TypeOK
  <2>2. \A rows \in SUBSET Requests : Page(rows) \subseteq Requests
    BY DEF Page
  <2>3. ListEventRequests \subseteq Requests
    BY <2>1, <2>2 DEF ListEventRequests
  <2>4. \A st : ListEventRequestsByStatus(st) \subseteq Requests
    BY <2>1, <2>2 DEF ListEventRequestsByStatus
  <2>5. ASSUME NEW st, NEW x \in GetEventRequests(st) PROVE x.id \in Requests
    <3>1. PICK r \in IF st = "" THEN ListEventRequests ELSE ListEventRequestsByStatus(st) :
                   x = toEventRequestResponse(r)
      BY <2>5 DEF GetEventRequests
    <3>2. r \in Requests
      BY <2>3, <2>4
    <3>. QED
      BY <3>1, <3>2 DEF toEventRequestResponse
  <2>. QED
    BY <2>5
<1>2. PICK filter \in {"", "pending"} :
        \E x \in GetEventRequests(filter) :
          x.status = "pending" /\ target' = [target EXCEPT ![a] = x.id]
  BY DEF Look
<1>3. PICK x \in GetEventRequests(filter) :
        x.status = "pending" /\ target' = [target EXCEPT ![a] = x.id]
  BY <1>2
<1>4. x.id \in Requests
  BY <1>1
<1>5. target' = [target EXCEPT ![a] = x.id]
  BY <1>3
<1>. QED
  BY <1>4, <1>5 DEF Look, Move, Own, TypeInv, TypeOK

LEMMA AppendType == ASSUME NEW R, NEW s \in Seq(R), NEW r \in R PROVE Append(s, r) \in Seq(R)
OBVIOUS

LEMMA NextTypeInv == TypeInv /\ RequestsStep => TypeInv'
<1>. SUFFICES ASSUME TypeInv, RequestsStep PROVE TypeInv'
  OBVIOUS
<1>1. CASE Quiet
  BY <1>1 DEF Quiet, TypeInv, TypeOK, tableVars
<1>. USE DEF TypeInv, TypeOK
<1>2. ASSUME NEW r \in Requests, FileStep(r) PROVE TypeInv'
  <2>1. status' \in [Requests -> {"unfiled", "400", "500", "pending", "approved", "rejected"}]
    BY <1>2 DEF FileStep, CreateEventRequest
  <2>2. filed' \in Seq(Requests)
    <3>1. filed' = filed \/ filed' = Append(filed, r)
      BY <1>2 DEF FileStep, CreateEventRequest
    <3>2. filed \in Seq(Requests)
      OBVIOUS
    <3>3. Append(filed, r) \in Seq(Requests)
      BY ONLY <3>2, AppendType
    <3>. QED
      BY <3>1, <3>2, <3>3
  <2>. QED
    BY <1>2, <2>1, <2>2 DEF FileStep, adminVars
<1>3. ASSUME NEW a \in Admins, Look(a) PROVE TypeInv'
  <2>1. /\ step' \in [Admins -> Steps]
        /\ reply' \in [Admins -> {"none", "approved", "declined", "400", "500"}]
    BY <1>3, LookType DEF Steps
  <2>2. \A b \in Admins : step'[b] # "away" => target'[b] \in Requests
    BY <1>3, LookType
  <2>. QED
    BY <1>3, <2>1, <2>2, LookType DEF tableVars
<1>4. ASSUME NEW a \in Admins, Read(a) PROVE TypeInv'
  <2>1. /\ step' \in [Admins -> Steps] /\ step[a] = "read"
        /\ \A b \in Admins : step'[b] # "away" => step[b] # "away"
    BY <1>4 DEF Read, Move, Steps, Deciding
  <2>2. contested' \subseteq Requests
    BY <1>4, <2>1 DEF Read
  <2>. QED
    BY <1>4, <2>1, <2>2 DEF Read, tableVars
<1>5. ASSUME NEW a \in Admins, CommitStep(a) PROVE TypeInv'
  <2>1. target[a] \in Requests /\ Event(a) \in Requests \X Admins
    BY <1>5 DEF CommitStep, Event
  <2>2. /\ step' \in [Admins -> Steps] /\ built' \in [Admins -> Nat]
        /\ lock' \in [Requests -> Admins \cup {None}]
        /\ \A b \in Admins : step'[b] # "away" => step[b] # "away"
    BY <1>5 DEF CommitStep, Steps
  <2>3. /\ events' \subseteq Requests \X Admins
        /\ status' \in [Requests -> {"unfiled", "400", "500", "pending", "approved", "rejected"}]
    BY <1>5, <2>1 DEF CommitStep, Committed, EventRow, UpdateEventRequestStatus
  <2>4. approved' \in [Requests -> (Requests \X Admins) \cup {None}]
    BY <1>5, <2>1 DEF CommitStep, Committed, UpdateEventRequestStatus
  <2>5. rooms' \in [Requests \X Admins -> Nat]
    BY <1>5, <2>1 DEF CommitStep, Committed, RoomRows
  <2>6. participants' \subseteq (Requests \X Admins) \X Guilds
    BY <1>5, <2>1 DEF CommitStep, Committed, ParticipantRow, Guilds
  <2>. QED
    BY <1>5, <2>2, <2>3, <2>4, <2>5, <2>6 DEF CommitStep, Committed
<1>6. ASSUME NEW a \in Admins, DeclineStep(a) PROVE TypeInv'
  <2>1. /\ step' \in [Admins -> Steps]
        /\ \A b \in Admins : step'[b] # "away" => step[b] # "away"
    BY <1>6 DEF DeclineStep, Steps
  <2>2. /\ status' \in [Requests -> {"unfiled", "400", "500", "pending", "approved", "rejected"}]
        /\ approved' \in [Requests -> (Requests \X Admins) \cup {None}]
    BY <1>6 DEF DeclineStep, Declined, UpdateEventRequestStatus
  <2>. QED
    BY <1>6, <2>1, <2>2 DEF DeclineStep, Declined
<1>. QED
  BY <1>1, <1>2, <1>3, <1>4, <1>5, <1>6, StepKinds

LEMMA InitTypeInv == Init => TypeInv
BY RequestsAssumption DEF Init, TypeInv, TypeOK, Steps

----------------------------------------------------------------------------
(* Events are complete, and a row that is approved names one. *)

CompleteInv ==
  /\ \A b \in Admins : step[b] \in {"enter", "update", "commit"} => built[b] = Rooms[target[b]]
  /\ EventsComplete
  /\ \A r \in Requests :
       /\ status[r] = "approved" <=> approved[r] # None
       /\ approved[r] # None => approved[r] \in events /\ approved[r][1] = r

LEMMA InitComplete == Init => CompleteInv
BY DEF Init, CompleteInv, EventsComplete

LEMMA EventIsNew ==
  ASSUME TypeInv, NEW a \in Admins, step[a] # "away"
  PROVE  /\ target[a] \in Requests /\ Event(a) \in Requests \X Admins
         /\ Event(a) # None /\ Event(a)[1] = target[a]
BY RequestsAssumption DEF TypeInv, TypeOK, Event

LEMMA CommitComplete ==
  ASSUME TypeInv, CompleteInv, NEW a \in Admins, CommitStep(a)
  PROVE  CompleteInv'
<1>1. /\ target[a] \in Requests /\ Event(a) \in Requests \X Admins
      /\ Event(a) # None /\ Event(a)[1] = target[a]
  BY EventIsNew DEF CommitStep
<1>2. built[a] = Rooms[target[a]]
  BY DEF CommitStep, CompleteInv
<1>3. \A b \in Admins :
        step'[b] \in {"enter", "update", "commit"} => built'[b] = Rooms[target'[b]]
  BY DEF CommitStep, CompleteInv, TypeInv, TypeOK
<1>4. EventsComplete'
  <2>1. /\ events' = events \cup {Event(a)}
        /\ rooms' = [rooms EXCEPT ![Event(a)] = Rooms[target[a]]]
        /\ participants' = participants \cup {<<Event(a), Guild[target[a]]>>}
    BY <1>2 DEF CommitStep, Committed, EventRow, RoomRows, ParticipantRow
  <2>2. ASSUME NEW e \in events'
        PROVE  rooms'[e] = Rooms[e[1]] /\ <<e, Guild[e[1]]>> \in participants'
    <3>1. CASE e = Event(a)
      BY <1>1, <2>1, <3>1 DEF TypeInv, TypeOK
    <3>2. CASE e # Event(a)
      <4>1. e \in events
        BY <2>1, <2>2, <3>2
      <4>2. rooms[e] = Rooms[e[1]] /\ <<e, Guild[e[1]]>> \in participants
        BY <4>1 DEF CompleteInv, EventsComplete, GetEventRooms
      <4>3. rooms'[e] = rooms[e]
        BY <2>1, <3>2, <4>1 DEF TypeInv, TypeOK
      <4>. QED
        BY <2>1, <4>2, <4>3
    <3>. QED
      BY <3>1, <3>2
  <2>. QED
    BY <2>2 DEF EventsComplete, GetEventRooms
<1>5. ASSUME NEW r \in Requests
      PROVE  /\ status'[r] = "approved" <=> approved'[r] # None
             /\ approved'[r] # None => approved'[r] \in events' /\ approved'[r][1] = r
  <2>1. /\ status' = [status EXCEPT ![target[a]] = "approved"]
        /\ approved' = [approved EXCEPT ![target[a]] = Event(a)]
        /\ events' = events \cup {Event(a)}
    BY DEF CommitStep, Committed, EventRow, UpdateEventRequestStatus
  <2>2. CASE r = target[a]
    <3>1. status'[r] = "approved" /\ approved'[r] = Event(a)
      BY <2>1, <2>2 DEF TypeInv, TypeOK
    <3>. QED
      BY <1>1, <2>1, <2>2, <3>1
  <2>3. CASE r # target[a]
    <3>1. status'[r] = status[r] /\ approved'[r] = approved[r]
      BY <2>1, <2>3 DEF TypeInv, TypeOK
    <3>. QED
      BY <2>1, <3>1 DEF CompleteInv
  <2>. QED
    BY <2>2, <2>3
<1>. QED
  BY <1>3, <1>4, <1>5 DEF CompleteInv

LEMMA NextComplete == TypeInv /\ CompleteInv /\ RequestsStep => CompleteInv'
<1>. SUFFICES ASSUME TypeInv, CompleteInv, RequestsStep PROVE CompleteInv'
  OBVIOUS
<1>1. CASE Quiet
  <2>1. /\ EventsComplete' /\ target' = target
        /\ status' = status /\ approved' = approved /\ events' = events
    BY <1>1 DEF Quiet, tableVars, CompleteInv, EventsComplete, GetEventRooms
  <2>2. \A b \in Admins :
          step'[b] \in {"enter", "update", "commit"} => built'[b] = Rooms[target'[b]]
    BY <1>1 DEF Quiet, CompleteInv
  <2>. QED
    BY <2>1, <2>2 DEF CompleteInv
<1>2. ASSUME NEW r \in Requests, FileStep(r) PROVE CompleteInv'
  <2>1. /\ UNCHANGED <<approved, events, rooms, participants, step, target, built>>
        /\ status[r] = "unfiled" /\ \E st \in {"pending", "400", "500"} :
                                      status' = [status EXCEPT ![r] = st]
    BY <1>2 DEF FileStep, CreateEventRequest, adminVars
  <2>2. \A q \in Requests : status'[q] = "approved" <=> status[q] = "approved"
    BY <2>1 DEF TypeInv, TypeOK
  <2>3. EventsComplete'
    BY <2>1 DEF CompleteInv, EventsComplete, GetEventRooms
  <2>. QED
    BY <2>1, <2>2, <2>3 DEF CompleteInv
<1>3. ASSUME NEW a \in Admins, Look(a) \/ Read(a) PROVE CompleteInv'
  <2>1. /\ UNCHANGED <<tableVars, built>>
        /\ \E to \in {"read", "decide"} : step' = [step EXCEPT ![a] = to]
        /\ \A b \in Admins \ {a} : target'[b] = target[b]
    <3>1. CASE Look(a)
      BY <3>1, LookType
    <3>2. CASE Read(a)
      BY <3>2 DEF Read, Move
    <3>. QED
      BY <1>3, <3>1, <3>2
  <2>2. \A b \in Admins :
          step'[b] \in {"enter", "update", "commit"} => b # a /\ step'[b] = step[b]
    BY <2>1 DEF TypeInv, TypeOK
  <2>3. EventsComplete'
    BY <2>1 DEF tableVars, CompleteInv, EventsComplete, GetEventRooms
  <2>. QED
    BY <2>1, <2>2, <2>3 DEF tableVars, CompleteInv
<1>4. ASSUME NEW a \in Admins, DeclineStep(a) PROVE CompleteInv'
  <2>1. /\ status' = [status EXCEPT ![target[a]] = "rejected"]
        /\ approved' = [approved EXCEPT ![target[a]] = None]
        /\ UNCHANGED <<events, rooms, participants, target, built>>
        /\ \E to \in {"declined", "failed"} : step' = [step EXCEPT ![a] = to]
    BY <1>4 DEF DeclineStep, Declined, UpdateEventRequestStatus
  <2>2. \A b \in Admins :
          step'[b] \in {"enter", "update", "commit"} => step'[b] = step[b]
    BY <2>1 DEF TypeInv, TypeOK
  <2>3. EventsComplete'
    BY <2>1 DEF CompleteInv, EventsComplete, GetEventRooms
  <2>4. \A r \in Requests :
          \/ status'[r] = "rejected" /\ approved'[r] = None
          \/ status'[r] = status[r] /\ approved'[r] = approved[r]
    BY <2>1 DEF TypeInv, TypeOK
  <2>. QED
    BY <2>1, <2>2, <2>3, <2>4 DEF CompleteInv
<1>. QED
  BY <1>1, <1>2, <1>3, <1>4, CommitComplete, StepKinds

LEMMA CompleteShown == TypeInv /\ CompleteInv => GuildSeesItsEvent
<1>. SUFFICES ASSUME TypeInv, CompleteInv, NEW g, NEW x \in GetMyEventRequests(g)
              PROVE  /\ x.status = "approved" <=> x.event # None
                     /\ x.event # None => /\ GetEventRooms(x.event) = Rooms[x.id]
                                          /\ <<x.event, g>> \in participants
  BY DEF GuildSeesItsEvent
<1>1. PICK r \in ListEventRequestsByGuild(g) : x = toEventRequestResponse(r)
  BY DEF GetMyEventRequests
<1>2. r \in Requests /\ Guild[r] = g
  BY DEF ListEventRequestsByGuild, Page, Rows, TypeInv, TypeOK
<1>3. x.id = r /\ x.status = status[r] /\ x.event = approved[r]
  BY <1>1 DEF toEventRequestResponse
<1>. QED
  BY <1>2, <1>3 DEF CompleteInv, EventsComplete
----------------------------------------------------------------------------
(* A request that is not contested has one outcome: while a handler decides *)
(* it, it is pending and has no event, and no other handler decides it.     *)

OutcomeInv ==
  /\ OneOutcome
  /\ \A a, b \in Admins :
       /\ step[a] \in Deciding /\ target[a] \notin contested
       /\ step[b] \in Deciding /\ target[b] = target[a]
       => status[target[a]] = "pending" /\ b = a

LEMMA InitOutcome == Init => OutcomeInv
BY DEF Init, OutcomeInv, OneOutcome, EventsOf, Deciding

LEMMA NextOutcome == TypeInv /\ OutcomeInv /\ RequestsStep => OutcomeInv'
<1>. SUFFICES ASSUME TypeInv, OutcomeInv, RequestsStep PROVE OutcomeInv'
  OBVIOUS
<1>1. CASE Quiet
  <2>1. OneOutcome'
    BY <1>1 DEF Quiet, tableVars, OutcomeInv, OneOutcome, EventsOf
  <2>. QED
    BY <1>1, <2>1 DEF Quiet, tableVars, OutcomeInv
<1>2. ASSUME NEW r \in Requests, FileStep(r) PROVE OutcomeInv'
  <2>1. /\ UNCHANGED <<approved, events, step, target, contested>>
        /\ status[r] = "unfiled" /\ \E st \in {"pending", "400", "500"} :
                                      status' = [status EXCEPT ![r] = st]
    BY <1>2 DEF FileStep, CreateEventRequest, adminVars
  <2>2. \A q \in Requests : \/ status'[q] = status[q]
                            \/ q = r /\ status[q] = "unfiled" /\ status'[q] # "approved"
    BY <2>1 DEF TypeInv, TypeOK
  <2>3. OneOutcome'
    BY <2>1, <2>2 DEF OutcomeInv, OneOutcome, EventsOf
  <2>4. \A a, b \in Admins :
          /\ step[a] \in Deciding /\ target[a] \notin contested
          /\ step[b] \in Deciding /\ target[b] = target[a]
          => status'[target[a]] = "pending" /\ b = a
    BY <2>2 DEF OutcomeInv, TypeInv, Deciding
  <2>. QED
    BY <2>1, <2>3, <2>4 DEF OutcomeInv
<1>3. ASSUME NEW a \in Admins, Look(a) PROVE OutcomeInv'
  <2>1. \A b \in Admins : step'[b] \in Deciding =>
                             b # a /\ step'[b] = step[b] /\ target'[b] = target[b]
    BY <1>3, LookType DEF TypeInv, TypeOK, Deciding
  <2>2. UNCHANGED <<tableVars, contested>>
    BY <1>3, LookType
  <2>3. OneOutcome'
    BY <2>2 DEF tableVars, OutcomeInv, OneOutcome, EventsOf
  <2>. QED
    BY <2>1, <2>2, <2>3 DEF tableVars, OutcomeInv
<1>4. ASSUME NEW a \in Admins, Read(a) PROVE OutcomeInv'
  <2>1. /\ status[target[a]] = "pending"
        /\ contested' = IF Rivals(a) = {} THEN contested ELSE contested \cup {target[a]}
        /\ UNCHANGED <<tableVars, target>>
        /\ step' = [step EXCEPT ![a] = "decide"]
    BY <1>4 DEF Read, Move
  <2>2. OneOutcome'
    BY <2>1 DEF tableVars, OutcomeInv, OneOutcome, EventsOf
  <2>3. ASSUME NEW b \in Admins, NEW c \in Admins,
               step'[b] \in Deciding, target[b] \notin contested',
               step'[c] \in Deciding, target[c] = target[b]
        PROVE  status[target[b]] = "pending" /\ c = b
    <3>1. \A d \in Admins : d # a => step'[d] = step[d]
      BY <2>1 DEF TypeInv, TypeOK
    <3>2. target[b] \notin contested
      BY <2>1, <2>3
    <3>3. CASE b # a /\ c # a
      BY <2>3, <3>1, <3>2, <3>3 DEF OutcomeInv
    <3>4. CASE b = a \/ c = a
      <4>1. \A d \in Admins : d # a /\ step[d] \in Deciding => target[d] # target[a]
        BY <2>1, <2>3, <3>4 DEF Rivals
      <4>. QED
        BY <2>1, <2>3, <3>1, <3>4, <4>1
    <3>. QED
      BY <3>3, <3>4
  <2>. QED
    BY <2>1, <2>2, <2>3 DEF tableVars, OutcomeInv
<1>5. ASSUME NEW a \in Admins, CommitStep(a) PROVE OutcomeInv'
  <2>1. /\ target[a] \in Requests /\ Event(a) \in Requests \X Admins
        /\ Event(a)[1] = target[a]
    BY <1>5, EventIsNew DEF CommitStep
  <2>2. /\ status' = [status EXCEPT ![target[a]] = "approved"]
        /\ approved' = [approved EXCEPT ![target[a]] = Event(a)]
        /\ events' = events \cup {Event(a)}
        /\ UNCHANGED <<target, contested>>
        /\ step[a] \in Deciding
        /\ \E to \in {"approved", "failed"} : step' = [step EXCEPT ![a] = to]
    BY <1>5 DEF CommitStep, Committed, EventRow, UpdateEventRequestStatus, Deciding
  <2>3. \A b \in Admins : step'[b] \in Deciding => b # a /\ step'[b] = step[b]
    BY <2>2 DEF TypeInv, TypeOK, Deciding
  <2>4. \A r \in Requests : r # target[a] => status'[r] = status[r] /\ approved'[r] = approved[r]
    BY <2>2 DEF TypeInv, TypeOK
  <2>5. ASSUME NEW r \in Requests \ contested
        PROVE  {e \in events' : e[1] = r} = IF status'[r] = "approved" THEN {approved'[r]} ELSE {}
    <3>1. CASE r = target[a]
      <4>1. status[r] = "pending"
        BY <2>2, <2>5, <3>1 DEF OutcomeInv
      <4>2. {e \in events : e[1] = r} = {}
        BY <4>1, <2>5 DEF OutcomeInv, OneOutcome, EventsOf
      <4>3. {e \in events' : e[1] = r} = {Event(a)}
        BY <2>1, <2>2, <3>1, <4>2
      <4>4. status'[r] = "approved" /\ approved'[r] = Event(a)
        BY <2>2, <3>1 DEF TypeInv, TypeOK
      <4>. QED
        BY <4>3, <4>4
    <3>2. CASE r # target[a]
      <4>1. {e \in events' : e[1] = r} = {e \in events : e[1] = r}
        BY <2>1, <2>2, <3>2
      <4>2. {e \in events : e[1] = r} = IF status[r] = "approved" THEN {approved[r]} ELSE {}
        BY <2>5 DEF OutcomeInv, OneOutcome, EventsOf
      <4>. QED
        BY <2>4, <3>2, <4>1, <4>2
    <3>. QED
      BY <3>1, <3>2
  <2>6. OneOutcome'
    BY <2>2, <2>5 DEF OneOutcome, EventsOf
  <2>7. ASSUME NEW b \in Admins, NEW c \in Admins,
               step'[b] \in Deciding, target[b] \notin contested,
               step'[c] \in Deciding, target[c] = target[b]
        PROVE  status'[target[b]] = "pending" /\ c = b
    <3>1. status[target[b]] = "pending" /\ c = b /\ target[b] # target[a] /\ target[b] \in Requests
      BY <2>2, <2>3, <2>7 DEF OutcomeInv, TypeInv, Deciding
    <3>. QED
      BY <2>4, <3>1
  <2>. QED
    BY <2>2, <2>6, <2>7 DEF OutcomeInv
<1>6. ASSUME NEW a \in Admins, DeclineStep(a) PROVE OutcomeInv'
  <2>1. target[a] \in Requests
    BY <1>6 DEF DeclineStep, TypeInv
  <2>2. /\ status' = [status EXCEPT ![target[a]] = "rejected"]
        /\ approved' = [approved EXCEPT ![target[a]] = None]
        /\ UNCHANGED <<events, target, contested>>
        /\ step[a] \in Deciding
        /\ \E to \in {"declined", "failed"} : step' = [step EXCEPT ![a] = to]
    BY <1>6 DEF DeclineStep, Declined, UpdateEventRequestStatus, Deciding
  <2>3. \A b \in Admins : step'[b] \in Deciding => b # a /\ step'[b] = step[b]
    BY <2>2 DEF TypeInv, TypeOK, Deciding
  <2>4. \A r \in Requests : \/ r # target[a] /\ status'[r] = status[r] /\ approved'[r] = approved[r]
                            \/ r = target[a] /\ status'[r] = "rejected"
    BY <2>2 DEF TypeInv, TypeOK
  <2>5. target[a] \notin contested => status[target[a]] = "pending"
    BY <2>2 DEF OutcomeInv
  <2>6. OneOutcome'
    BY <2>2, <2>4, <2>5 DEF OutcomeInv, OneOutcome, EventsOf
  <2>7. ASSUME NEW b \in Admins, NEW c \in Admins,
               step'[b] \in Deciding, target[b] \notin contested,
               step'[c] \in Deciding, target[c] = target[b]
        PROVE  status'[target[b]] = "pending" /\ c = b
    <3>1. status[target[b]] = "pending" /\ c = b /\ target[b] # target[a] /\ target[b] \in Requests
      BY <2>2, <2>3, <2>7 DEF OutcomeInv, TypeInv, Deciding
    <3>. QED
      BY <2>4, <3>1
  <2>. QED
    BY <2>2, <2>6, <2>7 DEF OutcomeInv
<1>. QED
  BY <1>1, <1>2, <1>3, <1>4, <1>5, <1>6, StepKinds


----------------------------------------------------------------------------
(* What the admins were told, or are about to be told. *)

Told(b) == {reply[b], step[b]}

AnswerInv ==
  \A b \in Admins :
    /\ "approved" \in Told(b) => Event(b) \in events
    /\ "declined" \in Told(b) =>
         /\ target[b] \in Requests
         /\ status[target[b]] = "rejected" \/ target[b] \in contested

LEMMA InitAnswer == Init => AnswerInv
BY DEF Init, AnswerInv, Told

\* A step that decides no request: what is told was told, and of the same request.
LEMMA AnswerKept ==
  ASSUME AnswerInv, events' = events, contested \subseteq contested',
         \A r \in Requests : status[r] = "rejected" => status'[r] = "rejected",
         \A b \in Admins :
           Told(b)' \cap {"approved", "declined"} # {} =>
             /\ Told(b)' \cap {"approved", "declined"} \subseteq Told(b)
             /\ target'[b] = target[b]
  PROVE  AnswerInv'
<1>1. ASSUME NEW b \in Admins, "approved" \in Told(b)' PROVE Event(b)' \in events'
  <2>1. "approved" \in Told(b) /\ target'[b] = target[b]
    BY <1>1
  <2>2. Event(b)' = Event(b)
    BY <2>1 DEF Event
  <2>. QED
    BY <2>1, <2>2 DEF AnswerInv
<1>2. ASSUME NEW b \in Admins, "declined" \in Told(b)'
      PROVE  /\ target'[b] \in Requests
             /\ status'[target'[b]] = "rejected" \/ target'[b] \in contested'
  <2>1. "declined" \in Told(b) /\ target'[b] = target[b]
    BY <1>2
  <2>. QED
    BY <2>1 DEF AnswerInv
<1>. QED
  BY <1>1, <1>2 DEF AnswerInv

LEMMA NextAnswer == TypeInv /\ OutcomeInv /\ AnswerInv /\ RequestsStep => AnswerInv'
<1>. SUFFICES ASSUME TypeInv, OutcomeInv, AnswerInv, RequestsStep PROVE AnswerInv'
  OBVIOUS
<1>1. CASE Quiet
  <2>1. \A b \in Admins : Told(b)' \cap {"approved", "declined"} \subseteq Told(b)
    BY <1>1 DEF Quiet, Told
  <2>2. UNCHANGED <<events, contested, status, target>>
    BY <1>1 DEF Quiet, tableVars
  <2>. QED
    BY <2>1, <2>2, AnswerKept
<1>2. ASSUME NEW r \in Requests, FileStep(r) PROVE AnswerInv'
  <2>1. /\ UNCHANGED <<events, step, reply, target, contested>>
        /\ status[r] = "unfiled" /\ \E st \in {"pending", "400", "500"} :
                                      status' = [status EXCEPT ![r] = st]
    BY <1>2 DEF FileStep, CreateEventRequest, adminVars
  <2>2. \A q \in Requests : status[q] = "rejected" => status'[q] = "rejected"
    BY <2>1 DEF TypeInv, TypeOK
  <2>3. \A b \in Admins : Told(b)' = Told(b)
    BY <2>1 DEF Told
  <2>. QED
    BY <2>1, <2>2, <2>3, AnswerKept
<1>3. ASSUME NEW a \in Admins, Look(a) PROVE AnswerInv'
  <2>1. /\ UNCHANGED <<tableVars, contested>>
        /\ step' = [step EXCEPT ![a] = "read"] /\ reply' = [reply EXCEPT ![a] = "none"]
        /\ \A b \in Admins \ {a} : target'[b] = target[b]
    BY <1>3, LookType
  <2>2. Told(a)' = {"none", "read"}
    BY <2>1 DEF Told, TypeInv, TypeOK
  <2>3. \A b \in Admins \ {a} : Told(b)' = Told(b)
    BY <2>1 DEF Told, TypeInv, TypeOK
  <2>4. UNCHANGED <<events, contested, status>>
    BY <2>1 DEF tableVars
  <2>. QED
    BY <2>1, <2>2, <2>3, <2>4, AnswerKept
<1>4. ASSUME NEW a \in Admins, Read(a) PROVE AnswerInv'
  <2>1. /\ step' = [step EXCEPT ![a] = "decide"]
        /\ UNCHANGED <<tableVars, target, reply>> /\ contested \subseteq contested'
    BY <1>4 DEF Read, Move
  <2>2. \A b \in Admins : Told(b)' \cap {"approved", "declined"} \subseteq Told(b)
    BY <2>1 DEF Told, TypeInv, TypeOK
  <2>3. UNCHANGED <<events, status>>
    BY <2>1 DEF tableVars
  <2>. QED
    BY <2>1, <2>2, <2>3, AnswerKept
<1>5. ASSUME NEW a \in Admins, CommitStep(a) PROVE AnswerInv'
  <2>1. /\ target[a] \in Requests
        /\ status' = [status EXCEPT ![target[a]] = "approved"]
        /\ events' = events \cup {Event(a)}
        /\ UNCHANGED <<target, contested, reply>>
        /\ step[a] \in Deciding
        /\ \E to \in {"approved", "failed"} : step' = [step EXCEPT ![a] = to]
    BY <1>5 DEF CommitStep, Committed, EventRow, UpdateEventRequestStatus, Deciding, TypeInv
  <2>2. \A b \in Admins : Event(b)' = Event(b)
    BY <2>1 DEF Event
  <2>3. \A b \in Admins : /\ "declined" \in Told(b)' => "declined" \in Told(b)
                          /\ "approved" \in Told(b)' => b = a \/ "approved" \in Told(b)
    BY <2>1 DEF Told, TypeInv, TypeOK
  <2>4. target[a] \notin contested => status[target[a]] = "pending"
    BY <2>1 DEF OutcomeInv
  <2>5. \A r \in Requests : r # target[a] => status'[r] = status[r]
    BY <2>1 DEF TypeInv, TypeOK
  <2>6. ASSUME NEW b \in Admins, "declined" \in Told(b)'
        PROVE  /\ target[b] \in Requests
               /\ status'[target[b]] = "rejected" \/ target[b] \in contested
    <3>1. /\ target[b] \in Requests
          /\ status[target[b]] = "rejected" \/ target[b] \in contested
      BY <2>3, <2>6 DEF AnswerInv
    <3>. QED
      BY <2>4, <2>5, <3>1
  <2>7. ASSUME NEW b \in Admins, "approved" \in Told(b)' PROVE Event(b) \in events'
    BY <2>1, <2>3, <2>7 DEF AnswerInv
  <2>. QED
    BY <2>1, <2>2, <2>6, <2>7 DEF AnswerInv
<1>6. ASSUME NEW a \in Admins, DeclineStep(a) PROVE AnswerInv'
  <2>1. /\ target[a] \in Requests
        /\ status' = [status EXCEPT ![target[a]] = "rejected"]
        /\ UNCHANGED <<events, target, contested, reply>>
        /\ \E to \in {"declined", "failed"} : step' = [step EXCEPT ![a] = to]
    BY <1>6 DEF DeclineStep, Declined, UpdateEventRequestStatus, TypeInv
  <2>2. \A b \in Admins : Event(b)' = Event(b)
    BY <2>1 DEF Event
  <2>3. \A b \in Admins : /\ "approved" \in Told(b)' => "approved" \in Told(b)
                          /\ "declined" \in Told(b)' => b = a \/ "declined" \in Told(b)
    BY <2>1 DEF Told, TypeInv, TypeOK
  <2>4. \A r \in Requests : status[r] = "rejected" \/ r = target[a] => status'[r] = "rejected"
    BY <2>1 DEF TypeInv, TypeOK
  <2>5. ASSUME NEW b \in Admins, "declined" \in Told(b)'
        PROVE  /\ target[b] \in Requests
               /\ status'[target[b]] = "rejected" \/ target[b] \in contested
    BY <2>1, <2>3, <2>4, <2>5 DEF AnswerInv
  <2>6. ASSUME NEW b \in Admins, "approved" \in Told(b)' PROVE Event(b) \in events
    BY <2>3, <2>6 DEF AnswerInv
  <2>. QED
    BY <2>1, <2>2, <2>5, <2>6 DEF AnswerInv
<1>. QED
  BY <1>1, <1>2, <1>3, <1>4, <1>5, <1>6, StepKinds

LEMMA AnswersShown == AnswerInv => AnswersHold
BY DEF AnswerInv, AnswersHold, Told

----------------------------------------------------------------------------
(* The pool.  balanceWorker counts once, so what it has still to do and what *)
(* is registered add up to MaxWorkers until it is done; and no container     *)
(* exists that it does not count, but for the one it is starting.            *)

Workers == Cardinality(Pool!Registered)

PoolInv ==
  /\ Pool!TypeOK
  /\ phase \in {"balance", "create"} => Pool!Exists = Pool!Registered
  /\ phase = "start" => /\ starting \in Containers \ Pool!Registered
                        /\ Pool!Exists = Pool!Registered \cup {starting}
  /\ phase \in {"create", "start"} => needed > 0 /\ Workers + needed = MaxWorkers
  /\ phase = "remove" => needed > 0 /\ Workers = MaxWorkers + needed
  /\ PoolBalanced

\* The operator that ContainerPool brings from FiniteSets is the operator of FiniteSets.
LEMMA PoolCardinality == ASSUME NEW S PROVE Pool!Cardinality(S) = Cardinality(S)
BY DEF Pool!Cardinality, Cardinality

LEMMA WorkersType == ASSUME NEW S \in SUBSET Containers
                     PROVE  IsFiniteSet(S) /\ Cardinality(S) \in Nat
BY ServerAssumption, FS_Subset, FS_CardinalityType

LEMMA RegisteredType == Pool!Registered \subseteq Containers /\ Workers \in Nat
BY WorkersType DEF Pool!Registered, Workers

LEMMA InitPool == Pool!Init => PoolInv
<1>. SUFFICES ASSUME Pool!Init PROVE PoolInv
  OBVIOUS
<1>1. Pool!TypeOK
  BY DEF Pool!Init, Pool!TypeOK, Pool!Empty, Pool!Phases
<1>. QED
  BY <1>1 DEF Pool!Init, PoolInv, PoolBalanced, Pool!PoolBalanced

LEMMA RegisterStep == ASSUME PoolInv, Pool!Register PROVE PoolInv'
<1>. USE DEF Pool!Register, Pool!Goto
<1>1. Pool!TypeOK'
  BY DEF PoolInv, Pool!TypeOK, Pool!Phases
<1>2. (Pool!Exists = Pool!Registered)'
  <2>1. \A c \in Containers : docker[c] # "absent" <=> pool'[c] # "none"
    OBVIOUS
  <2>. QED
    BY <2>1 DEF Pool!Exists, Pool!Registered
<1>. QED
  BY <1>1, <1>2 DEF PoolInv, PoolBalanced, Pool!PoolBalanced

LEMMA BalanceStep == ASSUME PoolInv, Pool!Balance PROVE PoolInv'
<1>1. /\ phase = "balance" /\ UNCHANGED <<docker, pool, starting, spoiled>>
      /\ \/ Workers < MaxWorkers /\ phase' = "create" /\ needed' = MaxWorkers - Workers
         \/ Workers > MaxWorkers /\ phase' = "remove" /\ needed' = Workers - MaxWorkers
         \/ Workers = MaxWorkers /\ phase' = "up" /\ needed' = needed
  BY PoolCardinality DEF Pool!Balance, Workers
<1>2. Workers \in Nat /\ MaxWorkers \in Nat
  BY RegisteredType, ServerAssumption
<1>3. UNCHANGED <<Pool!Exists, Pool!Registered, Workers>>
  BY <1>1 DEF Pool!Exists, Pool!Registered, Workers
<1>4. Pool!TypeOK'
  <2>1. needed' \in Nat
    BY <1>1, <1>2 DEF PoolInv, Pool!TypeOK
  <2>. QED
    BY <1>1, <2>1 DEF PoolInv, Pool!TypeOK, Pool!Phases
<1>5. Pool!Exists = Pool!Registered
  BY <1>1 DEF PoolInv
<1>6. CASE Workers < MaxWorkers /\ phase' = "create" /\ needed' = MaxWorkers - Workers
  BY <1>2, <1>3, <1>4, <1>5, <1>6 DEF PoolInv, PoolBalanced, Pool!PoolBalanced
<1>7. CASE Workers > MaxWorkers /\ phase' = "remove" /\ needed' = Workers - MaxWorkers
  BY <1>2, <1>3, <1>4, <1>7 DEF PoolInv, PoolBalanced, Pool!PoolBalanced
<1>8. CASE Workers = MaxWorkers /\ phase' = "up"
  BY <1>3, <1>4, <1>8, PoolCardinality DEF PoolInv, PoolBalanced, Pool!PoolBalanced, Workers
<1>. QED
  BY <1>1, <1>6, <1>7, <1>8

LEMMA CreateStep ==
  ASSUME PoolInv, NEW c \in Containers, Pool!Create(c)
  PROVE  PoolInv' /\ Cardinality(Pool!Exists') <= MaxWorkers
<1>. USE DEF Pool!Create, Pool!Goto
<1>1. Pool!TypeOK'
  BY DEF PoolInv, Pool!TypeOK, Pool!Phases
<1>2. c \notin Pool!Exists /\ Pool!Exists' = Pool!Exists \cup {c}
  BY DEF Pool!Exists, PoolInv, Pool!TypeOK
<1>3. UNCHANGED <<Pool!Registered, Workers, needed>>
  BY DEF Pool!Registered, Workers
<1>4. /\ Pool!Exists = Pool!Registered
      /\ needed > 0 /\ Workers + needed = MaxWorkers /\ needed \in Nat
  BY DEF PoolInv, Pool!TypeOK
<1>5. Cardinality(Pool!Exists') = Workers + 1
  BY <1>2, <1>4, RegisteredType, WorkersType, FS_AddElement DEF Workers
<1>6. Cardinality(Pool!Exists') <= MaxWorkers
  BY <1>4, <1>5, RegisteredType
<1>. QED
  BY <1>1, <1>2, <1>3, <1>4, <1>6 DEF PoolInv, PoolBalanced, Pool!PoolBalanced

LEMMA StartStep ==
  ASSUME PoolInv, Pool!Start PROVE PoolInv' /\ UNCHANGED Pool!Exists
<1>. USE DEF Pool!Start, Pool!Done
<1>1. /\ starting \in Containers \ Pool!Registered
      /\ Pool!Exists = Pool!Registered \cup {starting}
      /\ needed > 0 /\ Workers + needed = MaxWorkers /\ needed \in Nat
  BY DEF PoolInv, Pool!TypeOK
<1>2. needed - 1 \in Nat /\ (needed # 1 => needed - 1 > 0)
  BY <1>1
<1>3. Pool!TypeOK'
  BY <1>1, <1>2 DEF PoolInv, Pool!TypeOK, Pool!Phases
<1>4. Pool!Registered' = Pool!Registered \cup {starting}
  BY <1>1 DEF Pool!Registered, PoolInv, Pool!TypeOK
<1>5. UNCHANGED Pool!Exists
  BY <1>1 DEF Pool!Exists, PoolInv, Pool!TypeOK
<1>6. Workers' = Workers + 1
  BY <1>1, <1>4, RegisteredType, WorkersType, FS_AddElement DEF Workers
<1>7. Workers' + (needed - 1) = MaxWorkers
  BY <1>1, <1>6, RegisteredType, ServerAssumption
<1>8. CASE needed = 1
  <2>1. phase' = "up" /\ Workers' = MaxWorkers
    BY <1>7, <1>8, <1>6, RegisteredType
  <2>. QED
    BY <1>3, <1>5, <2>1, PoolCardinality
       DEF PoolInv, PoolBalanced, Pool!PoolBalanced, Workers
<1>9. CASE needed # 1
  <2>1. phase' = "create" /\ needed' = needed - 1
    BY <1>9
  <2>2. (Pool!Exists = Pool!Registered)'
    BY <1>1, <1>4, <1>5
  <2>. QED
    BY <1>2, <1>3, <1>5, <1>7, <1>9, <2>1, <2>2 DEF PoolInv, PoolBalanced, Pool!PoolBalanced
<1>. QED
  BY <1>8, <1>9

LEMMA RemoveStep ==
  ASSUME PoolInv, NEW c \in Containers, Pool!Remove(c)
  PROVE  PoolInv' /\ Pool!Exists' \subseteq Pool!Exists
<1>. USE DEF Pool!Remove, Pool!Done
<1>1. /\ c \in Pool!Registered
      /\ needed > 0 /\ Workers = MaxWorkers + needed /\ needed \in Nat
  BY DEF PoolInv, Pool!TypeOK
<1>2. needed - 1 \in Nat /\ (needed # 1 => needed - 1 > 0)
  BY <1>1
<1>3. Pool!TypeOK'
  BY <1>2 DEF PoolInv, Pool!TypeOK, Pool!Phases
<1>4. Pool!Registered' = Pool!Registered \ {c}
  BY DEF Pool!Registered, PoolInv, Pool!TypeOK
<1>5. Pool!Exists' \subseteq Pool!Exists
  BY DEF Pool!Exists, PoolInv, Pool!TypeOK
<1>6. Workers' = Workers - 1
  BY <1>1, <1>4, RegisteredType, WorkersType, FS_RemoveElement DEF Workers
<1>7. Workers' = MaxWorkers + (needed - 1)
  BY <1>1, <1>6, RegisteredType, ServerAssumption
<1>8. CASE needed = 1
  <2>1. phase' = "up" /\ Workers' = MaxWorkers
    BY <1>7, <1>8, ServerAssumption
  <2>. QED
    BY <1>3, <1>5, <2>1, PoolCardinality
       DEF PoolInv, PoolBalanced, Pool!PoolBalanced, Workers
<1>9. CASE needed # 1
  <2>1. phase' = "remove" /\ needed' = needed - 1
    BY <1>9
  <2>. QED
    BY <1>2, <1>3, <1>5, <1>7, <2>1 DEF PoolInv, PoolBalanced, Pool!PoolBalanced
<1>. QED
  BY <1>8, <1>9

LEMMA FailStep ==
  ASSUME PoolInv, Pool!BalanceFails
  PROVE  /\ PoolInv'
         /\ Pool!Exists' \subseteq Pool!Exists \/ Cardinality(Pool!Exists') <= MaxWorkers
<1>. USE DEF Pool!BalanceFails
<1>1. phase' = "up" /\ spoiled' = TRUE /\ pool' = pool /\ needed' = 0 /\ starting' = None
  OBVIOUS
<1>2. /\ docker' \in [Containers -> {"absent", "created", "running", "exited"}]
      /\ Pool!Exists' \subseteq Pool!Exists \/ Cardinality(Pool!Exists') <= MaxWorkers
  <2>1. docker \in [Containers -> {"absent", "created", "running", "exited"}]
    BY DEF PoolInv, Pool!TypeOK
  <2>2. CASE docker' = docker
    BY <2>1, <2>2 DEF Pool!Exists
  <2>3. ASSUME NEW c \in Containers \ Pool!Exists, phase = "create",
               docker' = [docker EXCEPT ![c] = "created"]
        PROVE  /\ docker' \in [Containers -> {"absent", "created", "running", "exited"}]
               /\ Cardinality(Pool!Exists') <= MaxWorkers
    <3>1. Pool!Exists' = Pool!Exists \cup {c}
      BY <2>1, <2>3 DEF Pool!Exists
    <3>2. /\ Pool!Exists = Pool!Registered
          /\ needed > 0 /\ Workers + needed = MaxWorkers /\ needed \in Nat
      BY <2>3 DEF PoolInv, Pool!TypeOK
    <3>3. Cardinality(Pool!Exists') = Workers + 1
      BY <2>3, <3>1, <3>2, RegisteredType, WorkersType, FS_AddElement DEF Workers
    <3>. QED
      BY <2>1, <2>3, <3>2, <3>3, RegisteredType
  <2>4. ASSUME phase = "start", docker' = [docker EXCEPT ![starting] = "running"]
        PROVE  /\ docker' \in [Containers -> {"absent", "created", "running", "exited"}]
               /\ Pool!Exists' \subseteq Pool!Exists
    <3>1. starting \in Pool!Exists
      BY <2>4 DEF PoolInv
    <3>. QED
      BY <2>1, <2>4, <3>1 DEF Pool!Exists
  <2>5. ASSUME NEW c \in Pool!Registered, docker' = [docker EXCEPT ![c] = "absent"]
        PROVE  /\ docker' \in [Containers -> {"absent", "created", "running", "exited"}]
               /\ Pool!Exists' \subseteq Pool!Exists
    BY <2>1, <2>5 DEF Pool!Exists
  <2>6. docker' \in {docker} \cup Pool!Effects
    OBVIOUS
  <2>7. CASE docker' \in {[docker EXCEPT ![c] = "created"] :
                            c \in {d \in Containers \ Pool!Exists : phase = "create"}}
    BY <2>3, <2>7
  <2>8. CASE docker' \in {[docker EXCEPT ![c] = "running"] :
                            c \in {d \in {starting} : phase = "start"}}
    BY <2>4, <2>8
  <2>9. CASE docker' \in {[docker EXCEPT ![c] = "absent"] :
                            c \in {d \in Pool!Registered : phase = "remove"}}
    BY <2>5, <2>9
  <2>. QED
    BY <2>2, <2>6, <2>7, <2>8, <2>9 DEF Pool!Effects
<1>3. Pool!TypeOK'
  BY <1>1, <1>2 DEF PoolInv, Pool!TypeOK, Pool!Phases
<1>. QED
  BY <1>1, <1>2, <1>3 DEF PoolInv, PoolBalanced, Pool!PoolBalanced

\* The steps that only move the server from one phase to another.
LEMMA PhaseStep ==
  ASSUME PoolInv,
         \/ Pool!Boot \/ Pool!ListFails \/ Pool!Crash \/ Pool!Signal \/ Pool!Stop
         \/ UNCHANGED poolVars
  PROVE  PoolInv' /\ UNCHANGED docker
<1>. USE DEF PoolInv, PoolBalanced, Pool!PoolBalanced, Pool!TypeOK, Pool!Phases, Pool!Goto
<1>1. CASE Pool!Boot \/ Pool!ListFails
  BY <1>1 DEF Pool!Boot, Pool!ListFails
<1>2. CASE Pool!Crash \/ Pool!Stop
  BY <1>2 DEF Pool!Crash, Pool!Stop, Pool!Forget, Pool!Empty
<1>3. CASE Pool!Signal
  <2>1. UNCHANGED Pool!Registered
    BY <1>3 DEF Pool!Signal, Pool!Registered
  <2>. QED
    BY <1>3, <2>1 DEF Pool!Signal
<1>4. CASE UNCHANGED poolVars
  <2>1. UNCHANGED <<Pool!Registered, Pool!Exists, Workers>>
    BY <1>4 DEF poolVars, Pool!Registered, Pool!Exists, Workers
  <2>. QED
    BY <1>4, <2>1 DEF poolVars
<1>. QED
  BY <1>1, <1>2, <1>3, <1>4

LEMMA ExitStep ==
  ASSUME PoolInv, NEW c \in Containers, Pool!Exit(c)
  PROVE  PoolInv' /\ UNCHANGED Pool!Exists
<1>1. UNCHANGED Pool!Exists
  BY DEF Pool!Exit, Pool!Exists, PoolInv, Pool!TypeOK
<1>. QED
  BY <1>1 DEF Pool!Exit, PoolInv, PoolBalanced, Pool!PoolBalanced, Pool!TypeOK, Pool!Phases

LEMMA NextPool ==
  ASSUME PoolInv, PoolStep
  PROVE  /\ PoolInv'
         /\ Cardinality(Pool!Exists') > Cardinality(Pool!Exists)
              => Cardinality(Pool!Exists') <= MaxWorkers
<1>1. Pool!Exists \subseteq Containers
  BY DEF Pool!Exists
<1>2. Cardinality(Pool!Exists) \in Nat /\ IsFiniteSet(Pool!Exists)
  BY <1>1, WorkersType
<1>3. Pool!Exists' \subseteq Pool!Exists =>
        ~(Cardinality(Pool!Exists') > Cardinality(Pool!Exists))
  <2>. SUFFICES ASSUME Pool!Exists' \subseteq Pool!Exists
                PROVE  ~(Cardinality(Pool!Exists') > Cardinality(Pool!Exists))
    OBVIOUS
  <2>1. /\ Cardinality(Pool!Exists') <= Cardinality(Pool!Exists)
        /\ Cardinality(Pool!Exists') \in Nat
    BY <1>2, FS_Subset, FS_CardinalityType
  <2>. QED
    BY <1>2, <2>1
<1>4. UNCHANGED docker => UNCHANGED Pool!Exists
  BY DEF Pool!Exists
<1>5. CASE Pool!Starting
  <2>1. CASE Pool!Register
    <3>1. PoolInv' /\ UNCHANGED Pool!Exists
      BY <2>1, <1>4, RegisterStep DEF Pool!Register
    <3>. QED
      BY <1>3, <3>1
  <2>2. CASE Pool!Balance
    <3>1. PoolInv' /\ UNCHANGED Pool!Exists
      BY <2>2, <1>4, BalanceStep DEF Pool!Balance
    <3>. QED
      BY <1>3, <3>1
  <2>3. CASE Pool!Start
    BY <1>3, <2>3, StartStep
  <2>4. ASSUME NEW c \in Containers, Pool!Create(c) \/ Pool!Remove(c)
        PROVE  /\ PoolInv'
               /\ Pool!Exists' \subseteq Pool!Exists \/ Cardinality(Pool!Exists') <= MaxWorkers
    BY <2>4, CreateStep, RemoveStep
  <2>. QED
    BY <1>3, <1>5, <2>1, <2>2, <2>3, <2>4 DEF Pool!Starting
<1>6. CASE Pool!BalanceFails
  BY <1>3, <1>6, FailStep
<1>7. CASE \E c \in Containers : Pool!Exit(c)
  BY <1>3, <1>7, ExitStep
<1>8. CASE \/ Pool!Boot \/ Pool!ListFails \/ Pool!Crash \/ Pool!Signal \/ Pool!Stop
           \/ UNCHANGED poolVars
  <2>1. PoolInv' /\ UNCHANGED Pool!Exists
    BY <1>4, <1>8, PhaseStep
  <2>. QED
    BY <1>3, <2>1
<1>. QED
  BY <1>5, <1>6, <1>7, <1>8 DEF PoolStep

----------------------------------------------------------------------------
(* The inductive invariant, and what it implies. *)

ProcessType == streams \in BOOLEAN /\ stops \in Nat /\ scenario \in Scenarios

IInv == TypeInv /\ CompleteInv /\ OutcomeInv /\ AnswerInv /\ PoolInv /\ ProcessType

LEMMA NextProcess == ProcessType /\ [ServerNext]_serverVars => ProcessType'
<1>. SUFFICES ASSUME ProcessType, [ServerNext]_serverVars PROVE ProcessType'
  OBVIOUS
<1>. USE DEF ProcessType, OneStop, Killed, processVars, Serving
<1>1. UNCHANGED scenario
  BY ServerStep
<1>2. CASE Starting
  BY <1>2 DEF Starting
<1>3. CASE StartFails
  BY <1>1, <1>3 DEF StartFails
<1>4. CASE BalanceFails
  BY <1>4 DEF BalanceFails
<1>5. CASE ContainerExits
  BY <1>5 DEF ContainerExits
<1>6. ASSUME NEW a \in Admins, ListPending(a) \/ Request(a) \/ Handle(a) PROVE ProcessType'
  BY <1>6 DEF ListPending, Request, Handle
<1>7. CASE FileRequest
  BY <1>7 DEF FileRequest
<1>8. CASE OpenStream \/ EndStream
  BY <1>8 DEF OpenStream, EndStream
<1>9. CASE Crash
  <2>1. streams' = FALSE
    BY <1>9 DEF Crash
  <2>2. OneStop
    BY <1>9 DEF Crash
  <2>3. stops' \in Nat
    BY <2>2
  <2>. QED
    BY <1>1, <2>1, <2>3
<1>10. CASE Signal
  BY <1>1, <1>10 DEF Signal
<1>11. CASE StopCleanly \/ StopTimesOut
  BY <1>11 DEF StopCleanly, StopTimesOut
<1>12. CASE UNCHANGED serverVars
  BY <1>12 DEF serverVars
<1>. QED
  BY <1>2, <1>3, <1>4, <1>5, <1>6, <1>7, <1>8, <1>9, <1>10, <1>11, <1>12 DEF ServerNext

\* Everything above holds in every state the server can be in.
THEOREM Inductive == ServerSpec => []IInv
<1>1. ServerInit => IInv
  <2>. SUFFICES ASSUME ServerInit PROVE IInv
    OBVIOUS
  <2>1. Init /\ Pool!Init /\ scenario \in Scenarios
    BY DEF ServerInit
  <2>2. ProcessType
    BY DEF ServerInit, ProcessType
  <2>. QED
    BY <2>1, <2>2, InitTypeInv, InitComplete, InitOutcome, InitAnswer, InitPool DEF IInv
<1>2. IInv /\ [ServerNext]_serverVars => IInv'
  <2>. SUFFICES ASSUME IInv, [ServerNext]_serverVars PROVE IInv'
    OBVIOUS
  <2>1. RequestsStep /\ PoolStep
    BY ServerStep DEF IInv, ProcessType
  <2>2. TypeInv' /\ CompleteInv' /\ OutcomeInv' /\ AnswerInv'
    BY <2>1, NextTypeInv, NextComplete, NextOutcome, NextAnswer DEF IInv
  <2>3. PoolInv' /\ ProcessType'
    BY <2>1, NextPool, NextProcess DEF IInv
  <2>. QED
    BY <2>2, <2>3 DEF IInv
<1>. QED
  BY <1>1, <1>2, PTL DEF ServerSpec

\* Type correctness of the server, its pool and the requests it serves.
THEOREM ServerTypeCorrect == ServerSpec => []ServerTypeOK
<1>1. IInv => ServerTypeOK
  BY DEF IInv, TypeInv, PoolInv, ProcessType, ServerTypeOK
<1>. QED
  BY <1>1, Inductive, PTL

\* An event that can be seen has all its rooms and its guild (events.go:442-503),
\* wherever the transaction that created it or the server was cut short.
THEOREM EventsCompleteCorrect == ServerSpec => []EventsComplete
<1>1. IInv => EventsComplete
  BY DEF IInv, CompleteInv
<1>. QED
  BY <1>1, Inductive, PTL

\* A guild is shown an event exactly with an approved request, and it is complete
\* (events.go:492-512).
THEOREM GuildSeesItsEventCorrect == ServerSpec => []GuildSeesItsEvent
<1>1. IInv => GuildSeesItsEvent
  BY CompleteShown DEF IInv
<1>. QED
  BY <1>1, Inductive, PTL

\* A request that no two handlers processed at once has one outcome (events.go:398).
THEOREM OneOutcomeCorrect == ServerSpec => []OneOutcome
<1>1. IInv => OneOutcome
  BY DEF IInv, OutcomeInv
<1>. QED
  BY <1>1, Inductive, PTL

\* What an admin was told is what became of the request (events.go:417-429).
THEOREM AnswersHoldCorrect == ServerSpec => []AnswersHold
<1>1. IInv => AnswersHold
  BY AnswersShown DEF IInv
<1>. QED
  BY <1>1, Inductive, PTL

\* A start in which no call of Docker failed ends with MaxWorkers registered containers
\* (container_manager.go:263).
THEOREM PoolBalancedCorrect == ServerSpec => []PoolBalanced
<1>1. IInv => PoolBalanced
  BY DEF IInv, PoolInv
<1>. QED
  BY <1>1, Inductive, PTL

\* No start creates a container beyond MaxWorkers (container_manager.go:264-277),
\* however many starts were cut short before it.
THEOREM NeverOverfullCorrect == ServerSpec => NeverOverfull
<1>1. IInv /\ [ServerNext]_serverVars =>
        [Cardinality(Pool!Exists') > Cardinality(Pool!Exists)
           => Cardinality(Pool!Exists') <= MaxWorkers]_serverVars
  BY ServerStep, NextPool DEF IInv, ProcessType
<1>. QED
  BY <1>1, Inductive, PTL DEF ServerSpec, NeverOverfull
----------------------------------------------------------------------------
(* The handlers are a ledger of decisions.  What can be seen of an event is  *)
(* the whole of it, so a commit publishes it at once; and a decision that    *)
(* replaces another one is of a contested request.                           *)

\* Only the guild of its request takes part in an event.
GuildInv == \A x \in participants : x[2] = Guild[x[1][1]]

LEMMA InitGuild == Init => GuildInv
BY DEF Init, GuildInv

LEMMA NextGuild == TypeInv /\ GuildInv /\ RequestsStep => GuildInv'
<1>. SUFFICES ASSUME TypeInv, GuildInv, RequestsStep PROVE GuildInv'
  OBVIOUS
<1>1. ASSUME UNCHANGED participants PROVE GuildInv'
  BY <1>1 DEF GuildInv
<1>2. CASE Quiet
  BY <1>1, <1>2 DEF Quiet, tableVars
<1>3. ASSUME NEW r \in Requests, FileStep(r) PROVE GuildInv'
  BY <1>1, <1>3 DEF FileStep
<1>4. ASSUME NEW a \in Admins, Look(a) \/ Read(a) \/ DeclineStep(a) PROVE GuildInv'
  BY <1>1, <1>4 DEF Look, Own, Read, DeclineStep, Declined, tableVars
<1>5. ASSUME NEW a \in Admins, CommitStep(a) PROVE GuildInv'
  <2>1. participants' = participants \cup {<<Event(a), Guild[target[a]]>>}
    BY <1>5 DEF CommitStep, Committed, ParticipantRow
  <2>2. Event(a)[1] = target[a]
    BY <1>5, EventIsNew DEF CommitStep
  <2>. QED
    BY <2>1, <2>2 DEF GuildInv
<1>. QED
  BY <1>2, <1>3, <1>4, <1>5, StepKinds

\* What is seen of an event that exists.
LEMMA ShownWhole ==
  ASSUME TypeInv, CompleteInv, GuildInv, NEW e \in events
  PROVE  /\ Shown(e) = [event |-> e, rooms |-> Rooms[e[1]], guilds |-> {Guild[e[1]]}]
         /\ e \in Requests \X Admins
<1>1. e \in Requests \X Admins
  BY DEF TypeInv, TypeOK
<1>2. GetEventRooms(e) = Rooms[e[1]] /\ <<e, Guild[e[1]]>> \in participants
  BY DEF CompleteInv, EventsComplete
<1>3. {g \in Guilds : <<e, g>> \in participants} = {Guild[e[1]]}
  <2>1. Guild[e[1]] \in Guilds
    BY <1>1 DEF Guilds
  <2>2. ASSUME NEW g, <<e, g>> \in participants PROVE g = Guild[e[1]]
    BY <2>2 DEF GuildInv
  <2>. QED
    BY <1>2, <2>1, <2>2
<1>. QED
  BY <1>1, <1>2, <1>3 DEF Shown

LEMMA CommitPublishes ==
  ASSUME TypeInv, CompleteInv, GuildInv, TypeInv', CompleteInv', GuildInv',
         NEW a \in Admins, CommitStep(a)
  PROVE  {Shown(e) : e \in events}' = {Shown(e) : e \in events} \cup {Ledger!Whole(target[a], a)}
<1>. DEFINE Image(e) == [event |-> e, rooms |-> Rooms[e[1]], guilds |-> {Guild[e[1]]}]
<1>1. \A e \in events : Shown(e) = Image(e)
  BY ShownWhole
<1>2. \A e \in events' : Shown(e)' = Image(e)
  <2>. SUFFICES ASSUME NEW e, e \in events' PROVE Shown(e)' = Image(e)
    OBVIOUS
  <2>1. e \in (Requests \X Admins)
    BY DEF TypeInv, TypeOK
  <2>2. GetEventRooms(e)' = Rooms[e[1]] /\ <<e, Guild[e[1]]>> \in participants'
    BY DEF CompleteInv, EventsComplete
  <2>3. {g \in Guilds : <<e, g>> \in participants'} = {Guild[e[1]]}
    <3>1. Guild[e[1]] \in Guilds
      BY <2>1 DEF Guilds
    <3>2. ASSUME NEW g, <<e, g>> \in participants' PROVE g = Guild[e[1]]
      BY <3>2 DEF GuildInv
    <3>. QED
      BY <2>2, <3>1, <3>2
  <2>. QED
    BY <2>2, <2>3 DEF Shown
<1>3. events' = events \cup {Event(a)}
  BY DEF CommitStep, Committed, EventRow
<1>4. Image(Event(a)) = Ledger!Whole(target[a], a)
  BY DEF Event, Ledger!Whole
<1>. HIDE DEF Image
<1>5. {Shown(e) : e \in events}' = {Image(e) : e \in events'}
  BY <1>2
<1>6. {Shown(e) : e \in events} = {Image(e) : e \in events}
  BY <1>1
<1>. QED
  BY <1>3, <1>4, <1>5, <1>6

LEMMA NextLedger ==
  /\ TypeInv /\ CompleteInv /\ OutcomeInv /\ GuildInv
  /\ TypeInv' /\ CompleteInv' /\ GuildInv'
  /\ RequestsStep
  => [Ledger!Next]_(Ledger!vars)
<1>. SUFFICES ASSUME TypeInv, CompleteInv, OutcomeInv, GuildInv,
                     TypeInv', CompleteInv', GuildInv', RequestsStep
              PROVE  [Ledger!Next]_(Ledger!vars)
  OBVIOUS
<1>1. ASSUME UNCHANGED <<events, rooms, participants>>
      PROVE  {Shown(e) : e \in events}' = {Shown(e) : e \in events}
  BY <1>1 DEF Shown, GetEventRooms
<1>2. CASE Quiet
  <2>1. UNCHANGED <<status, approved, contested, events, rooms, participants>>
    BY <1>2 DEF Quiet, tableVars
  <2>. QED
    BY <1>1, <2>1 DEF Ledger!vars
<1>3. ASSUME NEW r \in Requests, FileStep(r) PROVE Ledger!File(r)
  <2>1. /\ status[r] = "unfiled"
        /\ \E st \in {"pending", "400", "500"} : status' = [status EXCEPT ![r] = st]
        /\ UNCHANGED <<approved, contested, events, rooms, participants>>
    BY <1>3 DEF FileStep, CreateEventRequest
  <2>. QED
    BY <1>1, <2>1 DEF Ledger!File
<1>4. ASSUME NEW a \in Admins, Look(a) PROVE UNCHANGED Ledger!vars
  <2>1. UNCHANGED <<status, approved, contested, events, rooms, participants>>
    BY <1>4 DEF Look, Own, tableVars
  <2>. QED
    BY <1>1, <2>1 DEF Ledger!vars
<1>5. ASSUME NEW a \in Admins, Read(a) PROVE Ledger!Contest(target[a]) \/ UNCHANGED Ledger!vars
  <2>1. /\ status[target[a]] = "pending"
        /\ contested' = contested \/ contested' = contested \cup {target[a]}
        /\ UNCHANGED <<status, approved, events, rooms, participants>>
    BY <1>5 DEF Read, tableVars
  <2>. QED
    BY <1>1, <2>1 DEF Ledger!vars, Ledger!Contest
<1>6. ASSUME NEW a \in Admins, step[a] \in Deciding PROVE Ledger!Undecided(target[a])
  BY <1>6 DEF OutcomeInv, Ledger!Undecided
<1>7. ASSUME NEW a \in Admins, CommitStep(a) PROVE Ledger!Approve(target[a], a)
  <2>1. /\ step[a] \in Deciding
        /\ status' = [status EXCEPT ![target[a]] = "approved"]
        /\ approved' = [approved EXCEPT ![target[a]] = <<target[a], a>>]
        /\ UNCHANGED contested
    BY <1>7 DEF CommitStep, Committed, UpdateEventRequestStatus, Event, Deciding
  <2>. QED
    BY <1>6, <1>7, <2>1, CommitPublishes DEF Ledger!Approve
<1>8. ASSUME NEW a \in Admins, DeclineStep(a) PROVE Ledger!Decline(target[a])
  <2>1. /\ step[a] \in Deciding
        /\ status' = [status EXCEPT ![target[a]] = "rejected"]
        /\ approved' = [approved EXCEPT ![target[a]] = None]
        /\ UNCHANGED <<events, rooms, participants, contested>>
    BY <1>8 DEF DeclineStep, Declined, UpdateEventRequestStatus, Deciding
  <2>. QED
    BY <1>1, <1>6, <2>1 DEF Ledger!Decline
<1>9. \A a \in Admins : step[a] # "away" => target[a] \in Requests
  BY DEF TypeInv
<1>10. \A a \in Admins : Read(a) \/ CommitStep(a) \/ DeclineStep(a) => target[a] \in Requests
  BY <1>9 DEF Read, Move, CommitStep, DeclineStep
<1>. QED
  BY <1>2, <1>3, <1>4, <1>5, <1>7, <1>8, <1>10, StepKinds DEF Ledger!Next

\* ProcessEventRequestHandler and CreateEventHandler (events.go:398, 442-503): whatever
\* fails and whenever the server goes down, the tables are a ledger: an approval and its
\* whole event appear in one step or not at all, and only a request that two handlers
\* processed at once is decided again.
THEOREM LedgerImplemented == ServerSpec => DecidedAtOnce
<1>1. ServerInit => GuildInv /\ Ledger!Init
  BY InitGuild DEF ServerInit, Init, Ledger!Init
<1>2. IInv /\ GuildInv /\ [ServerNext]_serverVars => GuildInv'
  BY ServerStep, NextGuild DEF IInv, ProcessType
<1>3. ServerSpec => []GuildInv
  BY <1>1, <1>2, Inductive, PTL DEF ServerSpec
<1>4. IInv /\ IInv' /\ GuildInv /\ GuildInv' /\ [ServerNext]_serverVars
        => [Ledger!Next]_(Ledger!vars)
  BY ServerStep, NextLedger DEF IInv, ProcessType
<1>. QED
  BY <1>1, <1>3, <1>4, Inductive, PTL DEF ServerSpec, DecidedAtOnce, Ledger!Spec
=============================================================================
