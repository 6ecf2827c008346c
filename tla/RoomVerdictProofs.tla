------------------------- MODULE RoomVerdictProofs -------------------------
(***************************************************************************)
(* Theorems about the verdicts and the points of one room, and about the   *)
(* players who left it, for every set of players, connections,             *)
(* submissions and loops and every capacity.                               *)
(*                                                                         *)
(* The argument about verdicts and points rests on CarrierInv: a           *)
(* submission that is queued or being judged travels in one event, which   *)
(* is in the channel or with one loop.  A verdict is thus computed and     *)
(* stored once, and points are given once.                                 *)
(***************************************************************************)
EXTENDS RoomHubProofs

----------------------------------------------------------------------------
(* One event per submission. *)

\* Loop l serves an event about a submission.
Carries(l) == pc[l] # "receive" /\ msg[l].sub # None

\* Events about solutions name a submission and its author, and results a verdict.
WellFormed(e) ==
  IF e.kind \in {"SolutionSubmitted", "SolutionResult"}
  THEN /\ e.sub \in Subs
       /\ e.player = Author[e.sub]
       /\ e.kind = "SolutionResult" => e.status \in Verdicts
  ELSE e.sub = None

\* The steps of each handler are taken for events of its kind, and only an
\* accepted solution gets past reject.
Handles(l) ==
  /\ pc[l] \in {"find", "insert"} => msg[l].kind = "PlayerJoined"
  /\ pc[l] = "remove" => msg[l].kind = "PlayerLeft"
  /\ pc[l] \in {"prepare", "execute", "reply"} <=> msg[l].kind = "SolutionSubmitted"
  /\ pc[l] = "reply" => msg[l].status \in Verdicts
  /\ pc[l] \in {"credit", "notify", "accept", "reject"} => msg[l].kind = "SolutionResult"
  /\ msg[l].kind = "SolutionResult" /\ pc[l] # "reject" => msg[l].status = "Accepted"

QueueFormed ==
  \A i \in 1..Len(queue) :
    /\ WellFormed(queue[i])
    /\ queue[i].sub # None =>
         status[queue[i].sub] = IF queue[i].kind = "SolutionSubmitted" THEN "queued" ELSE "pending"

LoopFormed ==
  \A l \in Loops : pc[l] # "receive" =>
    /\ WellFormed(msg[l])
    /\ Handles(l)
    /\ msg[l].sub # None => status[msg[l].sub] = IF pc[l] = "prepare" THEN "queued" ELSE "pending"

OneCarrier ==
  /\ \A i, j \in 1..Len(queue) : queue[i].sub # None /\ queue[i].sub = queue[j].sub => i = j
  /\ \A l, m \in Loops : Carries(l) /\ Carries(m) /\ msg[l].sub = msg[m].sub => l = m
  /\ \A l \in Loops, i \in 1..Len(queue) : Carries(l) => msg[l].sub # queue[i].sub

CarrierInv == QueueFormed /\ LoopFormed /\ OneCarrier

LEMMA CarrierInit == Init => CarrierInv
BY DEF Init, CarrierInv, QueueFormed, LoopFormed, OneCarrier, Carries

\* Loop l goes on with its event: nobody else holds the submission it stores.
LEMMA GoOnStep ==
  ASSUME TypeOK, CarrierInv, NEW l \in Loops, NEW to \in Labels,
         pc[l] # "receive", to # "receive", pc' = [pc EXCEPT ![l] = to],
         \A m \in Loops \ {l} : msg'[m] = msg[m],
         msg'[l].sub = msg[l].sub, WellFormed(msg'[l]), Handles(l)',
         queue' = queue,
         \A s \in Subs : s # msg[l].sub => status'[s] = status[s],
         msg[l].sub # None => status'[msg[l].sub] = IF to = "prepare" THEN "queued" ELSE "pending"
  PROVE  CarrierInv'
<1>1. pc'[l] = to /\ \A m \in Loops \ {l} : pc'[m] = pc[m]
  BY DEF TypeOK
<1>2. \A m \in Loops : Carries(m)' <=> Carries(m)
  BY <1>1 DEF Carries
<1>3. \A m \in Loops : msg'[m].sub = msg[m].sub
  OBVIOUS
<1>4. OneCarrier'
  BY <1>2, <1>3 DEF CarrierInv, OneCarrier
<1>5. QueueFormed'
  <2>1. ASSUME NEW i \in 1..Len(queue), queue[i].sub # None
        PROVE  status'[queue[i].sub] = status[queue[i].sub]
    <3>1. queue[i].sub \in Subs
      BY <2>1 DEF CarrierInv, QueueFormed, WellFormed
    <3>2. queue[i].sub # msg[l].sub
      BY <2>1 DEF CarrierInv, OneCarrier, Carries
    <3> QED BY <3>1, <3>2
  <2> QED BY <2>1 DEF CarrierInv, QueueFormed, WellFormed
<1>6. LoopFormed'
  <2>1. ASSUME NEW m \in Loops, m # l, pc[m] # "receive", msg[m].sub # None
        PROVE  status'[msg[m].sub] = status[msg[m].sub]
    <3>1. msg[m].sub \in Subs
      BY <2>1 DEF CarrierInv, LoopFormed, WellFormed
    <3>2. msg[m].sub # msg[l].sub
      BY <2>1 DEF CarrierInv, OneCarrier, Carries
    <3> QED BY <3>1, <3>2
  <2>2. ASSUME NEW m \in Loops, m # l, pc'[m] # "receive"
        PROVE  /\ WellFormed(msg'[m])
               /\ Handles(m)'
               /\ msg'[m].sub # None =>
                    status'[msg'[m].sub] = IF pc'[m] = "prepare" THEN "queued" ELSE "pending"
    BY <1>1, <2>1, <2>2 DEF CarrierInv, LoopFormed, Handles
  <2> QED BY <1>1, <2>2 DEF LoopFormed, WellFormed
<1> QED BY <1>4, <1>5, <1>6 DEF CarrierInv

\* Loop l is done with its event, whatever it has stored for the submission.
LEMMA DoneStep ==
  ASSUME TypeOK, CarrierInv, NEW l \in Loops,
         pc[l] # "receive", pc' = [pc EXCEPT ![l] = "receive"],
         msg' = [msg EXCEPT ![l] = None],
         queue' = queue,
         \A s \in Subs : s # msg[l].sub => status'[s] = status[s]
  PROVE  CarrierInv'
<1>1. pc'[l] = "receive" /\ \A m \in Loops \ {l} : pc'[m] = pc[m] /\ msg'[m] = msg[m]
  BY DEF TypeOK
<1>2. \A m \in Loops : Carries(m)' => m # l /\ Carries(m) /\ msg'[m] = msg[m]
  BY <1>1 DEF Carries
<1>4. OneCarrier'
  BY <1>2 DEF CarrierInv, OneCarrier
<1>5. QueueFormed'
  <2>1. ASSUME NEW i \in 1..Len(queue), queue[i].sub # None
        PROVE  status'[queue[i].sub] = status[queue[i].sub]
    <3>1. queue[i].sub \in Subs
      BY <2>1 DEF CarrierInv, QueueFormed, WellFormed
    <3>2. queue[i].sub # msg[l].sub
      BY <2>1 DEF CarrierInv, OneCarrier, Carries
    <3> QED BY <3>1, <3>2
  <2> QED BY <2>1 DEF CarrierInv, QueueFormed, WellFormed
<1>6. LoopFormed'
  <2>1. ASSUME NEW m \in Loops, m # l, pc[m] # "receive", msg[m].sub # None
        PROVE  status'[msg[m].sub] = status[msg[m].sub]
    <3>1. msg[m].sub \in Subs
      BY <2>1 DEF CarrierInv, LoopFormed, WellFormed
    <3>2. msg[m].sub # msg[l].sub
      BY <2>1 DEF CarrierInv, OneCarrier, Carries
    <3> QED BY <3>1, <3>2
  <2>2. ASSUME NEW m \in Loops, m # l, pc'[m] # "receive"
        PROVE  /\ WellFormed(msg'[m])
               /\ Handles(m)'
               /\ msg'[m].sub # None =>
                    status'[msg'[m].sub] = IF pc'[m] = "prepare" THEN "queued" ELSE "pending"
    BY <1>1, <2>1, <2>2 DEF CarrierInv, LoopFormed, Handles
  <2> QED BY <1>1, <2>2 DEF LoopFormed, WellFormed
<1> QED BY <1>4, <1>5, <1>6 DEF CarrierInv

\* A handler puts an event on the channel; the submission in it, if any, was
\* carried by nobody.
LEMMA SendStep ==
  ASSUME TypeOK, CarrierInv, NEW e \in Event, WellFormed(e),
         queue' = Append(queue, e), UNCHANGED <<pc, msg>>,
         \A s \in Subs : s # e.sub => status'[s] = status[s],
         e.sub # None =>
           /\ status'[e.sub] = IF e.kind = "SolutionSubmitted" THEN "queued" ELSE "pending"
           /\ \A i \in 1..Len(queue) : queue[i].sub # e.sub
           /\ \A l \in Loops : Carries(l) => msg[l].sub # e.sub
  PROVE  CarrierInv'
<1>1. /\ Len(queue') = Len(queue) + 1
      /\ queue'[Len(queue) + 1] = e
      /\ \A i \in 1..Len(queue) : queue'[i] = queue[i]
      /\ Len(queue) \in Nat
  BY DEF TypeOK
<1>2. \A i \in 1..Len(queue') : i \in 1..Len(queue) \/ i = Len(queue) + 1
  BY <1>1
<1>3. QueueFormed'
  <2>1. ASSUME NEW i \in 1..Len(queue), queue[i].sub # None
        PROVE  status'[queue[i].sub] = status[queue[i].sub]
    BY <2>1 DEF CarrierInv, QueueFormed, WellFormed
  <2>2. ASSUME NEW i \in 1..Len(queue')
        PROVE  /\ WellFormed(queue'[i])
               /\ queue'[i].sub # None =>
                    status'[queue'[i].sub] =
                      IF queue'[i].kind = "SolutionSubmitted" THEN "queued" ELSE "pending"
    <3>1. CASE i \in 1..Len(queue)
      BY <1>1, <2>1, <3>1 DEF CarrierInv, QueueFormed
    <3>2. CASE i = Len(queue) + 1
      BY <1>1, <3>2
    <3> QED BY <1>2, <3>1, <3>2
  <2> QED BY <2>2 DEF QueueFormed, WellFormed
<1>4. LoopFormed'
  <2>1. ASSUME NEW m \in Loops, pc[m] # "receive", msg[m].sub # None
        PROVE  status'[msg[m].sub] = status[msg[m].sub]
    BY <2>1 DEF CarrierInv, LoopFormed, WellFormed, Carries
  <2> QED BY <2>1 DEF CarrierInv, LoopFormed, WellFormed, Handles
<1>5. OneCarrier'
  <2>1. \A l, m \in Loops : Carries(l)' /\ Carries(m)' /\ msg'[l].sub = msg'[m].sub => l = m
    BY DEF CarrierInv, OneCarrier, Carries
  <2>2. ASSUME NEW i \in 1..Len(queue'), NEW j \in 1..Len(queue'),
               queue'[i].sub # None, queue'[i].sub = queue'[j].sub
        PROVE  i = j
    BY <1>1, <1>2, <2>2 DEF CarrierInv, OneCarrier
  <2>3. ASSUME NEW l \in Loops, NEW i \in 1..Len(queue'), Carries(l)
        PROVE  msg[l].sub # queue'[i].sub
    BY <1>1, <1>2, <2>3 DEF CarrierInv, OneCarrier, Carries
  <2> QED BY <2>1, <2>2, <2>3 DEF OneCarrier, Carries
<1> QED BY <1>3, <1>4, <1>5 DEF CarrierInv

LEMMA CarrierHandlers ==
  ASSUME TypeOK, CarrierInv, Handlers
  PROVE  CarrierInv'
<1> USE DEF inputVars, rosterVars, tableVars, loopVars, workVars, guildVars, logVars, pastVars
<1>1. ASSUME NEW c \in Conns, Join(c) \/ Leave(c)
      PROVE  CarrierInv'
  <2>1. /\ PlayerJoined(Owner[c]) \in Event /\ WellFormed(PlayerJoined(Owner[c]))
        /\ PlayerLeft(Owner[c]) \in Event /\ WellFormed(PlayerLeft(Owner[c]))
        /\ PlayerJoined(Owner[c]).sub = None /\ PlayerLeft(Owner[c]).sub = None
    BY RoomAssumption DEF PlayerJoined, PlayerLeft, Event, Kinds, WellFormed
  <2> QED BY <1>1, <2>1, SendStep DEF Join, Leave, Send
<1>2. ASSUME NEW c \in Conns, Disconnect(c)
      PROVE  CarrierInv'
  BY <1>2 DEF Disconnect, CarrierInv, QueueFormed, LoopFormed, OneCarrier, Carries, Handles, WellFormed
\* A submission that was not sent yet is in no event.
<1>3. ASSUME NEW s \in Subs, status[s] = "unsent"
      PROVE  /\ \A i \in 1..Len(queue) : queue[i].sub # s
             /\ \A l \in Loops : Carries(l) => msg[l].sub # s
  BY <1>3, RoomAssumption DEF CarrierInv, QueueFormed, LoopFormed, Carries
<1>4. ASSUME NEW s \in Subs, Submit(s)
      PROVE  CarrierInv'
  <2> DEFINE e == SolutionSubmitted(s)
  <2>1. e \in Event /\ WellFormed(e) /\ e.sub = s /\ e.kind = "SolutionSubmitted"
    BY RoomAssumption DEF SolutionSubmitted, Event, Kinds, WellFormed
  <2>2. /\ status[s] = "unsent" /\ status'[s] = "queued"
        /\ \A r \in Subs : r # s => status'[r] = status[r]
        /\ queue' = Append(queue, e) /\ UNCHANGED <<pc, msg>>
    BY <1>4 DEF Submit, Send, TypeOK
  <2> QED BY <1>3, <2>1, <2>2, SendStep
<1>5. ASSUME NEW s \in Subs, RefuseSubmission(s)
      PROVE  CarrierInv'
  <2>1. /\ status[s] = "unsent" /\ UNCHANGED <<queue, pc, msg>>
        /\ \A r \in Subs : r # s => status'[r] = status[r]
    BY <1>5 DEF RefuseSubmission, TypeOK
  <2>2. QueueFormed'
    BY <1>3, <2>1 DEF CarrierInv, QueueFormed, WellFormed
  <2>3. LoopFormed'
    BY <1>3, <2>1 DEF CarrierInv, LoopFormed, WellFormed, Handles, Carries
  <2>4. OneCarrier'
    BY <2>1 DEF CarrierInv, OneCarrier, Carries
  <2> QED BY <2>2, <2>3, <2>4 DEF CarrierInv
<1> QED BY <1>1, <1>2, <1>4, <1>5 DEF Handlers

LEMMA CarrierReceive ==
  ASSUME TypeOK, CarrierInv, NEW l \in Loops, Receive(l)
  PROVE  CarrierInv'
<1> USE DEF inputVars, rosterVars, tableVars, loopVars, workVars, guildVars, logVars, pastVars
<1> DEFINE e == queue[1]
<1>1. /\ Len(queue) \in Nat \ {0} /\ Head(queue) = e /\ e \in Event
      /\ Len(queue') = Len(queue) - 1
      /\ \A i \in 1..Len(queue') : queue'[i] = queue[i + 1] /\ i + 1 \in 1..Len(queue)
      /\ 1 \in 1..Len(queue)
  BY DEF Receive, TypeOK
<1>2. /\ pc[l] = "receive" /\ pc'[l] = Entry(e) /\ msg'[l] = e
      /\ \A m \in Loops \ {l} : pc'[m] = pc[m] /\ msg'[m] = msg[m]
      /\ status' = status
  BY <1>1 DEF Receive, TypeOK
<1>3. WellFormed(e) /\ (e.sub # None =>
        status[e.sub] = IF e.kind = "SolutionSubmitted" THEN "queued" ELSE "pending")
  BY <1>1 DEF CarrierInv, QueueFormed
<1>4. QueueFormed'
  BY <1>1, <1>2 DEF CarrierInv, QueueFormed, WellFormed
<1>5. LoopFormed'
  <2>1. Handles(l)'
    BY <1>1, <1>2, <1>3 DEF Handles, Entry, Event, Kinds, WellFormed
  <2>2. Entry(e) = "prepare" <=> e.kind = "SolutionSubmitted"
    BY <1>1 DEF Entry, Event, Kinds
  <2> QED BY <1>2, <1>3, <2>1, <2>2 DEF CarrierInv, LoopFormed, WellFormed, Handles
<1>6. OneCarrier'
  <2>1. \A m \in Loops : m # l => (Carries(m)' <=> Carries(m))
    BY <1>2 DEF Carries
  <2>2. ASSUME NEW i \in 1..Len(queue'), NEW j \in 1..Len(queue'),
               queue'[i].sub # None, queue'[i].sub = queue'[j].sub
        PROVE  i = j
    <3>1. /\ i + 1 \in 1..Len(queue) /\ queue'[i] = queue[i + 1]
          /\ j + 1 \in 1..Len(queue) /\ queue'[j] = queue[j + 1]
      BY <1>1
    <3>2. i + 1 = j + 1
      BY <2>2, <3>1 DEF CarrierInv, OneCarrier
    <3> QED BY <3>2
  <2>3. \A m, n \in Loops : Carries(m)' /\ Carries(n)' /\ msg'[m].sub = msg'[n].sub => m = n
    BY <1>1, <1>2, <2>1 DEF CarrierInv, OneCarrier, Carries
  <2>4. ASSUME NEW m \in Loops, NEW i \in 1..Len(queue'), Carries(m)'
        PROVE  msg'[m].sub # queue'[i].sub
    <3>1. CASE m = l
      <4>1. i + 1 # 1 /\ i + 1 \in 1..Len(queue) /\ queue'[i] = queue[i + 1]
        BY <1>1
      <4> QED BY <1>1, <1>2, <2>4, <3>1, <4>1 DEF CarrierInv, OneCarrier, Carries
    <3>2. CASE m # l
      BY <1>1, <1>2, <2>1, <2>4, <3>2 DEF CarrierInv, OneCarrier
    <3> QED BY <3>1, <3>2
  <2> QED BY <2>2, <2>3, <2>4 DEF OneCarrier
<1> QED BY <1>4, <1>5, <1>6 DEF CarrierInv

LEMMA CarrierLoops ==
  ASSUME TypeOK, CarrierInv, NEW l \in Loops, Serve(l) \/ Fault(l)
  PROVE  CarrierInv'
<1> USE DEF inputVars, rosterVars, tableVars, loopVars, workVars, guildVars, logVars, pastVars
<1>1. CASE Receive(l)
  BY <1>1, CarrierReceive
<1>2. ASSUME pc[l] # "receive"
      PROVE  /\ WellFormed(msg[l]) /\ Handles(l) /\ msg[l] \in Event
             /\ msg[l].sub # None =>
                  status[msg[l].sub] = IF pc[l] = "prepare" THEN "queued" ELSE "pending"
  BY <1>2 DEF CarrierInv, LoopFormed, TypeOK
\* A handler that stores nothing, or something about the players.
<1>3. ASSUME NEW from \in Labels \ {"receive", "prepare", "execute", "reply", "reject"},
             NEW to \in Labels \ {"receive", "find", "remove", "prepare", "execute", "reply",
                                  "credit", "reject"},
             Step(l, from, to), UNCHANGED <<queue, status>>,
             to = "insert" => from = "find",
             to \in {"notify", "accept"} => msg[l].kind = "SolutionResult"
      PROVE  CarrierInv'
  <2>1. pc[l] = from /\ pc' = [pc EXCEPT ![l] = to] /\ pc'[l] = to /\ msg' = msg
    BY <1>3 DEF Step, TypeOK
  <2>2. Handles(l)'
    BY <1>2, <1>3, <2>1 DEF Handles
  <2> QED BY <1>2, <1>3, <2>1, <2>2, GoOnStep
<1>4. ASSUME NEW from \in Labels \ {"receive"}, Return(l, from), queue' = queue,
             \A s \in Subs : s # msg[l].sub => status'[s] = status[s]
      PROVE  CarrierInv'
  BY <1>4, DoneStep DEF Return
<1>5. \A st : Store(l, st) => \A s \in Subs : s # msg[l].sub => status'[s] = status[s]
  BY DEF Store, TypeOK
<1>6. CASE FindPlayer(l) \/ FindPlayerFails(l) \/ InsertPlayer(l)
           \/ RemovePlayer(l) \/ RemovePlayerFails(l)
  BY <1>3, <1>6 DEF FindPlayer, FindPlayerFails, InsertPlayer, RemovePlayer, RemovePlayerFails, Labels
<1>7. CASE AddScore(l) \/ NotifyGuild(l) \/ ReadScores(l)
  <2>1. AddScore(l) => msg[l].kind = "SolutionResult"
    BY <1>2 DEF AddScore, Step, Handles
  <2> QED BY <1>3, <1>7, <2>1 DEF AddScore, NotifyGuild, ReadScores, Labels
<1>8. CASE UpdatePlaces(l) \/ UpdatePlacesFails(l) \/ FetchEntries(l)
  BY <1>3, <1>8 DEF UpdatePlaces, UpdatePlacesFails, FetchEntries, Labels
<1>9. CASE InsertPlayerRefused(l) \/ InsertPlayerFails(l) \/ AddScoreFails(l)
           \/ RejectSolutionFails(l) \/ MarkAcceptedFails(l)
  BY <1>4, <1>9
  DEF InsertPlayerRefused, InsertPlayerFails, AddScoreFails, RejectSolutionFails,
      MarkAcceptedFails, Labels
<1>10. CASE AbandonSubmission(l) \/ PrepareSubmissionFails(l) \/ RejectSolution(l)
            \/ MarkAccepted(l)
  BY <1>4, <1>5, <1>10
  DEF AbandonSubmission, PrepareSubmissionFails, RejectSolution, MarkAccepted, Labels
<1>11. CASE FetchEntriesFails(l) \/ Announce(l)
  BY <1>3, <1>4, <1>11 DEF FetchEntriesFails, Announce, Labels
<1>12. CASE PrepareSubmission(l)
  <2>1. /\ pc[l] = "prepare" /\ pc' = [pc EXCEPT ![l] = "execute"] /\ pc'[l] = "execute"
        /\ msg' = msg /\ queue' = queue
    BY <1>12 DEF PrepareSubmission, Step, TypeOK
  <2>2. Handles(l)'
    BY <1>2, <2>1 DEF Handles
  <2>3. msg[l].sub # None => status'[msg[l].sub] = "pending"
    <3>1. msg[l].sub \in Subs \cup {None}
      BY <1>2, <2>1 DEF Event
    <3> QED BY <1>12, <3>1 DEF PrepareSubmission, Store, TypeOK
  <2> QED BY <1>2, <1>5, <1>12, <2>1, <2>2, <2>3, GoOnStep DEF PrepareSubmission, Labels
<1>13. CASE ExecuteJob(l)
  <2>1. PICK o \in Outcomes : msg' = [msg EXCEPT ![l].status = Status(o)]
    BY <1>13 DEF ExecuteJob
  <2>2. /\ pc[l] = "execute" /\ pc' = [pc EXCEPT ![l] = "reply"] /\ pc'[l] = "reply"
        /\ UNCHANGED <<queue, status>>
        /\ msg[l] \in Event
        /\ msg'[l] = [msg[l] EXCEPT !.status = Status(o)]
        /\ \A m \in Loops \ {l} : msg'[m] = msg[m]
    BY <1>2, <1>13, <2>1 DEF ExecuteJob, TypeOK
  <2>3. /\ msg'[l].kind = msg[l].kind /\ msg'[l].sub = msg[l].sub
        /\ msg'[l].player = msg[l].player /\ msg'[l].status = Status(o)
    BY <2>2 DEF Event
  <2>4. msg[l].kind = "SolutionSubmitted"
    BY <1>2, <2>2 DEF Handles
  <2>5. WellFormed(msg'[l]) /\ Handles(l)'
    BY <1>2, <2>2, <2>3, <2>4, StatusType DEF Handles, WellFormed
  <2> QED BY <1>2, <2>2, <2>3, <2>5, GoOnStep DEF Labels
\* The loop gives the submission back to the channel.
<1>14. CASE SendResult(l)
  <2> DEFINE e == [msg[l] EXCEPT !.kind = "SolutionResult"]
  <2>1. /\ pc[l] = "reply" /\ pc'[l] = "receive"
        /\ \A m \in Loops \ {l} : pc'[m] = pc[m] /\ msg'[m] = msg[m]
        /\ queue' = Append(queue, e) /\ status' = status
        /\ msg[l] \in Event /\ msg[l].kind = "SolutionSubmitted" /\ msg[l].status \in Verdicts
    BY <1>2, <1>14 DEF SendResult, Return, Send, TypeOK, Handles
  <2>2. /\ e.kind = "SolutionResult" /\ e.sub = msg[l].sub /\ e.player = msg[l].player
        /\ e.status = msg[l].status /\ WellFormed(e) /\ e.sub \in Subs
        /\ e \in Event
    BY <1>2, <2>1 DEF Event, Kinds, WellFormed
  <2>3. Carries(l) /\ status[e.sub] = "pending"
    BY <1>2, <2>1, <2>2, RoomAssumption DEF Carries
  <2>4. /\ Len(queue') = Len(queue) + 1 /\ Len(queue) \in Nat
        /\ queue'[Len(queue) + 1] = e
        /\ \A i \in 1..Len(queue) : queue'[i] = queue[i]
        /\ \A i \in 1..Len(queue') : i \in 1..Len(queue) \/ i = Len(queue) + 1
    BY <2>1, <2>2 DEF TypeOK
  <2>5. \A m \in Loops : Carries(m)' => m # l /\ Carries(m) /\ msg'[m] = msg[m]
    BY <2>1 DEF Carries
  <2>6. QueueFormed'
    <3>1. ASSUME NEW i \in 1..Len(queue')
          PROVE  /\ WellFormed(queue'[i])
                 /\ queue'[i].sub # None =>
                      status'[queue'[i].sub] =
                        IF queue'[i].kind = "SolutionSubmitted" THEN "queued" ELSE "pending"
      <4>1. CASE i \in 1..Len(queue)
        BY <2>1, <2>4, <4>1 DEF CarrierInv, QueueFormed
      <4>2. CASE i = Len(queue) + 1
        BY <2>1, <2>2, <2>3, <2>4, <4>2
      <4> QED BY <2>4, <4>1, <4>2
    <3> QED BY <3>1 DEF QueueFormed, WellFormed
  <2>7. LoopFormed'
    BY <2>1 DEF CarrierInv, LoopFormed, WellFormed, Handles
  <2>8. OneCarrier'
    <3>1. \A i \in 1..Len(queue) : queue[i].sub # e.sub
      BY <2>2, <2>3 DEF CarrierInv, OneCarrier
    <3>2. \A m \in Loops : Carries(m)' => msg[m].sub # e.sub
      BY <2>2, <2>3, <2>5 DEF CarrierInv, OneCarrier
    <3>3. ASSUME NEW i \in 1..Len(queue'), NEW j \in 1..Len(queue'),
                 queue'[i].sub # None, queue'[i].sub = queue'[j].sub
          PROVE  i = j
      BY <2>4, <3>1, <3>3 DEF CarrierInv, OneCarrier
    <3>4. ASSUME NEW m \in Loops, NEW i \in 1..Len(queue'), Carries(m)'
          PROVE  msg'[m].sub # queue'[i].sub
      <4>1. Carries(m) /\ msg'[m] = msg[m] /\ msg[m].sub # e.sub
        BY <2>5, <3>2, <3>4
      <4>2. CASE i \in 1..Len(queue)
        <5>1. queue'[i] = queue[i] /\ msg[m].sub # queue[i].sub
          BY <2>4, <4>1, <4>2 DEF CarrierInv, OneCarrier
        <5> QED BY <4>1, <5>1
      <4>3. CASE i = Len(queue) + 1
        <5>1. queue'[i] = e
          BY <2>4, <4>3
        <5> HIDE DEF e
        <5> QED BY <4>1, <5>1
      <4> QED BY <2>4, <4>2, <4>3
    <3>5. \A m, n \in Loops : Carries(m)' /\ Carries(n)' /\ msg'[m].sub = msg'[n].sub => m = n
      BY <2>5 DEF CarrierInv, OneCarrier
    <3> QED BY <3>3, <3>4, <3>5 DEF OneCarrier
  <2> QED BY <2>6, <2>7, <2>8 DEF CarrierInv
<1> QED BY <1>1, <1>6, <1>7, <1>8, <1>9, <1>10, <1>11, <1>12, <1>13, <1>14 DEF Serve, Fault

LEMMA CarrierNext == TypeOK /\ CarrierInv /\ [Next]_vars => CarrierInv'
<1> SUFFICES ASSUME TypeOK, CarrierInv, [Next]_vars PROVE CarrierInv'
  OBVIOUS
<1> USE DEF inputVars, rosterVars, tableVars, loopVars, workVars, guildVars, logVars, pastVars
<1>1. ASSUME UNCHANGED <<queue, pc, msg, status>>
      PROVE  CarrierInv'
  BY <1>1 DEF CarrierInv, QueueFormed, LoopFormed, OneCarrier, Carries, Handles, WellFormed
<1>2. CASE Handlers
  BY <1>2, CarrierHandlers
<1>3. ASSUME NEW l \in Loops, Serve(l) \/ Fault(l)
      PROVE  CarrierInv'
  BY <1>3, CarrierLoops
<1>4. CASE ReceiveGuildUpdate \/ QueryGuilds \/ QueryGuildsFails
  BY <1>1, <1>4 DEF ReceiveGuildUpdate, QueryGuilds, QueryGuildsFails
<1>5. CASE Crash
  BY <1>5 DEF Crash, CarrierInv, QueueFormed, LoopFormed, OneCarrier, Carries
<1>6. CASE UNCHANGED vars
  BY <1>1, <1>6 DEF vars
<1> QED BY <1>2, <1>3, <1>4, <1>5, <1>6 DEF Next

LEMMA CarrierCorrect == Spec => []CarrierInv
BY TypeCorrect, CarrierInit, CarrierNext, PTL DEF Spec

\* What CarrierInv says of the submission of a loop that serves one.
LEMMA CarriedAlone ==
  ASSUME TypeOK, CarrierInv, NEW l \in Loops, pc[l] # "receive", msg[l].sub # None
  PROVE  /\ msg[l].sub \in Subs
         /\ msg[l].player = Author[msg[l].sub]
         /\ status[msg[l].sub] = IF pc[l] = "prepare" THEN "queued" ELSE "pending"
         /\ \A i \in 1..Len(queue) : queue[i].sub # msg[l].sub
         /\ \A m \in Loops : m # l /\ pc[m] # "receive" => msg[m].sub # msg[l].sub
BY DEF CarrierInv, LoopFormed, OneCarrier, WellFormed, Carries

(***************************************************************************)
(* AcceptedMeansPassed.  The pool answers a job it refused, or could not   *)
(* set up, with a result the room takes for a success; without such        *)
(* answers, a verdict of acceptance stands for a program that passed from  *)
(* ExecuteJob to the row it is stored in.                                  *)
(***************************************************************************)
ReliableJobs == Outcomes \cap {"rejected", "setup"} = {}

ResultsPassed ==
  \A i \in 1..Len(queue) :
    queue[i].kind = "SolutionResult" /\ queue[i].status = "Accepted"
      => outcome[queue[i].sub] = "passed"

JudgedPassed ==
  \A l \in Loops :
    /\ pc[l] \notin {"receive", "prepare", "execute"}
    /\ msg[l].kind \in {"SolutionSubmitted", "SolutionResult"}
    /\ msg[l].status = "Accepted"
    => outcome[msg[l].sub] = "passed"

PassedInv == AcceptedMeansPassed /\ ResultsPassed /\ JudgedPassed

LEMMA PassedLoops ==
  ASSUME ReliableJobs, TypeOK, CarrierInv, PassedInv, NEW l \in Loops, Serve(l) \/ Fault(l)
  PROVE  PassedInv'
<1> USE DEF inputVars, rosterVars, tableVars, loopVars, workVars, guildVars, logVars, pastVars
<1> DEFINE s == msg[l].sub
\* Loop l takes a step of its handler, or ends it, and accepts nothing.
<1>1. ASSUME NEW from \in Labels \ {"receive", "prepare", "execute"}, NEW to \in Labels,
             Step(l, from, to) \/ Return(l, from), UNCHANGED <<queue, outcome>>,
             \A r \in Subs : status'[r] = "accepted" => status[r] = "accepted"
      PROVE  PassedInv'
  <2>1. \A m \in Loops : \/ pc'[m] = "receive"
                         \/ msg'[m] = msg[m] /\ (m # l => pc'[m] = pc[m])
    BY <1>1 DEF Step, Return, TypeOK
  <2>2. pc[l] = from
    BY <1>1 DEF Step, Return
  <2>3. AcceptedMeansPassed'
    BY <1>1 DEF PassedInv, AcceptedMeansPassed
  <2>4. ResultsPassed'
    BY <1>1 DEF PassedInv, ResultsPassed
  <2>5. JudgedPassed'
    BY <1>1, <2>1, <2>2 DEF PassedInv, JudgedPassed
  <2> QED BY <2>3, <2>4, <2>5 DEF PassedInv
<1>2. ASSUME NEW st \in {"unstored", "pending", "wrong_answer"}, Store(l, st)
      PROVE  \A r \in Subs : status'[r] = "accepted" => status[r] = "accepted"
  BY <1>2 DEF Store, TypeOK
<1>3. CASE Receive(l)
  <2>1. /\ Len(queue) \in Nat \ {0} /\ Head(queue) = queue[1] /\ queue[1] \in Event
        /\ Len(queue') = Len(queue) - 1
        /\ \A i \in 1..Len(queue') : queue'[i] = queue[i + 1] /\ i + 1 \in 1..Len(queue)
        /\ 1 \in 1..Len(queue)
    BY <1>3 DEF Receive, TypeOK
  <2>2. /\ pc'[l] = Entry(queue[1]) /\ msg'[l] = queue[1]
        /\ \A m \in Loops \ {l} : pc'[m] = pc[m] /\ msg'[m] = msg[m]
        /\ UNCHANGED <<status, outcome>>
    BY <1>3, <2>1 DEF Receive, TypeOK
  <2>3. queue[1].kind = "SolutionSubmitted" => Entry(queue[1]) = "prepare"
    BY <2>1 DEF Entry
  <2>4. AcceptedMeansPassed'
    BY <2>2 DEF PassedInv, AcceptedMeansPassed
  <2>5. ResultsPassed'
    BY <2>1, <2>2 DEF PassedInv, ResultsPassed
  <2>6. JudgedPassed'
    BY <2>1, <2>2, <2>3 DEF PassedInv, ResultsPassed, JudgedPassed
  <2> QED BY <2>4, <2>5, <2>6 DEF PassedInv
<1>4. CASE FindPlayer(l) \/ FindPlayerFails(l) \/ InsertPlayer(l) \/ InsertPlayerRefused(l)
           \/ InsertPlayerFails(l) \/ RemovePlayer(l) \/ RemovePlayerFails(l)
  BY <1>1, <1>4
  DEF FindPlayer, FindPlayerFails, InsertPlayer, InsertPlayerRefused, InsertPlayerFails,
      RemovePlayer, RemovePlayerFails, NoteRemoval, Labels
<1>5. CASE AddScore(l) \/ AddScoreFails(l) \/ NotifyGuild(l) \/ MarkAcceptedFails(l)
           \/ RejectSolutionFails(l) \/ RejectSolution(l)
  BY <1>1, <1>2, <1>5
  DEF AddScore, AddScoreFails, NotifyGuild, MarkAcceptedFails, RejectSolutionFails,
      RejectSolution, Labels
<1>6. CASE ReadScores(l) \/ UpdatePlaces(l) \/ UpdatePlacesFails(l) \/ FetchEntries(l)
           \/ FetchEntriesFails(l) \/ Announce(l)
  BY <1>1, <1>6
  DEF ReadScores, UpdatePlaces, UpdatePlacesFails, FetchEntries, FetchEntriesFails, Announce,
      Labels
<1>7. CASE MarkAccepted(l)
  <2>1. /\ pc[l] = "accept" /\ UNCHANGED <<queue, outcome>>
        /\ \A m \in Loops : \/ pc'[m] = "receive"
                            \/ msg'[m] = msg[m] /\ pc'[m] = pc[m]
    BY <1>7 DEF MarkAccepted, Return, TypeOK
  <2>2. msg[l].kind = "SolutionResult" /\ msg[l].status = "Accepted"
    BY <2>1 DEF CarrierInv, LoopFormed, Handles
  <2>3. outcome[s] = "passed"
    BY <2>1, <2>2 DEF PassedInv, JudgedPassed
  <2>4. \A r \in Subs : status'[r] = "accepted" => status[r] = "accepted" \/ r = s
    BY <1>7 DEF MarkAccepted, Store, TypeOK
  <2>5. AcceptedMeansPassed'
    BY <2>1, <2>3, <2>4 DEF PassedInv, AcceptedMeansPassed
  <2>6. ResultsPassed' /\ JudgedPassed'
    BY <2>1 DEF PassedInv, ResultsPassed, JudgedPassed
  <2> QED BY <2>5, <2>6 DEF PassedInv
<1>8. ASSUME pc[l] \in {"prepare", "execute"}
      PROVE  /\ s \in Subs /\ s # None /\ status[s] # "accepted"
             /\ msg[l].kind = "SolutionSubmitted" /\ msg[l] \in Event
  <2>1. msg[l].kind = "SolutionSubmitted" /\ WellFormed(msg[l]) /\ msg[l] \in Event
    BY <1>8 DEF CarrierInv, LoopFormed, Handles, TypeOK
  <2>2. s \in Subs /\ s # None
    BY <2>1, RoomAssumption DEF WellFormed
  <2> QED BY <1>8, <2>1, <2>2, CarriedAlone
\* What becomes known of the program of l concerns no other event.
<1>9. ASSUME pc[l] \in {"prepare", "execute"}, queue' = queue,
             \A r \in Subs : r # s => outcome'[r] = outcome[r],
             \A r \in Subs : status'[r] = "accepted" => status[r] = "accepted",
             \A m \in Loops \ {l} : pc'[m] = pc[m] /\ msg'[m] = msg[m],
             pc'[l] \notin {"receive", "prepare", "execute"} /\ msg'[l].status = "Accepted"
               => outcome'[msg'[l].sub] = "passed"
      PROVE  PassedInv'
  <2>1. AcceptedMeansPassed'
    BY <1>8, <1>9 DEF PassedInv, AcceptedMeansPassed
  <2>2. ASSUME NEW i \in 1..Len(queue), queue[i].kind = "SolutionResult"
        PROVE  outcome'[queue[i].sub] = outcome[queue[i].sub]
    <3>1. queue[i].sub \in Subs
      BY <2>2 DEF CarrierInv, QueueFormed, WellFormed
    <3>2. queue[i].sub # s
      BY <1>8, <1>9, CarriedAlone
    <3> QED BY <1>9, <3>1, <3>2
  <2>3. ASSUME NEW m \in Loops, m # l, pc[m] # "receive",
               msg[m].kind \in {"SolutionSubmitted", "SolutionResult"}
        PROVE  outcome'[msg[m].sub] = outcome[msg[m].sub]
    <3>1. msg[m].sub \in Subs
      BY <2>3 DEF CarrierInv, LoopFormed, WellFormed
    <3>2. msg[m].sub # s
      BY <1>8, <1>9, <2>3, CarriedAlone
    <3> QED BY <1>9, <3>1, <3>2
  <2>4. ResultsPassed'
    BY <1>9, <2>2 DEF PassedInv, ResultsPassed
  <2>5. JudgedPassed'
    BY <1>9, <2>3 DEF PassedInv, JudgedPassed
  <2> QED BY <2>1, <2>4, <2>5 DEF PassedInv
<1>10. CASE PrepareSubmission(l) \/ PrepareSubmissionFails(l)
  <2>1. /\ pc[l] = "prepare" /\ pc'[l] \in {"receive", "execute"}
        /\ UNCHANGED <<queue, outcome>>
        /\ \A m \in Loops \ {l} : pc'[m] = pc[m] /\ msg'[m] = msg[m]
        /\ \E st \in {"unstored", "pending"} : Store(l, st)
    BY <1>10 DEF PrepareSubmission, PrepareSubmissionFails, Step, Return, TypeOK
  <2> QED BY <1>2, <1>9, <2>1
<1>11. CASE AbandonSubmission(l)
  <2>1. PICK o \in Outcomes : /\ outcome' = [outcome EXCEPT ![s] = o]
                              /\ Store(l, IF o = "language" THEN "unstored" ELSE "pending")
    BY <1>11 DEF AbandonSubmission
  <2>2. /\ pc[l] = "prepare" /\ pc'[l] = "receive" /\ queue' = queue
        /\ \A m \in Loops \ {l} : pc'[m] = pc[m] /\ msg'[m] = msg[m]
    BY <1>11 DEF AbandonSubmission, Return, TypeOK
  <2>3. \A r \in Subs : status'[r] = "accepted" => status[r] = "accepted"
    BY <1>2, <2>1
  <2>4. \A r \in Subs : r # s => outcome'[r] = outcome[r]
    BY <2>1 DEF TypeOK
  <2> QED BY <1>9, <2>2, <2>3, <2>4
<1>12. CASE ExecuteJob(l)
  <2>1. PICK o \in Outcomes \ {"language", "build"} :
          /\ outcome' = [outcome EXCEPT ![s] = o]
          /\ msg' = [msg EXCEPT ![l].status = Status(o)]
    BY <1>12 DEF ExecuteJob
  <2>2. /\ pc[l] = "execute" /\ pc'[l] = "reply" /\ UNCHANGED <<queue, status>>
        /\ \A m \in Loops \ {l} : pc'[m] = pc[m] /\ msg'[m] = msg[m]
        /\ msg'[l] = [msg[l] EXCEPT !.status = Status(o)]
    BY <1>12, <2>1 DEF ExecuteJob, TypeOK
  <2>3. msg'[l].sub = s /\ msg'[l].status = Status(o)
    BY <1>8, <2>2 DEF Event
  <2>4. Status(o) = "Accepted" => o = "passed"
    BY <2>1, RoomAssumption DEF Status, ReliableJobs
  <2>5. outcome'[s] = o /\ \A r \in Subs : r # s => outcome'[r] = outcome[r]
    BY <1>8, <2>1, <2>2 DEF TypeOK
  <2> QED BY <1>9, <2>2, <2>3, <2>4, <2>5
<1>13. CASE SendResult(l)
  <2> DEFINE e == [msg[l] EXCEPT !.kind = "SolutionResult"]
  <2>1. /\ pc[l] = "reply" /\ queue' = Append(queue, e) /\ msg[l] \in Event
        /\ UNCHANGED <<status, outcome>>
        /\ \A m \in Loops : \/ pc'[m] = "receive"
                            \/ msg'[m] = msg[m] /\ pc'[m] = pc[m]
    BY <1>13 DEF SendResult, Send, Return, TypeOK
  <2>2. e.sub = s /\ e.status = msg[l].status /\ e \in Event
    BY <2>1 DEF Event, Kinds
  <2>3. /\ queue'[Len(queue) + 1] = e
        /\ \A i \in 1..Len(queue) : queue'[i] = queue[i]
        /\ \A i \in 1..Len(queue') : i \in 1..Len(queue) \/ i = Len(queue) + 1
    BY <2>1, <2>2 DEF TypeOK
  <2>4. msg[l].kind = "SolutionSubmitted"
    BY <2>1 DEF CarrierInv, LoopFormed, Handles
  <2>5. e.status = "Accepted" => outcome[e.sub] = "passed"
    BY <2>1, <2>2, <2>4 DEF PassedInv, JudgedPassed
  <2>6. ASSUME NEW i \in 1..Len(queue'),
               queue'[i].kind = "SolutionResult", queue'[i].status = "Accepted"
        PROVE  outcome[queue'[i].sub] = "passed"
    <3>1. CASE i \in 1..Len(queue)
      BY <2>3, <2>6, <3>1 DEF PassedInv, ResultsPassed
    <3>2. CASE i = Len(queue) + 1
      <4>1. queue'[i] = e
        BY <2>3, <3>2
      <4> HIDE DEF e
      <4> QED BY <2>5, <2>6, <4>1
    <3> QED BY <2>3, <3>1, <3>2
  <2>7. AcceptedMeansPassed' /\ JudgedPassed'
    BY <2>1 DEF PassedInv, AcceptedMeansPassed, JudgedPassed
  <2>8. ResultsPassed'
    BY <2>1, <2>6 DEF ResultsPassed
  <2> QED BY <2>7, <2>8 DEF PassedInv
<1> QED
  BY <1>3, <1>4, <1>5, <1>6, <1>7, <1>10, <1>11, <1>12, <1>13 DEF Serve, Fault

LEMMA PassedNext ==
  ReliableJobs /\ TypeOK /\ CarrierInv /\ PassedInv /\ [Next]_vars => PassedInv'
<1> SUFFICES ASSUME ReliableJobs, TypeOK, CarrierInv, PassedInv, [Next]_vars PROVE PassedInv'
  OBVIOUS
<1> USE DEF inputVars, rosterVars, tableVars, loopVars, workVars, guildVars, logVars, pastVars
<1>1. ASSUME UNCHANGED <<pc, msg, outcome>>,
             \A r \in Subs : status'[r] = "accepted" => status[r] = "accepted",
             \A i \in 1..Len(queue') :
               queue'[i].kind = "SolutionResult" => i \in 1..Len(queue) /\ queue'[i] = queue[i]
      PROVE  PassedInv'
  <2>1. AcceptedMeansPassed' /\ JudgedPassed'
    BY <1>1 DEF PassedInv, AcceptedMeansPassed, JudgedPassed
  <2>2. ResultsPassed'
    BY <1>1 DEF PassedInv, ResultsPassed
  <2> QED BY <2>1, <2>2 DEF PassedInv
<1>2. CASE Handlers
  <2>1. ASSUME NEW e \in Event, e.kind # "SolutionResult", queue' = Append(queue, e)
        PROVE  \A i \in 1..Len(queue') :
                 queue'[i].kind = "SolutionResult" => i \in 1..Len(queue) /\ queue'[i] = queue[i]
    BY <2>1 DEF TypeOK
  <2>2. ASSUME NEW c \in Conns, Join(c) \/ Disconnect(c) \/ Leave(c)
        PROVE  PassedInv'
    <3>1. /\ PlayerJoined(Owner[c]) \in Event /\ PlayerLeft(Owner[c]) \in Event
          /\ PlayerJoined(Owner[c]).kind # "SolutionResult"
          /\ PlayerLeft(Owner[c]).kind # "SolutionResult"
      BY RoomAssumption DEF PlayerJoined, PlayerLeft, Event, Kinds
    <3> QED BY <1>1, <2>1, <2>2, <3>1 DEF Join, Disconnect, Leave, Send
  <2>3. ASSUME NEW s \in Subs, Submit(s) \/ RefuseSubmission(s)
        PROVE  PassedInv'
    <3>1. SolutionSubmitted(s) \in Event /\ SolutionSubmitted(s).kind # "SolutionResult"
      BY RoomAssumption DEF SolutionSubmitted, Event, Kinds
    <3>2. \A r \in Subs : status'[r] = "accepted" => status[r] = "accepted"
      BY <2>3 DEF Submit, RefuseSubmission, TypeOK
    <3> QED BY <1>1, <2>1, <2>3, <3>1, <3>2 DEF Submit, RefuseSubmission, Send
  <2> QED BY <1>2, <2>2, <2>3 DEF Handlers
<1>3. ASSUME NEW l \in Loops, Serve(l) \/ Fault(l)
      PROVE  PassedInv'
  BY <1>3, PassedLoops
<1>4. CASE ReceiveGuildUpdate \/ QueryGuilds \/ QueryGuildsFails
  BY <1>1, <1>4 DEF ReceiveGuildUpdate, QueryGuilds, QueryGuildsFails
<1>5. CASE Crash
  <2>1. \A r \in Subs : status'[r] = "accepted" => status[r] = "accepted"
    BY <1>5 DEF Crash, TypeOK
  <2>2. outcome' = outcome /\ Len(queue') = 0 /\ \A l \in Loops : pc'[l] = "receive"
    BY <1>5 DEF Crash
  <2>3. AcceptedMeansPassed'
    BY <2>1, <2>2 DEF PassedInv, AcceptedMeansPassed
  <2>4. ResultsPassed' /\ JudgedPassed'
    BY <2>2 DEF ResultsPassed, JudgedPassed
  <2> QED BY <2>3, <2>4 DEF PassedInv
<1>6. CASE UNCHANGED vars
  BY <1>1, <1>6 DEF vars
<1> QED BY <1>2, <1>3, <1>4, <1>5, <1>6 DEF Next

\* submission.go:164 of the room's path: if the pool judges every job it is given, a
\* submission is stored as accepted only if its program passed, with any number of
\* loops, failing statements and crashes.
THEOREM AcceptedCorrect == ReliableJobs => (Spec => []AcceptedMeansPassed)
<1> SUFFICES ASSUME ReliableJobs PROVE Spec => []AcceptedMeansPassed
  OBVIOUS
<1>1. Init => PassedInv
  BY DEF Init, PassedInv, AcceptedMeansPassed, ResultsPassed, JudgedPassed
<1>2. TypeOK /\ CarrierInv /\ PassedInv /\ [Next]_vars => PassedInv'
  BY PassedNext
<1>3. PassedInv => AcceptedMeansPassed
  BY DEF PassedInv
<1> QED BY <1>1, <1>2, <1>3, TypeCorrect, CarrierCorrect, PTL DEF Spec

(***************************************************************************)
(* PointsMatchVerdicts.  The points are written before the verdict, by two *)
(* statements: the accepted submissions together with those a loop has     *)
(* given points for (Paid) have their points, and no point comes from a    *)
(* submission whose event has not got to the points yet (Uncredited).      *)
(***************************************************************************)
BeforeCredit == {"prepare", "execute", "reply", "credit", "reject"}
AfterCredit  == {"notify", "rank", "write", "fetch", "announce", "accept"}

Uncredited ==
  {s \in Subs : \/ \E i \in 1..Len(queue) : queue[i].sub = s
                \/ \E l \in Loops : pc[l] \in BeforeCredit /\ msg[l].sub = s}
Credited == {s \in Subs : \E l \in Loops : pc[l] \in AfterCredit /\ msg[l].sub = s}

Paid(p)     == By(p, {"accepted"}) \cup (By(p, {"pending"}) \cap Credited)
Possible(p) == By(p, {"accepted", "pending"}) \ Uncredited

PointsBetween(p) ==
  standing[p].joined = 1 =>
    /\ Points * Cardinality(Paid(p)) <= standing[p].score
    /\ standing[p].score <= Points * Cardinality(Possible(p))

\* However many may come, finitely many have been posted so far.
Posted == {s \in Subs : status[s] # "unsent"}

ScoreInv ==
  /\ IsFiniteSet(Posted)
  /\ clock >= 1
  /\ \A p \in Players : PointsBetween(p)

LEMMA ScoreFinite ==
  ASSUME IsFiniteSet(Posted), NEW p
  PROVE  /\ IsFiniteSet(Paid(p)) /\ IsFiniteSet(Possible(p))
         /\ Cardinality(Paid(p)) \in Nat /\ Cardinality(Possible(p)) \in Nat
         /\ IsFiniteSet(By(p, {"accepted"})) /\ IsFiniteSet(By(p, {"accepted", "pending"}))
<1>1. /\ Paid(p) \in SUBSET Posted /\ Possible(p) \in SUBSET Posted
      /\ By(p, {"accepted"}) \in SUBSET Posted
      /\ By(p, {"accepted", "pending"}) \in SUBSET Posted
  BY DEF Paid, Possible, Posted, By
<1> QED BY <1>1, FS_Subset, FS_CardinalityType

LEMMA ScoreInit == Init => ScoreInv
<1> SUFFICES ASSUME Init PROVE ScoreInv
  OBVIOUS
<1>1. Posted = {} /\ clock = 1
  BY DEF Init, Posted
<1>2. ASSUME NEW p \in Players PROVE PointsBetween(p)
  <2>1. Paid(p) = {} /\ Possible(p) = {}
    BY <1>1 DEF Posted, Paid, Possible, By
  <2>2. standing[p].score = 0
    BY DEF Init, NoRow
  <2> QED BY <2>1, <2>2, FS_EmptySet DEF PointsBetween, Points
<1> QED BY <1>1, <1>2, FS_EmptySet DEF ScoreInv

\* At most one submission is posted by a step.
LEMMA PostedStep ==
  ASSUME TypeOK, IsFiniteSet(Posted), NEW s,
         \A r \in Subs : r # s /\ status'[r] # "unsent" => status[r] # "unsent"
  PROVE  IsFiniteSet(Posted')
<1>1. Posted' \in SUBSET (Posted \cup {s})
  BY DEF Posted
<1> QED BY <1>1, FS_AddElement, FS_Subset

\* A step that gives no points: no submission is settled by it, and none that was
\* possible ceases to be.
LEMMA NoPointsStep ==
  ASSUME TypeOK, ScoreInv, IsFiniteSet(Posted'), NEW p \in Players,
         standing'[p].joined = 1 => standing'[p] = standing[p],
         Paid(p)' \subseteq Paid(p), Possible(p) \subseteq Possible(p)'
  PROVE  PointsBetween(p)'
<1> SUFFICES ASSUME standing'[p].joined = 1
             PROVE  /\ Points * Cardinality(Paid(p)') <= standing'[p].score
                    /\ standing'[p].score <= Points * Cardinality(Possible(p)')
  BY DEF PointsBetween
<1>1. /\ Points * Cardinality(Paid(p)) <= standing[p].score
      /\ standing[p].score <= Points * Cardinality(Possible(p))
  BY DEF ScoreInv, PointsBetween
<1>2. /\ IsFiniteSet(Paid(p)) /\ IsFiniteSet(Possible(p))
      /\ Cardinality(Paid(p)) \in Nat /\ Cardinality(Possible(p)) \in Nat
  BY ScoreFinite DEF ScoreInv
<1>3. /\ IsFiniteSet(Possible(p)') /\ Cardinality(Possible(p)') \in Nat
      /\ Cardinality(Paid(p)') \in Nat
  <2>1. /\ Paid(p)' \in SUBSET Posted' /\ Possible(p)' \in SUBSET Posted'
    BY DEF Paid, Possible, Posted, By
  <2> QED BY <2>1, FS_Subset, FS_CardinalityType
<1>4. Cardinality(Paid(p)') <= Cardinality(Paid(p))
  BY <1>2, FS_Subset
<1>5. Cardinality(Possible(p)) <= Cardinality(Possible(p)')
  BY <1>3, FS_Subset
<1>6. standing'[p].score \in Nat
  BY DEF TypeOK, Row
<1> QED BY <1>1, <1>2, <1>3, <1>4, <1>5, <1>6 DEF Points

\* What becomes of a submission that only one event carries, and only one step moves:
\* for every other submission Paid and Possible are what they were.
LEMMA OneMoves ==
  ASSUME TypeOK, NEW s, NEW p,
         \A r \in Subs : r # s =>
           /\ status'[r] \in {"accepted", "pending"} <=> status[r] \in {"accepted", "pending"}
           /\ status[r] \in {"accepted", "pending"} => status'[r] = status[r]
           /\ r \in Credited' <=> r \in Credited
           /\ r \in Uncredited' <=> r \in Uncredited,
         s \in Paid(p)' => s \in Paid(p),
         s \in Possible(p) => s \in Possible(p)'
  PROVE  Paid(p)' \subseteq Paid(p) /\ Possible(p) \subseteq Possible(p)'
<1>1. ASSUME NEW r \in Paid(p)' PROVE r \in Paid(p)
  <2>1. CASE r = s
    BY <1>1, <2>1
  <2>2. CASE r # s
    BY <1>1, <2>2 DEF Paid, By
  <2> QED BY <2>1, <2>2
<1>2. ASSUME NEW r \in Possible(p) PROVE r \in Possible(p)'
  <2>1. CASE r = s
    BY <1>2, <2>1
  <2>2. CASE r # s
    BY <1>2, <2>2 DEF Possible, By
  <2> QED BY <2>1, <2>2
<1> QED BY <1>1, <1>2

\* A loop that moves its event on, or is done with it, and gives no points: an event
\* gets behind the credit only by it, and only an event behind it is accepted.
LEMMA ServeStep ==
  ASSUME TypeOK, CarrierInv, ScoreInv, NEW l \in Loops, pc[l] # "receive",
         queue' = queue, clock' \in Nat, clock' >= clock,
         \A m \in Loops \ {l} : pc'[m] = pc[m] /\ msg'[m] = msg[m],
         pc'[l] = "receive" \/ msg'[l].sub = msg[l].sub,
         \A r \in Subs : r # msg[l].sub => status'[r] = status[r],
         \A p \in Players : standing'[p].joined = 1 => standing'[p] = standing[p],
         msg[l].sub # None =>
           /\ pc'[l] \in AfterCredit => pc[l] \in AfterCredit
           /\ pc'[l] \in BeforeCredit => pc[l] \in BeforeCredit
           /\ status'[msg[l].sub] = "accepted" => pc[l] \in AfterCredit
           /\ pc[l] \in AfterCredit => status'[msg[l].sub] \in {"accepted", "pending"}
  PROVE  ScoreInv'
<1> DEFINE s == msg[l].sub
<1>1. IsFiniteSet(Posted')
  BY PostedStep DEF ScoreInv
<1>2. ASSUME NEW r \in Subs, r # s
      PROVE  (r \in Credited' <=> r \in Credited) /\ (r \in Uncredited' <=> r \in Uncredited)
  BY <1>2 DEF Credited, Uncredited, AfterCredit, BeforeCredit
<1>3. ASSUME NEW p \in Players
      PROVE  /\ s \in Paid(p)' => s \in Paid(p)
             /\ s \in Possible(p) => s \in Possible(p)'
  <2> SUFFICES ASSUME s \in Subs
               PROVE  /\ s \in Paid(p)' => s \in Paid(p)
                      /\ s \in Possible(p) => s \in Possible(p)'
    BY DEF Paid, Possible, By
  <2>1. s # None
    BY RoomAssumption
  <2>2. /\ status[s] = IF pc[l] = "prepare" THEN "queued" ELSE "pending"
        /\ \A i \in 1..Len(queue) : queue[i].sub # s
        /\ \A m \in Loops : m # l /\ pc[m] # "receive" => msg[m].sub # s
    BY <2>1, CarriedAlone
  <2>3. /\ s \in Credited <=> pc[l] \in AfterCredit
        /\ s \in Credited' <=> pc'[l] \in AfterCredit
        /\ s \in Uncredited <=> pc[l] \in BeforeCredit
        /\ s \in Uncredited' <=> pc'[l] \in BeforeCredit
    BY <2>2 DEF Credited, Uncredited, AfterCredit, BeforeCredit
  <2>4. CASE pc[l] \in AfterCredit
    BY <2>1, <2>2, <2>3, <2>4 DEF Paid, Possible, By, AfterCredit, BeforeCredit
  <2>5. CASE pc[l] \notin AfterCredit
    <3>1. s \notin Paid(p)'
      BY <2>1, <2>3, <2>5 DEF Paid, By
    <3>2. s \in Possible(p) => s \in Possible(p)'
      <4>1. pc[l] \in BeforeCredit \/ pc[l] \in {"find", "insert", "remove"}
        BY <2>5 DEF TypeOK, Labels, AfterCredit, BeforeCredit
      <4>2. pc[l] \notin {"find", "insert", "remove"}
        BY <2>1 DEF CarrierInv, LoopFormed, Handles, WellFormed
      <4> QED BY <2>3, <4>1, <4>2 DEF Possible
    <3> QED BY <3>1, <3>2
  <2> QED BY <2>4, <2>5
<1>4. ASSUME NEW p \in Players PROVE PointsBetween(p)'
  BY <1>1, <1>2, <1>3, OneMoves, NoPointsStep
<1>5. clock' >= 1
  BY DEF ScoreInv, TypeOK
<1> QED BY <1>1, <1>4, <1>5 DEF ScoreInv

\* A submission that gets its points leaves the uncredited ones.
LEMMA PointsStep ==
  ASSUME TypeOK, CarrierInv, ScoreInv, NEW l \in Loops, pc[l] = "credit",
         UNCHANGED <<queue, status>>,
         AddRoomPlayerScore(msg[l].player),
         \A m \in Loops \ {l} : pc'[m] = pc[m] /\ msg'[m] = msg[m],
         \/ pc'[l] = "receive"
         \/ pc'[l] = "notify" /\ msg'[l] = msg[l]
  PROVE  ScoreInv'
<1> DEFINE s == msg[l].sub
<1>1. msg[l].kind = "SolutionResult" /\ WellFormed(msg[l])
  BY DEF CarrierInv, LoopFormed, Handles
<1>2. s \in Subs /\ s # None /\ msg[l].player = Author[s] /\ Author[s] \in Players
  BY <1>1, RoomAssumption DEF WellFormed
<1>3. /\ status[s] = "pending"
      /\ \A i \in 1..Len(queue) : queue[i].sub # s
      /\ \A m \in Loops : m # l /\ pc[m] # "receive" => msg[m].sub # s
  BY <1>2, CarriedAlone
<1>4. IsFiniteSet(Posted') /\ clock' >= 1
  BY DEF ScoreInv, Posted, AddRoomPlayerScore
<1>5. ASSUME NEW r \in Subs, r # s
      PROVE  (r \in Credited' <=> r \in Credited) /\ (r \in Uncredited' <=> r \in Uncredited)
  BY <1>5 DEF Credited, Uncredited, AfterCredit, BeforeCredit
<1>6. s \notin Credited /\ s \in Uncredited /\ s \notin Uncredited'
  BY <1>2, <1>3 DEF Credited, Uncredited, AfterCredit, BeforeCredit
<1>7. /\ \A p \in Players : p # Author[s] => standing'[p] = standing[p]
      /\ standing'[Author[s]].joined = 1 =>
           /\ standing[Author[s]].joined = 1
           /\ standing'[Author[s]].score = standing[Author[s]].score + Points
  <2>1. CASE Present(standing, Author[s])
    <3>1. standing' = [standing EXCEPT ![Author[s]].score = @ + Points]
      BY <1>2, <2>1 DEF AddRoomPlayerScore
    <3>2. standing[Author[s]] \in Row
      BY <1>2 DEF TypeOK
    <3> QED BY <1>2, <3>1, <3>2 DEF TypeOK, Row
  <2>2. CASE ~Present(standing, Author[s])
    BY <1>2, <2>2 DEF AddRoomPlayerScore, Present
  <2> QED BY <2>1, <2>2
<1>8. ASSUME NEW p \in Players, p # Author[s]
      PROVE  PointsBetween(p)'
  <2>1. s \notin Paid(p)' /\ s \notin Possible(p)
    BY <1>8 DEF Paid, Possible, By
  <2>2. Paid(p)' \subseteq Paid(p) /\ Possible(p) \subseteq Possible(p)'
    BY <1>5, <2>1, OneMoves
  <2> QED BY <1>4, <1>7, <1>8, <2>2, NoPointsStep
<1>9. ASSUME NEW p \in Players, p = Author[s]
      PROVE  PointsBetween(p)'
  <2> SUFFICES ASSUME standing'[p].joined = 1
               PROVE  /\ Points * Cardinality(Paid(p)') <= standing'[p].score
                      /\ standing'[p].score <= Points * Cardinality(Possible(p)')
    BY DEF PointsBetween
  <2>1. Paid(p)' \in SUBSET (Paid(p) \cup {s})
    BY <1>5, <1>9 DEF Paid, By
  <2>2. Possible(p) \cup {s} \in SUBSET (Possible(p)') /\ s \notin Possible(p)
    BY <1>2, <1>3, <1>5, <1>6, <1>9 DEF Possible, By
  <2>3. /\ IsFiniteSet(Paid(p)) /\ IsFiniteSet(Possible(p))
        /\ Cardinality(Paid(p)) \in Nat /\ Cardinality(Possible(p)) \in Nat
    BY ScoreFinite DEF ScoreInv
  <2>4. /\ IsFiniteSet(Possible(p)') /\ Cardinality(Possible(p)') \in Nat
        /\ IsFiniteSet(Paid(p)') /\ Cardinality(Paid(p)') \in Nat
    <3>1. Paid(p)' \in SUBSET Posted' /\ Possible(p)' \in SUBSET Posted'
      BY DEF Paid, Possible, Posted, By
    <3> QED BY <1>4, <3>1, FS_Subset, FS_CardinalityType
  <2>5. Cardinality(Paid(p)') <= Cardinality(Paid(p)) + 1
    <3>1. /\ IsFiniteSet(Paid(p) \cup {s})
          /\ Cardinality(Paid(p) \cup {s}) \in Nat
          /\ Cardinality(Paid(p) \cup {s}) <= Cardinality(Paid(p)) + 1
      <4>1. /\ IsFiniteSet(Paid(p) \cup {s})
            /\ Cardinality(Paid(p) \cup {s}) =
                 IF s \in Paid(p) THEN Cardinality(Paid(p)) ELSE Cardinality(Paid(p)) + 1
        BY <2>3, FS_AddElement
      <4> QED BY <2>3, <4>1
    <3>2. Cardinality(Paid(p)') <= Cardinality(Paid(p) \cup {s})
      BY <2>1, <3>1, FS_Subset
    <3> QED BY <2>3, <2>4, <3>1, <3>2
  <2>6. Cardinality(Possible(p)) + 1 <= Cardinality(Possible(p)')
    <3>1. Cardinality(Possible(p) \cup {s}) = Cardinality(Possible(p)) + 1
      BY <2>2, <2>3, FS_AddElement
    <3>2. Cardinality(Possible(p) \cup {s}) <= Cardinality(Possible(p)')
      BY <2>2, <2>4, FS_Subset
    <3> QED BY <3>1, <3>2
  <2>7. /\ standing[p].joined = 1 /\ standing'[p].score = standing[p].score + Points
        /\ standing[p].score \in Nat
    BY <1>7, <1>9 DEF TypeOK, Row
  <2>8. /\ Points * Cardinality(Paid(p)) <= standing[p].score
        /\ standing[p].score <= Points * Cardinality(Possible(p))
    BY <2>7 DEF ScoreInv, PointsBetween
  <2> QED BY <2>3, <2>4, <2>5, <2>6, <2>7, <2>8 DEF Points
<1>10. ASSUME NEW p \in Players PROVE PointsBetween(p)'
  BY <1>8, <1>9
<1> QED BY <1>4, <1>10 DEF ScoreInv

\* The rows stay the rows they were, or become others.
LEMMA RowsKept ==
  ASSUME TypeOK, ScoreInv, NEW p \in Players
  PROVE  /\ AddPlayer(p) \/ DropPlayer(p) =>
              /\ clock' \in Nat /\ clock' >= clock
              /\ \A q \in Players : standing'[q].joined = 1 => standing'[q] = standing[q]
<1>1. CASE AddPlayer(p)
  <2>1. standing'[p].joined # 1
    BY <1>1 DEF AddPlayer, TypeOK, ScoreInv
  <2>2. \A q \in Players : q # p => standing'[q] = standing[q]
    BY <1>1 DEF AddPlayer, TypeOK
  <2> QED BY <1>1, <2>1, <2>2 DEF AddPlayer, TypeOK
<1>2. CASE DropPlayer(p)
  BY <1>2 DEF DropPlayer, TypeOK, NoRow
<1> QED BY <1>1, <1>2

LEMMA ScoreLoops ==
  ASSUME TypeOK, CarrierInv, ScoreInv, NEW l \in Loops, Serve(l) \/ Fault(l)
  PROVE  ScoreInv'
<1> USE DEF inputVars, rosterVars, tableVars, loopVars, workVars, guildVars, logVars, pastVars
<1> DEFINE s == msg[l].sub
<1>1. ASSUME pc[l] # "receive"
      PROVE  /\ msg[l] \in Event /\ msg[l].player \in Players
             /\ s # None => /\ s \in Subs
                            /\ pc[l] \notin {"find", "insert", "remove"}
                            /\ status[s] = IF pc[l] = "prepare" THEN "queued" ELSE "pending"
             /\ pc[l] \in {"prepare", "execute", "reply", "credit", "reject", "notify", "accept"}
                  => s # None
  <2>1. msg[l] \in Event /\ msg[l].player \in Players
    BY <1>1 DEF TypeOK, Event
  <2>2. WellFormed(msg[l]) /\ Handles(l)
    BY <1>1 DEF CarrierInv, LoopFormed
  <2>3. s # None => status[s] = IF pc[l] = "prepare" THEN "queued" ELSE "pending"
    BY <1>1 DEF CarrierInv, LoopFormed
  <2> QED BY <2>1, <2>2, <2>3, RoomAssumption DEF WellFormed, Handles
<1>2. \A st : Store(l, st) /\ s \in Subs =>
        status'[s] = st /\ \A r \in Subs : r # s => status'[r] = status[r]
  BY DEF Store, TypeOK
<1>3. clock \in Nat /\ clock >= clock
  BY DEF TypeOK
\* Handlers of joins and departures, up to the ranking.
<1>4. CASE \/ FindPlayer(l) \/ FindPlayerFails(l) \/ InsertPlayerRefused(l)
           \/ RemovePlayerFails(l)
  <2>1. /\ pc[l] \in {"find", "insert", "remove"} /\ UNCHANGED <<queue, status, standing, clock>>
        /\ \A m \in Loops \ {l} : pc'[m] = pc[m] /\ msg'[m] = msg[m]
        /\ pc'[l] = "receive" \/ msg'[l] = msg[l]
    BY <1>4
    DEF FindPlayer, FindPlayerFails, InsertPlayerRefused, RemovePlayerFails, Step, Return, TypeOK
  <2> QED BY <1>1, <1>3, <2>1, ServeStep
<1>5. CASE InsertPlayer(l) \/ InsertPlayerFails(l) \/ RemovePlayer(l)
  <2>1. /\ pc[l] \in {"find", "insert", "remove"} /\ UNCHANGED <<queue, status>>
        /\ \A m \in Loops \ {l} : pc'[m] = pc[m] /\ msg'[m] = msg[m]
        /\ pc'[l] = "receive" \/ msg'[l] = msg[l]
        /\ \/ AddPlayer(msg[l].player) \/ DropPlayer(msg[l].player)
           \/ UNCHANGED <<standing, clock>>
    BY <1>5 DEF InsertPlayer, InsertPlayerFails, RemovePlayer, Step, Return, TypeOK
  <2>2. /\ clock' \in Nat /\ clock' >= clock
        /\ \A q \in Players : standing'[q].joined = 1 => standing'[q] = standing[q]
    BY <1>1, <1>3, <2>1, RowsKept
  <2> QED BY <1>1, <2>1, <2>2, ServeStep
\* A solution before its points.
<1>6. CASE \/ PrepareSubmission(l) \/ AbandonSubmission(l) \/ PrepareSubmissionFails(l)
           \/ RejectSolution(l) \/ RejectSolutionFails(l)
  <2>1. /\ pc[l] \in {"prepare", "reject"} /\ UNCHANGED <<queue, standing, clock>>
        /\ \A m \in Loops \ {l} : pc'[m] = pc[m] /\ msg'[m] = msg[m]
        /\ pc'[l] = "receive" \/ (pc'[l] = "execute" /\ msg'[l] = msg[l])
        /\ UNCHANGED status
           \/ \E st \in {"unstored", "pending", "wrong_answer"} : Store(l, st)
    <3>1. CASE PrepareSubmission(l)
      BY <3>1 DEF PrepareSubmission, Step, TypeOK
    <3>2. CASE AbandonSubmission(l)
      BY <3>2 DEF AbandonSubmission, Return, TypeOK
    <3>3. CASE PrepareSubmissionFails(l)
      BY <3>3 DEF PrepareSubmissionFails, Return, TypeOK
    <3>4. CASE RejectSolution(l)
      BY <3>4 DEF RejectSolution, Return, TypeOK
    <3>5. CASE RejectSolutionFails(l)
      BY <3>5 DEF RejectSolutionFails, Return, TypeOK
    <3> QED BY <1>6, <3>1, <3>2, <3>3, <3>4, <3>5
  <2>2. /\ \A r \in Subs : r # s => status'[r] = status[r]
        /\ status'[s] # "accepted"
    BY <1>1, <1>2, <2>1
  <2> QED BY <1>1, <1>3, <2>1, <2>2, ServeStep DEF BeforeCredit, AfterCredit
<1>7. CASE ExecuteJob(l)
  <2>1. /\ pc[l] = "execute" /\ pc'[l] = "reply" /\ UNCHANGED <<queue, status, standing, clock>>
        /\ \A m \in Loops \ {l} : pc'[m] = pc[m] /\ msg'[m] = msg[m]
        /\ \E o \in Outcomes : msg' = [msg EXCEPT ![l].status = Status(o)]
    BY <1>7 DEF ExecuteJob, TypeOK
  <2>2. PICK o \in Outcomes : msg'[l] = [msg[l] EXCEPT !.status = Status(o)]
    BY <2>1 DEF TypeOK
  <2>3. msg'[l].sub = s
    BY <1>1, <2>1, <2>2 DEF Event
  <2> QED BY <1>1, <1>3, <2>1, <2>3, ServeStep DEF BeforeCredit, AfterCredit
<1>8. CASE AddScore(l)
  <2>1. /\ pc[l] = "credit" /\ pc'[l] = "notify" /\ UNCHANGED <<queue, status, msg>>
        /\ \A m \in Loops \ {l} : pc'[m] = pc[m]
        /\ AddRoomPlayerScore(msg[l].player)
    BY <1>8 DEF AddScore, Step, TypeOK
  <2> QED BY <2>1, PointsStep
<1>9. CASE AddScoreFails(l)
  <2>1. /\ pc[l] = "credit" /\ pc'[l] = "receive" /\ UNCHANGED <<queue, status>>
        /\ \A m \in Loops \ {l} : pc'[m] = pc[m] /\ msg'[m] = msg[m]
        /\ AddRoomPlayerScore(msg[l].player) \/ UNCHANGED <<standing, clock>>
    BY <1>9 DEF AddScoreFails, Return, TypeOK
  <2>2. CASE AddRoomPlayerScore(msg[l].player)
    BY <2>1, <2>2, PointsStep
  <2>3. CASE UNCHANGED <<standing, clock>>
    BY <1>1, <1>3, <2>1, <2>3, ServeStep DEF BeforeCredit, AfterCredit
  <2> QED BY <2>1, <2>2, <2>3
\* A solution that has its points, and the ranking.
<1>10. CASE \/ NotifyGuild(l) \/ ReadScores(l) \/ UpdatePlaces(l) \/ UpdatePlacesFails(l)
            \/ FetchEntries(l) \/ FetchEntriesFails(l) \/ Announce(l) \/ MarkAcceptedFails(l)
  <2>1. /\ pc[l] \in AfterCredit /\ UNCHANGED <<queue, status, standing, clock>>
        /\ \A m \in Loops \ {l} : pc'[m] = pc[m] /\ msg'[m] = msg[m]
        /\ pc'[l] = "receive" \/ (pc'[l] \in AfterCredit /\ msg'[l] = msg[l])
    <3> USE DEF AfterCredit, TypeOK
    <3>1. CASE NotifyGuild(l)
      BY <3>1 DEF NotifyGuild, Step
    <3>2. CASE ReadScores(l)
      BY <3>2 DEF ReadScores, Step
    <3>3. CASE UpdatePlaces(l)
      BY <3>3 DEF UpdatePlaces, WritePlaces, Step
    <3>4. CASE UpdatePlacesFails(l)
      BY <3>4 DEF UpdatePlacesFails, WritePlaces, Step
    <3>5. CASE FetchEntries(l)
      BY <3>5 DEF FetchEntries, Step
    <3>6. CASE FetchEntriesFails(l)
      BY <3>6 DEF FetchEntriesFails, Step, Return
    <3>7. CASE Announce(l)
      BY <3>7 DEF Announce, Step, Return
    <3>8. CASE MarkAcceptedFails(l)
      BY <3>8 DEF MarkAcceptedFails, Return
    <3> QED BY <1>10, <3>1, <3>2, <3>3, <3>4, <3>5, <3>6, <3>7, <3>8
  <2>2. pc[l] # "receive" /\ pc[l] # "prepare"
    BY <2>1 DEF AfterCredit
  <2> QED BY <1>1, <1>3, <2>1, <2>2, ServeStep DEF BeforeCredit, AfterCredit
<1>11. CASE MarkAccepted(l)
  <2>1. /\ pc[l] = "accept" /\ pc'[l] = "receive" /\ UNCHANGED <<queue, standing, clock>>
        /\ \A m \in Loops \ {l} : pc'[m] = pc[m] /\ msg'[m] = msg[m]
        /\ Store(l, "accepted")
    BY <1>11 DEF MarkAccepted, Return, TypeOK
  <2>2. status'[s] = "accepted" /\ \A r \in Subs : r # s => status'[r] = status[r]
    BY <1>1, <1>2, <2>1
  <2> QED BY <1>1, <1>3, <2>1, <2>2, ServeStep DEF BeforeCredit, AfterCredit
\* The event of a solution moves between the channel and a loop.
<1>12. ASSUME UNCHANGED <<status, standing, clock>>,
              \A r \in Subs : /\ r \in Credited' => r \in Credited
                              /\ r \in Uncredited' => r \in Uncredited
       PROVE  ScoreInv'
  <2>1. IsFiniteSet(Posted')
    BY <1>12 DEF ScoreInv, Posted
  <2>2. ASSUME NEW p \in Players
        PROVE  Paid(p)' \subseteq Paid(p) /\ Possible(p) \subseteq Possible(p)'
    BY <1>12 DEF Paid, Possible, By
  <2> QED BY <1>12, <2>1, <2>2, NoPointsStep DEF ScoreInv
<1>13. CASE Receive(l)
  <2>1. /\ Len(queue) \in Nat \ {0} /\ Head(queue) = queue[1] /\ queue[1] \in Event
        /\ Len(queue') = Len(queue) - 1
        /\ \A i \in 1..Len(queue') : queue'[i] = queue[i + 1] /\ i + 1 \in 1..Len(queue)
        /\ 1 \in 1..Len(queue)
    BY <1>13 DEF Receive, TypeOK
  <2>2. /\ pc'[l] = Entry(queue[1]) /\ msg'[l] = queue[1]
        /\ \A m \in Loops \ {l} : pc'[m] = pc[m] /\ msg'[m] = msg[m]
        /\ UNCHANGED <<status, standing, clock>>
    BY <1>13, <2>1 DEF Receive, TypeOK
  <2>3. Entry(queue[1]) \notin AfterCredit
    BY <2>1, EntryType DEF AfterCredit
  <2>4. \A r \in Subs : r \in Credited' => r \in Credited
    BY <2>2, <2>3 DEF Credited
  <2>5. \A r \in Subs : r \in Uncredited' => r \in Uncredited
    BY <2>1, <2>2 DEF Uncredited
  <2> QED BY <1>12, <2>2, <2>4, <2>5
<1>14. CASE SendResult(l)
  <2> DEFINE e == [msg[l] EXCEPT !.kind = "SolutionResult"]
  <2>1. /\ pc[l] = "reply" /\ queue' = Append(queue, e) /\ pc'[l] = "receive"
        /\ UNCHANGED <<status, standing, clock>>
        /\ \A m \in Loops \ {l} : pc'[m] = pc[m] /\ msg'[m] = msg[m]
    BY <1>14 DEF SendResult, Send, Return, TypeOK
  <2>2. e.sub = s /\ e \in Event
    BY <1>1, <2>1 DEF Event, Kinds
  <2>3. /\ queue'[Len(queue) + 1] = e
        /\ \A i \in 1..Len(queue) : queue'[i] = queue[i]
        /\ \A i \in 1..Len(queue') : i \in 1..Len(queue) \/ i = Len(queue) + 1
    BY <2>1, <2>2 DEF TypeOK
  <2>4. \A r \in Subs : r \in Credited' => r \in Credited
    BY <2>1 DEF Credited, AfterCredit
  <2>5. s \in Subs => s \in Uncredited
    BY <2>1 DEF Uncredited, BeforeCredit
  <2>6. \A i \in 1..Len(queue') : queue'[i].sub = s \/ (i \in 1..Len(queue) /\ queue'[i] = queue[i])
    <3> HIDE DEF e
    <3> TAKE i \in 1..Len(queue')
    <3>1. CASE i \in 1..Len(queue)
      BY <2>3, <3>1
    <3>2. CASE i = Len(queue) + 1
      BY <2>2, <2>3, <3>2
    <3> QED BY <2>3, <3>1, <3>2
  <2>7. \A r \in Subs : r \in Uncredited' => r \in Uncredited
    BY <2>1, <2>5, <2>6 DEF Uncredited, BeforeCredit
  <2> QED BY <1>12, <2>1, <2>4, <2>7
<1> QED
  BY <1>4, <1>5, <1>6, <1>7, <1>8, <1>9, <1>10, <1>11, <1>13, <1>14 DEF Serve, Fault

\* A handler of a request appends an event: a submission that is in it was unsent.
LEMMA ScoreHandlers ==
  ASSUME TypeOK, CarrierInv, ScoreInv, Handlers
  PROVE  ScoreInv'
<1> USE DEF inputVars, rosterVars, tableVars, loopVars, workVars, guildVars, logVars, pastVars
<1>1. UNCHANGED <<pc, msg, standing, clock>>
  BY DEF Handlers, Join, Disconnect, Leave, Submit, RefuseSubmission
<1>2. ASSUME NEW s \in Subs \cup {None}, IsFiniteSet(Posted'),
             s \in Subs => /\ status[s] \notin {"accepted", "pending"}
                           /\ status'[s] \notin {"accepted", "pending"},
             \A r \in Subs : r # s => status'[r] = status[r],
             \A i \in 1..Len(queue') : \/ i \in 1..Len(queue) /\ queue'[i] = queue[i]
                                       \/ queue'[i].sub = s
      PROVE  ScoreInv'
  <2>1. \A r \in Subs : r # s /\ r \in Uncredited' => r \in Uncredited
    BY <1>1, <1>2 DEF Uncredited
  <2>2. Credited' = Credited
    BY <1>1 DEF Credited
  <2>3. ASSUME NEW p \in Players
        PROVE  Paid(p)' \subseteq Paid(p) /\ Possible(p) \subseteq Possible(p)'
    <3>1. ASSUME NEW r \in Paid(p)' PROVE r \in Paid(p)
      BY <1>2, <2>2, <3>1 DEF Paid, By
    <3>2. ASSUME NEW r \in Possible(p) PROVE r \in Possible(p)'
      BY <1>2, <2>1, <3>2 DEF Possible, By
    <3> QED BY <3>1, <3>2
  <2> QED BY <1>1, <1>2, <2>3, NoPointsStep DEF ScoreInv
<1>3. ASSUME NEW e \in Event, queue' = Append(queue, e)
      PROVE  \A i \in 1..Len(queue') : \/ i \in 1..Len(queue) /\ queue'[i] = queue[i]
                                       \/ queue'[i].sub = e.sub
  BY <1>3 DEF TypeOK
<1>4. ASSUME NEW c \in Conns, Join(c) \/ Disconnect(c) \/ Leave(c)
      PROVE  ScoreInv'
  <2>1. /\ PlayerJoined(Owner[c]) \in Event /\ PlayerJoined(Owner[c]).sub = None
        /\ PlayerLeft(Owner[c]) \in Event /\ PlayerLeft(Owner[c]).sub = None
    BY RoomAssumption DEF PlayerJoined, PlayerLeft, Event, Kinds
  <2>2. status' = status /\ IsFiniteSet(Posted')
    BY <1>4 DEF Join, Disconnect, Leave, ScoreInv, Posted
  <2>3. \A i \in 1..Len(queue') : \/ i \in 1..Len(queue) /\ queue'[i] = queue[i]
                                  \/ queue'[i].sub = None
    <3>1. CASE Join(c)
      BY <1>3, <2>1, <3>1 DEF Join, Send
    <3>2. CASE Leave(c)
      BY <1>3, <2>1, <3>2 DEF Leave, Send
    <3>3. CASE Disconnect(c)
      BY <3>3 DEF Disconnect
    <3> QED BY <1>4, <3>1, <3>2, <3>3
  <2> QED BY <1>2, <2>2, <2>3, RoomAssumption
<1>5. ASSUME NEW s \in Subs, Submit(s) \/ RefuseSubmission(s)
      PROVE  ScoreInv'
  <2>1. /\ status[s] = "unsent" /\ status'[s] \in {"queued", "refused"}
        /\ \A r \in Subs : r # s => status'[r] = status[r]
    BY <1>5 DEF Submit, RefuseSubmission, TypeOK
  <2>2. IsFiniteSet(Posted')
    BY <2>1, PostedStep DEF ScoreInv
  <2>3. SolutionSubmitted(s) \in Event /\ SolutionSubmitted(s).sub = s
    BY RoomAssumption DEF SolutionSubmitted, Event, Kinds
  <2>4. \A i \in 1..Len(queue') : \/ i \in 1..Len(queue) /\ queue'[i] = queue[i]
                                  \/ queue'[i].sub = s
    <3>1. CASE Submit(s)
      BY <1>3, <2>3, <3>1 DEF Submit, Send
    <3>2. CASE RefuseSubmission(s)
      BY <3>2 DEF RefuseSubmission
    <3> QED BY <1>5, <3>1, <3>2
  <2> QED BY <1>2, <2>1, <2>2, <2>4
<1> QED BY <1>4, <1>5 DEF Handlers

LEMMA ScoreNext == TypeOK /\ CarrierInv /\ ScoreInv /\ [Next]_vars => ScoreInv'
<1> SUFFICES ASSUME TypeOK, CarrierInv, ScoreInv, [Next]_vars PROVE ScoreInv'
  OBVIOUS
<1> USE DEF inputVars, rosterVars, tableVars, loopVars, workVars, guildVars, logVars, pastVars
<1>1. ASSUME UNCHANGED <<standing, clock>>,
             \A r \in Subs : /\ r \in Credited' => r \in Credited
                             /\ r \in Uncredited' => r \in Uncredited
                             /\ status'[r] # "unsent" => status[r] # "unsent"
                             /\ status[r] \in {"accepted", "pending"}
                                  \/ status'[r] \in {"accepted", "pending"}
                                  => status'[r] = status[r]
      PROVE  ScoreInv'
  <2>1. Posted' \in SUBSET Posted
    BY <1>1 DEF Posted
  <2>2. IsFiniteSet(Posted')
    BY <2>1, FS_Subset DEF ScoreInv
  <2>3. ASSUME NEW p \in Players
        PROVE  Paid(p)' \subseteq Paid(p) /\ Possible(p) \subseteq Possible(p)'
    <3>1. ASSUME NEW r \in Paid(p)' PROVE r \in Paid(p)
      BY <1>1, <3>1 DEF Paid, By
    <3>2. ASSUME NEW r \in Possible(p) PROVE r \in Possible(p)'
      BY <1>1, <3>2 DEF Possible, By
    <3> QED BY <3>1, <3>2
  <2> QED BY <1>1, <2>2, <2>3, NoPointsStep DEF ScoreInv
<1>2. CASE Handlers
  BY <1>2, ScoreHandlers
<1>3. ASSUME NEW l \in Loops, Serve(l) \/ Fault(l)
      PROVE  ScoreInv'
  BY <1>3, ScoreLoops
<1>4. ASSUME UNCHANGED <<queue, pc, msg, status, standing, clock>>
      PROVE  ScoreInv'
  BY <1>1, <1>4 DEF Credited, Uncredited
<1>5. CASE ReceiveGuildUpdate \/ QueryGuilds \/ QueryGuildsFails \/ UNCHANGED vars
  BY <1>4, <1>5 DEF ReceiveGuildUpdate, QueryGuilds, QueryGuildsFails, vars
<1>6. CASE Crash
  <2>1. Credited' = {} /\ Uncredited' = {} /\ UNCHANGED <<standing, clock>>
    BY <1>6 DEF Crash, Credited, Uncredited, AfterCredit, BeforeCredit
  <2>2. \A r \in Subs : status'[r] = IF status[r] = "queued" THEN "lost" ELSE status[r]
    BY <1>6 DEF Crash
  <2> QED BY <1>1, <2>1, <2>2
<1> QED BY <1>2, <1>3, <1>5, <1>6 DEF Next

\* event_hub.go:432 and 483: the points and the verdict are two statements.  In a row
\* that was never deleted every accepted submission has its points, and no point
\* comes from anything but an accepted submission or one a failure or a crash left
\* pending, whatever the loops interleave.
THEOREM PointsCorrect == Spec => []PointsMatchVerdicts
<1>1. TypeOK /\ CarrierInv /\ ScoreInv => PointsMatchVerdicts
  <2> SUFFICES ASSUME TypeOK, CarrierInv, ScoreInv, NEW p \in Seeded, standing[p].joined = 1
               PROVE  /\ Points * Cardinality(By(p, {"accepted"})) <= standing[p].score
                      /\ standing[p].score <= Points * Cardinality(By(p, {"accepted", "pending"}))
    BY DEF PointsMatchVerdicts
  <2>1. p \in Players /\ standing[p].score \in Nat
    BY RoomAssumption DEF TypeOK, Row
  <2>2. /\ Points * Cardinality(Paid(p)) <= standing[p].score
        /\ standing[p].score <= Points * Cardinality(Possible(p))
    BY <2>1 DEF ScoreInv, PointsBetween
  <2>3. /\ IsFiniteSet(Paid(p)) /\ IsFiniteSet(By(p, {"accepted", "pending"}))
        /\ Cardinality(Paid(p)) \in Nat /\ Cardinality(Possible(p)) \in Nat
    BY ScoreFinite DEF ScoreInv
  <2>4. /\ Cardinality(By(p, {"accepted"})) <= Cardinality(Paid(p))
        /\ Cardinality(By(p, {"accepted"})) \in Nat
    <3>1. By(p, {"accepted"}) \in SUBSET Paid(p)
      BY DEF Paid
    <3> QED BY <2>3, <3>1, FS_Subset, FS_CardinalityType
  <2>5. /\ Cardinality(Possible(p)) <= Cardinality(By(p, {"accepted", "pending"}))
        /\ Cardinality(By(p, {"accepted", "pending"})) \in Nat
    <3>1. Possible(p) \in SUBSET By(p, {"accepted", "pending"})
      BY DEF Possible
    <3> QED BY <2>3, <3>1, FS_Subset, FS_CardinalityType
  <2> QED BY <2>1, <2>2, <2>3, <2>4, <2>5 DEF Points
<1> QED BY <1>1, ScoreInit, ScoreNext, TypeCorrect, CarrierCorrect, PTL DEF Spec

(***************************************************************************)
(* DepartedAreRemoved.  For a player who has closed every connection,      *)
(* either the row is still to be removed by an event no join follows, or   *)
(* no join is left in the channel and the row is being removed, gone, or   *)
(* known to linger: the removal failed, or a loop was serving a join then, *)
(* or the departure was lost in a crash.                                   *)
(***************************************************************************)
Comes(e, p) == e.kind = "PlayerJoined" /\ e.player = p
Goes(e, p)  == e.kind = "PlayerLeft" /\ e.player = p

Departing(p) ==
  \E i \in 1..Len(queue) :
    Goes(queue[i], p) /\ \A j \in 1..Len(queue) : j > i => ~Comes(queue[j], p)
NoneComes(p)   == \A j \in 1..Len(queue) : ~Comes(queue[j], p)
Removing(l, p) == pc[l] = "remove" /\ msg[l].player = p
Adding(l, p)   == pc[l] \in {"find", "insert"} /\ msg[l].player = p
Away(p)        == ~Present(standing, p) /\ \A l \in Loops : ~Adding(l, p)
Removed(p)     == (\E l \in Loops : Removing(l, p)) \/ p \in lingering \/ Away(p)

Departs(p) == Departing(p) \/ (NoneComes(p) /\ Removed(p))

DepartInv == \A p \in Players : Departed(p) => Departs(p)

\* An event that is not the player's join changes nothing when it is sent.
LEMMA QueueDeparts ==
  ASSUME TypeOK, NEW p,
         \/ queue' = queue
         \/ \E e \in Event : queue' = Append(queue, e) /\ ~Comes(e, p)
  PROVE  (Departing(p) => Departing(p)') /\ (NoneComes(p) => NoneComes(p)')
<1>1. CASE queue' = queue
  BY <1>1 DEF Departing, NoneComes
<1>2. ASSUME NEW e \in Event, queue' = Append(queue, e), ~Comes(e, p)
      PROVE  (Departing(p) => Departing(p)') /\ (NoneComes(p) => NoneComes(p)')
  <2>1. /\ \A i \in 1..Len(queue) : i \in 1..Len(queue') /\ queue'[i] = queue[i]
        /\ \A i \in 1..Len(queue') : i \in 1..Len(queue) \/ queue'[i] = e
    BY <1>2 DEF TypeOK
  <2>2. Departing(p) => Departing(p)'
    <3> SUFFICES ASSUME NEW i \in 1..Len(queue), Goes(queue[i], p),
                        \A j \in 1..Len(queue) : j > i => ~Comes(queue[j], p)
                 PROVE  Departing(p)'
      BY DEF Departing
    <3>1. Goes(queue'[i], p) /\ i \in 1..Len(queue')
      BY <2>1
    <3>2. \A j \in 1..Len(queue') : j > i => ~Comes(queue'[j], p)
      BY <1>2, <2>1
    <3> QED BY <3>1, <3>2 DEF Departing
  <2>3. NoneComes(p) => NoneComes(p)'
    BY <1>2, <2>1 DEF NoneComes
  <2> QED BY <2>2, <2>3
<1> QED BY <1>1, <1>2

\* A step that neither adds the row of p nor finishes its removal.
LEMMA DepartsKept ==
  ASSUME TypeOK, NEW p, Departs(p),
         \/ queue' = queue
         \/ \E e \in Event : queue' = Append(queue, e) /\ ~Comes(e, p),
         Present(standing', p) => Present(standing, p),
         p \in lingering => p \in lingering',
         \A l \in Loops : Removing(l, p) => Removing(l, p)',
         \A l \in Loops : Adding(l, p)' => Adding(l, p)
  PROVE  Departs(p)'
<1>1. (Departing(p) => Departing(p)') /\ (NoneComes(p) => NoneComes(p)')
  BY QueueDeparts
<1> QED BY <1>1 DEF Departs, Removed, Away

LEMMA DepartsHandlers ==
  ASSUME TypeOK, DepartInv, Handlers
  PROVE  DepartInv'
<1> USE DEF inputVars, rosterVars, tableVars, loopVars, workVars, guildVars, logVars, pastVars
<1>1. UNCHANGED <<pc, msg, standing, lingering>>
  BY DEF Handlers, Join, Disconnect, Leave, Submit, RefuseSubmission
<1>2. ASSUME NEW p \in Players, Departs(p),
             \/ queue' = queue
             \/ \E e \in Event : queue' = Append(queue, e) /\ ~Comes(e, p)
      PROVE  Departs(p)'
  BY <1>1, <1>2, DepartsKept DEF Removing, Adding
<1>3. ASSUME NEW c \in Conns, Join(c) PROVE DepartInv'
  <2> SUFFICES ASSUME NEW p \in Players, Departed(p)' PROVE Departs(p)'
    BY DEF DepartInv
  <2>1. /\ conn'[c] = "open" /\ queue' = Append(queue, PlayerJoined(Owner[c]))
        /\ \A d \in Conns : d # c => conn'[d] = conn[d]
    BY <1>3 DEF Join, Send, TypeOK
  <2>2. Owner[c] # p
    BY <2>1 DEF Departed
  <2>3. Departed(p)
    BY <2>1, <2>2 DEF Departed
  <2>4. PlayerJoined(Owner[c]) \in Event /\ ~Comes(PlayerJoined(Owner[c]), p)
    BY <2>2, RoomAssumption DEF PlayerJoined, Event, Kinds, Comes
  <2> QED BY <1>2, <2>1, <2>3, <2>4 DEF DepartInv
<1>4. ASSUME NEW c \in Conns, Disconnect(c) PROVE DepartInv'
  <2> SUFFICES ASSUME NEW p \in Players, Departed(p)' PROVE Departs(p)'
    BY DEF DepartInv
  <2>1. /\ conn'[c] = "closing" /\ queue' = queue
        /\ \A d \in Conns : d # c => conn'[d] = conn[d]
    BY <1>4 DEF Disconnect, TypeOK
  <2>2. Departed(p)
    BY <2>1 DEF Departed
  <2> QED BY <1>2, <2>1, <2>2 DEF DepartInv
<1>5. ASSUME NEW c \in Conns, Leave(c) PROVE DepartInv'
  <2> SUFFICES ASSUME NEW p \in Players, Departed(p)' PROVE Departs(p)'
    BY DEF DepartInv
  <2> DEFINE e == PlayerLeft(Owner[c])
  <2>1. /\ queue' = Append(queue, e)
        /\ \A d \in Conns : d # c => conn'[d] = conn[d]
    BY <1>5 DEF Leave, Send, TypeOK
  <2>2. e \in Event /\ ~Comes(e, p) /\ Goes(e, Owner[c])
    BY RoomAssumption DEF PlayerLeft, Event, Kinds, Comes, Goes
  <2>3. CASE Owner[c] = p
    <3>1. /\ Len(queue) + 1 \in 1..Len(queue') /\ queue'[Len(queue) + 1] = e
          /\ \A j \in 1..Len(queue') : ~(j > Len(queue) + 1)
      BY <2>1, <2>2 DEF TypeOK
    <3> HIDE DEF e
    <3> QED BY <2>2, <2>3, <3>1 DEF Departs, Departing
  <2>4. CASE Owner[c] # p
    <3>1. Departed(p)
      BY <2>1, <2>4 DEF Departed
    <3> QED BY <1>2, <2>1, <2>2, <3>1 DEF DepartInv
  <2> QED BY <2>3, <2>4
<1>6. ASSUME NEW s \in Subs, Submit(s) \/ RefuseSubmission(s) PROVE DepartInv'
  <2> SUFFICES ASSUME NEW p \in Players, Departed(p) PROVE Departs(p)'
    BY <1>6 DEF DepartInv, Departed, Submit, RefuseSubmission
  <2>1. SolutionSubmitted(s) \in Event /\ ~Comes(SolutionSubmitted(s), p)
    BY RoomAssumption DEF SolutionSubmitted, Event, Kinds, Comes
  <2>2. queue' = queue \/ queue' = Append(queue, SolutionSubmitted(s))
    BY <1>6 DEF Submit, RefuseSubmission, Send
  <2> QED BY <1>2, <2>1, <2>2 DEF DepartInv
<1> QED BY <1>3, <1>4, <1>5, <1>6 DEF Handlers

LEMMA DepartsReceive ==
  ASSUME TypeOK, NEW p \in Players, Departs(p), NEW l \in Loops, Receive(l)
  PROVE  Departs(p)'
<1> USE DEF inputVars, rosterVars, tableVars, loopVars, workVars, guildVars, logVars, pastVars
<1> DEFINE e == queue[1]
<1>1. /\ Len(queue) \in Nat \ {0} /\ e = Head(queue) /\ e \in Event /\ 1 \in 1..Len(queue)
      /\ Len(queue') = Len(queue) - 1
      /\ \A i \in 1..Len(queue') : queue'[i] = queue[i + 1] /\ i + 1 \in 1..Len(queue)
  BY DEF Receive, TypeOK
<1>2. /\ pc[l] = "receive" /\ pc'[l] = Entry(e) /\ msg'[l] = e /\ standing' = standing /\ lingering' = lingering
      /\ \A m \in Loops \ {l} : pc'[m] = pc[m] /\ msg'[m] = msg[m]
  BY <1>1 DEF Receive, TypeOK
<1>3. /\ e.kind = "PlayerLeft" => Entry(e) = "remove"
      /\ Entry(e) \in {"find", "insert"} => e.kind = "PlayerJoined"
  BY <1>1 DEF Entry, Event, Kinds
<1>4. CASE Departing(p)
  <2>1. PICK i \in 1..Len(queue) :
          Goes(queue[i], p) /\ \A j \in 1..Len(queue) : j > i => ~Comes(queue[j], p)
    BY <1>4 DEF Departing
  <2>2. CASE i = 1
    <3>1. NoneComes(p)'
      BY <1>1, <2>1, <2>2 DEF NoneComes
    <3>2. Removing(l, p)'
      BY <1>2, <1>3, <2>1, <2>2 DEF Removing, Goes
    <3> QED BY <3>1, <3>2 DEF Departs, Removed
  <2>3. CASE i # 1
    <3>1. /\ i - 1 \in 1..Len(queue') /\ queue'[i - 1] = queue[i]
          /\ \A j \in 1..Len(queue') : j > i - 1 => ~Comes(queue'[j], p)
      <4>1. i - 1 \in 1..Len(queue') /\ (i - 1) + 1 = i
        BY <1>1, <2>3
      <4>2. queue'[i - 1] = queue[i]
        BY <1>1, <4>1
      <4>3. ASSUME NEW j \in 1..Len(queue'), j > i - 1
            PROVE  ~Comes(queue'[j], p)
        <5>1. j + 1 \in 1..Len(queue) /\ j + 1 > i /\ queue'[j] = queue[j + 1]
          BY <1>1, <4>3
        <5> QED BY <2>1, <5>1
      <4> QED BY <4>1, <4>2, <4>3
    <3>2. Departing(p)'
      BY <2>1, <3>1 DEF Departing
    <3> QED BY <3>2 DEF Departs
  <2> QED BY <2>2, <2>3
<1>5. CASE NoneComes(p) /\ Removed(p)
  <2>1. NoneComes(p)' /\ ~Comes(e, p)
    BY <1>1, <1>5 DEF NoneComes
  <2>2. \A m \in Loops : Removing(m, p) => Removing(m, p)'
    BY <1>2 DEF Removing
  <2>3. \A m \in Loops : Adding(m, p)' => Adding(m, p)
    BY <1>2, <1>3, <2>1 DEF Adding, Comes
  <2> QED BY <1>2, <1>5, <2>1, <2>2, <2>3 DEF Departs, Removed, Away
<1> QED BY <1>4, <1>5 DEF Departs

\* The row of p is added by a loop that was adding it: a removal it met is known to
\* have left the row, or another one is still to come.
LEMMA DepartsAdding ==
  ASSUME TypeOK, NEW p \in Players, Departs(p), NEW l \in Loops, pc[l] = "insert",
         AddPlayer(msg[l].player), UNCHANGED <<queue, lingering>>,
         \A m \in Loops \ {l} : msg'[m] = msg[m],
         NEW to \in {"rank", "receive"}, pc' = [pc EXCEPT ![l] = to]
  PROVE  Departs(p)'
<1>1. /\ pc'[l] = to /\ \A m \in Loops \ {l} : pc'[m] = pc[m]
      /\ (Departing(p) => Departing(p)') /\ (NoneComes(p) => NoneComes(p)')
  BY DEF TypeOK, Departing, NoneComes
<1>2. \A m \in Loops : Removing(m, p) => Removing(m, p)'
  BY <1>1 DEF Removing
<1>3. \A m \in Loops : Adding(m, p)' => Adding(m, p)
  BY <1>1 DEF Adding
<1>4. CASE msg[l].player = p
  <2>1. ~Away(p)
    BY <1>4 DEF Away, Adding
  <2> QED BY <1>1, <1>2, <2>1 DEF Departs, Removed
<1>5. CASE msg[l].player # p
  <2>1. standing'[p] = standing[p]
    BY <1>5 DEF AddPlayer, TypeOK
  <2> QED BY <1>1, <1>2, <1>3, <2>1 DEF Departs, Removed, Away, Present
<1> QED BY <1>4, <1>5

\* A delete that succeeds takes the row of p away, or meets a join that may bring it
\* back; one that fails is known to leave it.
LEMMA DepartsRemoving ==
  ASSUME TypeOK, NEW p \in Players, Departs(p), NEW l \in Loops,
         RemovePlayer(l) \/ RemovePlayerFails(l)
  PROVE  Departs(p)'
<1> USE DEF inputVars, rosterVars, tableVars, loopVars, workVars, guildVars, logVars, pastVars
<1> DEFINE q == msg[l].player
<1>1. /\ pc[l] = "remove" /\ pc'[l] = "rank" /\ queue' = queue /\ msg' = msg
      /\ \A m \in Loops \ {l} : pc'[m] = pc[m]
  BY DEF RemovePlayer, RemovePlayerFails, Step, TypeOK
<1>2. q \in Players
  BY <1>1 DEF TypeOK, Event
<1>3. /\ (Departing(p) => Departing(p)') /\ (NoneComes(p) => NoneComes(p)')
      /\ \A m \in Loops : Adding(m, p)' <=> Adding(m, p)
  BY <1>1 DEF Departing, NoneComes, Adding
<1>4. CASE q = p
  <2>1. CASE RemovePlayer(l)
    <3>1. ~Present(standing', p)
      BY <1>2, <1>4, <2>1 DEF RemovePlayer, DropPlayer, TypeOK, NoRow, Present
    <3>2. p \in lingering' \/ \A m \in Loops : ~Adding(m, p)
      BY <1>4, <2>1 DEF RemovePlayer, NoteRemoval, Entering, Adding
    <3> QED BY <1>3, <3>1, <3>2 DEF Departs, Removed, Away
  <2>2. CASE RemovePlayerFails(l)
    <3>1. p \in lingering'
      BY <1>4, <2>2 DEF RemovePlayerFails
    <3> QED BY <1>3, <3>1 DEF Departs, Removed
  <2> QED BY <2>1, <2>2
<1>5. CASE q # p
  <2>1. standing'[p] = standing[p] /\ (p \in lingering => p \in lingering')
    BY <1>2, <1>5 DEF RemovePlayer, RemovePlayerFails, DropPlayer, NoteRemoval, TypeOK
  <2>2. \A m \in Loops : Removing(m, p) => Removing(m, p)'
    BY <1>1, <1>5 DEF Removing
  <2> QED BY <1>3, <2>1, <2>2 DEF Departs, Removed, Away, Present
<1> QED BY <1>4, <1>5

LEMMA DepartsLoops ==
  ASSUME TypeOK, NEW p \in Players, Departs(p), NEW l \in Loops, Serve(l) \/ Fault(l)
  PROVE  Departs(p)'
<1> USE DEF inputVars, rosterVars, tableVars, loopVars, workVars, guildVars, logVars, pastVars
<1> DEFINE Elsewhere ==
             /\ pc[l] # "remove" /\ pc'[l] # "find"
             /\ pc'[l] = "insert" => pc[l] = "find" /\ msg' = msg
             /\ \A m \in Loops \ {l} : pc'[m] = pc[m] /\ msg'[m] = msg[m]
<1>1. ASSUME Elsewhere, Present(standing', p) => Present(standing, p),
             lingering' = lingering,
             \/ queue' = queue
             \/ \E e \in Event : queue' = Append(queue, e) /\ ~Comes(e, p)
      PROVE  Departs(p)'
  <2>1. \A m \in Loops : Removing(m, p) => Removing(m, p)'
    BY <1>1 DEF Removing
  <2>2. \A m \in Loops : Adding(m, p)' => Adding(m, p)
    BY <1>1 DEF Adding
  <2> QED BY <1>1, <2>1, <2>2, DepartsKept
<1>2. ASSUME pc[l] # "receive" PROVE msg[l] \in Event
  BY <1>2 DEF TypeOK
<1>3. CASE Receive(l)
  BY <1>3, DepartsReceive
<1>4. CASE FindPlayer(l) \/ FindPlayerFails(l)
  <2>1. Elsewhere
    BY <1>4 DEF FindPlayer, FindPlayerFails, Step, TypeOK
  <2> QED BY <1>1, <1>4, <2>1 DEF FindPlayer, FindPlayerFails
<1>5. CASE InsertPlayer(l)
  BY <1>5, DepartsAdding DEF InsertPlayer, Step
<1>6. CASE InsertPlayerFails(l)
  <2>1. CASE UNCHANGED rosterVars
    <3>1. Elsewhere
      BY <1>6 DEF InsertPlayerFails, Return, TypeOK
    <3> QED BY <1>1, <1>6, <2>1, <3>1 DEF InsertPlayerFails
  <2>2. CASE AddPlayer(msg[l].player)
    BY <1>6, <2>2, DepartsAdding DEF InsertPlayerFails, Return, TypeOK
  <2> QED BY <1>6, <2>1, <2>2 DEF InsertPlayerFails
<1>7. CASE RemovePlayer(l) \/ RemovePlayerFails(l)
  BY <1>7, DepartsRemoving
<1>8. CASE AddScore(l) \/ AddScoreFails(l)
  <2>1. msg[l].player \in Players /\ pc[l] = "credit"
    BY <1>2, <1>8 DEF AddScore, AddScoreFails, Step, Return, Event
  <2>2. Present(standing', p) => Present(standing, p)
    BY <1>8, <2>1 DEF AddScore, AddScoreFails, AddRoomPlayerScore, TypeOK, Row, Present
  <2>3. Elsewhere
    BY <1>8 DEF AddScore, AddScoreFails, Step, Return, TypeOK
  <2> QED BY <1>1, <1>8, <2>2, <2>3 DEF AddScore, AddScoreFails
<1>9. CASE SendResult(l)
  <2> DEFINE e == [msg[l] EXCEPT !.kind = "SolutionResult"]
  <2>1. e \in Event /\ ~Comes(e, p)
    BY <1>2, <1>9 DEF SendResult, Return, Event, Kinds, Comes
  <2>2. queue' = Append(queue, e) /\ standing' = standing /\ lingering' = lingering
    BY <1>9 DEF SendResult, Send
  <2>3. Elsewhere
    BY <1>9 DEF SendResult, Return, TypeOK
  <2> HIDE DEF e
  <2> QED BY <1>1, <2>1, <2>2, <2>3
<1>10. CASE \/ InsertPlayerRefused(l) \/ PrepareSubmission(l) \/ AbandonSubmission(l)
            \/ PrepareSubmissionFails(l)
  <2>1. Elsewhere
    BY <1>10
    DEF InsertPlayerRefused, PrepareSubmission, AbandonSubmission, PrepareSubmissionFails,
        Step, Return, TypeOK
  <2> QED
    BY <1>1, <1>10, <2>1
    DEF InsertPlayerRefused, PrepareSubmission, AbandonSubmission, PrepareSubmissionFails
<1>11. CASE ExecuteJob(l) \/ RejectSolution(l) \/ RejectSolutionFails(l)
  <2>1. Elsewhere
    BY <1>11
    DEF ExecuteJob, RejectSolution, RejectSolutionFails, Step, Return, TypeOK
  <2> QED
    BY <1>1, <1>11, <2>1
    DEF ExecuteJob, RejectSolution, RejectSolutionFails
<1>12. CASE NotifyGuild(l) \/ MarkAccepted(l) \/ MarkAcceptedFails(l)
  <2>1. Elsewhere
    BY <1>12
    DEF NotifyGuild, MarkAccepted, MarkAcceptedFails, Step, Return, TypeOK
  <2> QED
    BY <1>1, <1>12, <2>1
    DEF NotifyGuild, MarkAccepted, MarkAcceptedFails
<1>13. CASE ReadScores(l) \/ UpdatePlaces(l) \/ UpdatePlacesFails(l)
  <2>1. Elsewhere
    BY <1>13
    DEF ReadScores, UpdatePlaces, UpdatePlacesFails, WritePlaces, Step, Return, TypeOK
  <2> QED
    BY <1>1, <1>13, <2>1
    DEF ReadScores, UpdatePlaces, UpdatePlacesFails, WritePlaces
<1>14. CASE FetchEntries(l) \/ FetchEntriesFails(l) \/ Announce(l)
  <2>1. Elsewhere
    BY <1>14
    DEF FetchEntries, FetchEntriesFails, Announce, Step, Return, TypeOK
  <2> QED
    BY <1>1, <1>14, <2>1
    DEF FetchEntries, FetchEntriesFails, Announce
<1> QED
  BY <1>3, <1>4, <1>5, <1>6, <1>7, <1>8, <1>9, <1>10, <1>11, <1>12, <1>13, <1>14
  DEF Serve, Fault

LEMMA DepartsNext == TypeOK /\ DepartInv /\ [Next]_vars => DepartInv'
<1> SUFFICES ASSUME TypeOK, DepartInv, [Next]_vars PROVE DepartInv'
  OBVIOUS
<1> USE DEF inputVars, rosterVars, tableVars, loopVars, workVars, guildVars, logVars, pastVars
<1>1. CASE Handlers
  BY <1>1, DepartsHandlers
<1>2. ASSUME NEW l \in Loops, Serve(l) \/ Fault(l)
      PROVE  DepartInv'
  <2>1. conn' = conn
    <3>1. CASE Serve(l)
      BY <3>1
      DEF Serve, Receive, FindPlayer, InsertPlayer, InsertPlayerRefused, RemovePlayer,
          PrepareSubmission, AbandonSubmission, ExecuteJob, SendResult, RejectSolution,
          AddScore, NotifyGuild, MarkAccepted, ReadScores, UpdatePlaces, FetchEntries, Announce
    <3>2. CASE Fault(l)
      BY <3>2
      DEF Fault, FindPlayerFails, InsertPlayerFails, RemovePlayerFails, PrepareSubmissionFails,
          RejectSolutionFails, AddScoreFails, MarkAcceptedFails, UpdatePlacesFails,
          FetchEntriesFails
    <3> QED BY <1>2, <3>1, <3>2
  <2> QED BY <1>2, <2>1, DepartsLoops DEF DepartInv, Departed
<1>3. CASE ReceiveGuildUpdate \/ QueryGuilds \/ QueryGuildsFails \/ UNCHANGED vars
  <2>1. UNCHANGED <<conn, queue, standing, lingering, pc, msg>>
    BY <1>3 DEF ReceiveGuildUpdate, QueryGuilds, QueryGuildsFails, vars
  <2> QED
    BY <2>1
    DEF DepartInv, Departed, Departs, Departing, NoneComes, Removed, Removing, Adding, Away
<1>4. CASE Crash
  <2> SUFFICES ASSUME NEW p \in Players PROVE Departs(p)'
    BY DEF DepartInv
  <2>1. NoneComes(p)'
    BY <1>4 DEF Crash, NoneComes
  <2>2. p \in lingering' \/ Away(p)'
    BY <1>4 DEF Crash, Away, Adding, Present
  <2> QED BY <2>1, <2>2 DEF Departs, Removed
<1> QED BY <1>1, <1>2, <1>3, <1>4 DEF Next

\* event_hub.go:281, 504 and 619-631, sse.go:53: with any number of loops, failures and
\* crashes, a player who has closed every connection is off the leaderboard once the room
\* is quiet, however joins and departures of these connections overlapped, unless the
\* delete that came last failed or met a join of the same player that another loop had
\* begun before, or the departure was lost in a crash.
THEOREM DepartedCorrect == Spec => []DepartedAreRemoved
<1>1. Init => DepartInv
  <2> SUFFICES ASSUME Init, NEW p \in Players PROVE ~Departed(p)
    BY DEF DepartInv
  <2> QED BY DEF Init, Departed
<1>2. DepartInv => DepartedAreRemoved
  <2> SUFFICES ASSUME DepartInv, Quiet, NEW p \in Players, Departed(p), p \notin lingering
               PROVE  ~Present(standing, p)
    BY DEF DepartedAreRemoved
  <2>1. ~Departing(p) /\ \A l \in Loops : ~Removing(l, p)
    BY DEF Quiet, Departing, Removing
  <2> QED BY <2>1 DEF DepartInv, Departs, Removed, Away
<1> QED BY <1>1, <1>2, DepartsNext, TypeCorrect, PTL DEF Spec

=============================================================================
