--------------------------- MODULE RoomHubProofs ---------------------------
(***************************************************************************)
(* Theorems about one room, for every set of players, connections,         *)
(* submissions and loops, every capacity and every number of failures and  *)
(* crashes.                                                                *)
(***************************************************************************)
EXTENDS RoomHub, FiniteSetTheorems, TLAPS

----------------------------------------------------------------------------
(* What the helpers of the model return. *)

\* RANK() is a number for every player, and 0 for those without a row.
LEMMA RankingType ==
  ASSUME NEW rows \in [Players -> Row]
  PROVE  /\ Ranking(rows) \in [Players -> Nat]
         /\ \A p \in Players : ~Present(rows, p) => Ranking(rows)[p] = 0
<1>1. \A p \in Players :
        Cardinality({q \in Players : Present(rows, q) /\ Better(rows[q], rows[p])}) \in Nat
  <2> TAKE p \in Players
  <2> DEFINE above == {q \in Players : Present(rows, q) /\ Better(rows[q], rows[p])}
  <2>1. IsFiniteSet(above)
    BY RoomAssumption, FS_Subset
  <2> QED BY <2>1, FS_CardinalityType
<1> QED BY <1>1 DEF Ranking

\* Every event starts its handler at one of the handlers' first steps.
LEMMA EntryType ==
  ASSUME NEW e \in Event
  PROVE  Entry(e) \in {"find", "remove", "prepare", "credit", "reject"}
BY DEF Event, Kinds, Entry

LEMMA StatusType == \A o : Status(o) \in Verdicts
BY DEF Status, Verdicts

\* The rows and places keep their types through every statement of the room.
LEMMA RosterType ==
  ASSUME TypeOK
  PROVE  /\ \A p \in Players : AddPlayer(p) \/ DropPlayer(p) \/ AddRoomPlayerScore(p)
              => /\ standing' \in [Players -> Row]
                 /\ place' \in [Players -> Nat]
                 /\ clock' \in Nat
         /\ \A l \in Loops : WritePlaces(l) => place' \in [Players -> Nat]
         /\ Entries \in SUBSET [player : Players, score : Nat, place : Nat]
<1>1. ASSUME NEW p \in Players, AddPlayer(p)
      PROVE  standing' \in [Players -> Row] /\ place' \in [Players -> Nat] /\ clock' \in Nat
  BY <1>1 DEF TypeOK, AddPlayer, Row
<1>2. ASSUME NEW p \in Players, DropPlayer(p)
      PROVE  standing' \in [Players -> Row] /\ place' \in [Players -> Nat] /\ clock' \in Nat
  BY <1>2 DEF TypeOK, DropPlayer, Row, NoRow
<1>3. ASSUME NEW p \in Players, AddRoomPlayerScore(p)
      PROVE  standing' \in [Players -> Row] /\ place' \in [Players -> Nat] /\ clock' \in Nat
  <2>1. [standing[p] EXCEPT !.score = @ + Points] \in Row
    <3>1. standing[p] \in Row
      BY DEF TypeOK
    <3>2. ASSUME NEW r \in Row
          PROVE  [r EXCEPT !.score = @ + Points] \in Row
      BY DEF Row, Points
    <3> QED BY <3>1, <3>2
  <2>2. standing' = [standing EXCEPT ![p] = [standing[p] EXCEPT !.score = @ + Points]]
        \/ standing' = standing
    BY <1>3 DEF TypeOK, AddRoomPlayerScore
  <2> QED BY <1>3, <2>1, <2>2 DEF TypeOK, AddRoomPlayerScore
<1>4. ASSUME NEW l \in Loops, WritePlaces(l)
      PROVE  place' \in [Players -> Nat]
  <2>1. Ranking(snapshot[l]) \in [Players -> Nat]
    BY RankingType DEF TypeOK
  <2> QED BY <1>4, <2>1 DEF TypeOK, WritePlaces
<1>5. Entries \in SUBSET [player : Players, score : Nat, place : Nat]
  BY DEF TypeOK, Entries, Row
<1> QED BY <1>1, <1>2, <1>3, <1>4, <1>5

\* A loop that moves to its next step, or returns, still holds an event exactly
\* while it serves one.
LEMMA LoopType ==
  ASSUME TypeOK, NEW l \in Loops, NEW from \in Labels, from # "receive",
         NEW to \in Labels, Step(l, from, to) \/ Return(l, from)
  PROVE  /\ pc' \in [Loops -> Labels]
         /\ msg' \in [Loops -> Event \cup {None}]
         /\ \A m \in Loops : pc'[m] # "receive" => msg'[m] \in Event
<1>1. "receive" \in Labels
  BY DEF Labels
<1>2. CASE Step(l, from, to)
  BY <1>2 DEF TypeOK, Step
<1>3. CASE Return(l, from)
  BY <1>1, <1>3 DEF TypeOK, Return
<1> QED BY <1>2, <1>3

Refreshes == {"rank", "board", "guild", "order"}

\* A failing statement counts as a failure and may leave a refresh overdue.
LEMMA FailureType ==
  ASSUME TypeOK
  PROVE  /\ Fail => faults' \in Nat
         /\ \A rs \in SUBSET Refreshes :
              Skip(rs) => overdue' \in SUBSET Refreshes
<1>1. Fail => faults' \in Nat
  BY DEF TypeOK, Fail
<1>2. ASSUME NEW rs \in SUBSET Refreshes, Skip(rs)
      PROVE  overdue' \in SUBSET Refreshes
  BY <1>2 DEF TypeOK, Skip, Refreshes
<1> QED BY <1>1, <1>2

(***************************************************************************)
(* Type correctness.                                                       *)
(***************************************************************************)
LEMMA TypeInit == Init => TypeOK
<1> SUFFICES ASSUME Init PROVE TypeOK
  OBVIOUS
<1>1. queue \in Seq(Event) /\ Len(queue) <= Capacity
  BY RoomAssumption DEF Init
<1>2. standing \in [Players -> Row] /\ place \in [Players -> Nat] /\ clock \in Nat
  BY DEF Init, Row, NoRow
<1>3. /\ pc \in [Loops -> Labels]
      /\ msg \in [Loops -> Event \cup {None}]
      /\ \A l \in Loops : pc[l] # "receive" => msg[l] \in Event
  BY DEF Init, Labels
<1>4. snapshot \in [Loops -> [Players -> Row]]
  BY DEF Init, Row, NoRow
<1>5. /\ conn \in [Conns -> {"new", "open", "closing", "gone"}]
      /\ status \in [Subs -> {"unsent", "refused", "queued", "lost", "unstored",
                              "pending", "accepted", "wrong_answer"}]
      /\ outcome \in [Subs -> Outcomes \cup {None}]
      /\ overdue \in SUBSET Refreshes
      /\ superseded \subseteq Loops /\ lingering \subseteq Players
  BY DEF Init, Refreshes
<1>6. /\ fetched \in [Loops -> SUBSET [player : Players, score : Nat, place : Nat]]
      /\ board \in SUBSET [player : Players, score : Nat, place : Nat]
      /\ leaderboardMu \in Loops \cup {None}
  BY DEF Init
<1>7. guildUpdates \in 0..GuildCapacity /\ faults \in Nat /\ crashes \in Nat
  BY RoomAssumption DEF Init
<1>8. hubQuerying \in BOOLEAN /\ unseen \in BOOLEAN
  BY DEF Init
<1> QED BY <1>1, <1>2, <1>3, <1>4, <1>5, <1>6, <1>7, <1>8 DEF TypeOK, Refreshes

LEMMA TypeHandlers ==
  ASSUME TypeOK, Handlers
  PROVE  TypeOK'
<1> USE DEF inputVars, rosterVars, tableVars, loopVars, workVars, guildVars, logVars, pastVars
<1>1. ASSUME NEW e \in Event, Send(e)
      PROVE  queue' \in Seq(Event) /\ Len(queue') <= Capacity
  BY <1>1, RoomAssumption DEF TypeOK, Send, HasRoom
<1>2. ASSUME NEW c \in Conns, Join(c)
      PROVE  TypeOK'
  <2>1. PlayerJoined(Owner[c]) \in Event
    BY RoomAssumption DEF PlayerJoined, Event, Kinds
  <2> QED BY <1>1, <1>2, <2>1 DEF TypeOK, Join
<1>3. ASSUME NEW c \in Conns, Disconnect(c)
      PROVE  TypeOK'
  BY <1>3 DEF TypeOK, Disconnect
<1>4. ASSUME NEW c \in Conns, Leave(c)
      PROVE  TypeOK'
  <2>1. PlayerLeft(Owner[c]) \in Event
    BY RoomAssumption DEF PlayerLeft, Event, Kinds
  <2> QED BY <1>1, <1>4, <2>1 DEF TypeOK, Leave
<1>5. ASSUME NEW s \in Subs, Submit(s)
      PROVE  TypeOK'
  <2>1. SolutionSubmitted(s) \in Event
    BY RoomAssumption DEF SolutionSubmitted, Event, Kinds
  <2> QED BY <1>1, <1>5, <2>1 DEF TypeOK, Submit
<1>6. ASSUME NEW s \in Subs, RefuseSubmission(s)
      PROVE  TypeOK'
  BY <1>6 DEF TypeOK, RefuseSubmission
<1> QED BY <1>2, <1>3, <1>4, <1>5, <1>6 DEF Handlers

\* One step per action of a loop, failing statements included.
LEMMA TypeLoops ==
  ASSUME TypeOK, NEW l \in Loops, Serve(l) \/ Fault(l)
  PROVE  TypeOK'
<1> USE DEF inputVars, rosterVars, tableVars, loopVars, workVars, guildVars, logVars, pastVars, Refreshes
<1>1. CASE Receive(l)
  <2>1. Head(queue) \in Event /\ queue' \in Seq(Event) /\ Len(queue') <= Capacity
    BY <1>1, RoomAssumption DEF TypeOK, Receive
  <2>2. Entry(Head(queue)) \in Labels
    BY <2>1, EntryType DEF Labels
  <2> QED BY <1>1, <2>1, <2>2 DEF TypeOK, Receive
<1>2. CASE FindPlayer(l)
  BY <1>2, LoopType DEF TypeOK, FindPlayer, Labels
<1>3. CASE FindPlayerFails(l)
  BY <1>3, LoopType, FailureType DEF TypeOK, FindPlayerFails, Labels
<1>4. CASE InsertPlayer(l)
  <2>1. msg[l].player \in Players
    BY <1>4 DEF TypeOK, InsertPlayer, Step, Event
  <2>2. standing' \in [Players -> Row] /\ place' \in [Players -> Nat] /\ clock' \in Nat
    BY <1>4, <2>1, RosterType DEF InsertPlayer
  <2> QED BY <1>4, <2>2, LoopType DEF TypeOK, InsertPlayer, Labels
<1>5. CASE InsertPlayerRefused(l)
  BY <1>5, LoopType DEF TypeOK, InsertPlayerRefused, Labels
<1>6. CASE InsertPlayerFails(l)
  <2>1. msg[l].player \in Players
    BY <1>6 DEF TypeOK, InsertPlayerFails, Return, Event
  <2>2. /\ standing' \in [Players -> Row] /\ place' \in [Players -> Nat] /\ clock' \in Nat
        /\ overdue' \in SUBSET Refreshes
    <3>1. CASE UNCHANGED <<rosterVars, overdue>>
      BY <3>1 DEF TypeOK
    <3>2. CASE AddPlayer(msg[l].player) /\ Skip({"rank", "board"})
      BY <3>2, <2>1, RosterType, FailureType
    <3> QED BY <1>6, <3>1, <3>2 DEF InsertPlayerFails
  <2> QED BY <1>6, <2>2, LoopType, FailureType DEF TypeOK, InsertPlayerFails, Labels
<1>7. CASE RemovePlayer(l)
  <2>1. msg[l].player \in Players
    BY <1>7 DEF TypeOK, RemovePlayer, Step, Event
  <2>2. standing' \in [Players -> Row] /\ place' \in [Players -> Nat] /\ clock' \in Nat
    BY <1>7, <2>1, RosterType DEF RemovePlayer
  <2>3. lingering' \subseteq Players /\ UNCHANGED <<outcome, superseded>>
    BY <1>7, <2>1 DEF TypeOK, RemovePlayer, NoteRemoval
  <2> QED BY <1>7, <2>2, <2>3, LoopType DEF TypeOK, RemovePlayer, Labels
<1>8. CASE RemovePlayerFails(l)
  <2>1. msg[l].player \in Players
    BY <1>8 DEF TypeOK, RemovePlayerFails, Step, Event
  <2> QED BY <1>8, <2>1, LoopType, FailureType DEF TypeOK, RemovePlayerFails, Labels
<1>9. CASE PrepareSubmission(l)
  <2>1. status' \in [Subs -> {"unsent", "refused", "queued", "lost", "unstored",
                             "pending", "accepted", "wrong_answer"}]
    BY <1>9 DEF TypeOK, PrepareSubmission, Store
  <2> QED BY <1>9, <2>1, LoopType DEF TypeOK, PrepareSubmission, Labels
<1>10. CASE AbandonSubmission(l)
  <2>1. PICK o \in Outcomes : /\ outcome' = [outcome EXCEPT ![msg[l].sub] = o]
                              /\ Store(l, IF o = "language" THEN "unstored" ELSE "pending")
    BY <1>10 DEF AbandonSubmission
  <2>2. outcome' \in [Subs -> Outcomes \cup {None}]
    BY <2>1 DEF TypeOK
  <2>3. status' \in [Subs -> {"unsent", "refused", "queued", "lost", "unstored",
                             "pending", "accepted", "wrong_answer"}]
    BY <2>1 DEF TypeOK, Store
  <2> QED BY <1>10, <2>2, <2>3, LoopType DEF TypeOK, AbandonSubmission, Labels
<1>11. CASE PrepareSubmissionFails(l)
  <2>1. status' \in [Subs -> {"unsent", "refused", "queued", "lost", "unstored",
                             "pending", "accepted", "wrong_answer"}]
    BY <1>11 DEF TypeOK, PrepareSubmissionFails, Store
  <2> QED BY <1>11, <2>1, LoopType, FailureType DEF TypeOK, PrepareSubmissionFails, Labels
<1>12. CASE ExecuteJob(l)
  <2>1. PICK o \in Outcomes : /\ outcome' = [outcome EXCEPT ![msg[l].sub] = o]
                              /\ msg' = [msg EXCEPT ![l].status = Status(o)]
    BY <1>12 DEF ExecuteJob
  <2>2. [msg[l] EXCEPT !.status = Status(o)] \in Event
    <3>1. msg[l] \in Event
      BY <1>12 DEF TypeOK, ExecuteJob
    <3> QED BY <3>1, StatusType DEF Event
  <2>3. /\ pc' \in [Loops -> Labels]
        /\ msg' \in [Loops -> Event \cup {None}]
        /\ \A m \in Loops : pc'[m] # "receive" => msg'[m] \in Event
    BY <1>12, <2>1, <2>2 DEF TypeOK, ExecuteJob, Labels
  <2>4. outcome' \in [Subs -> Outcomes \cup {None}]
    BY <2>1 DEF TypeOK
  <2> QED BY <1>12, <2>3, <2>4 DEF TypeOK, ExecuteJob
<1>13. CASE SendResult(l)
  <2>1. msg[l] \in Event
    BY <1>13 DEF TypeOK, SendResult, Return
  <2>2. [msg[l] EXCEPT !.kind = "SolutionResult"] \in Event
    BY <2>1 DEF Event, Kinds
  <2>3. queue' \in Seq(Event) /\ Len(queue') <= Capacity
    BY <1>13, <2>2, RoomAssumption DEF TypeOK, SendResult, Send, HasRoom
  <2> QED BY <1>13, <2>3, LoopType DEF TypeOK, SendResult, Labels
<1>14. CASE RejectSolution(l)
  <2>1. status' \in [Subs -> {"unsent", "refused", "queued", "lost", "unstored",
                             "pending", "accepted", "wrong_answer"}]
    BY <1>14 DEF TypeOK, RejectSolution, Store
  <2> QED BY <1>14, <2>1, LoopType DEF TypeOK, RejectSolution, Labels
<1>15. CASE RejectSolutionFails(l)
  BY <1>15, LoopType, FailureType DEF TypeOK, RejectSolutionFails, Labels
<1>16. CASE AddScore(l)
  <2>1. msg[l].player \in Players /\ unseen' \in BOOLEAN
    BY <1>16 DEF TypeOK, AddScore, AddRoomPlayerScore, Step, Event
  <2> QED BY <1>16, <2>1, LoopType, RosterType DEF TypeOK, AddScore, Labels
<1>17. CASE AddScoreFails(l)
  <2>1. msg[l].player \in Players /\ unseen' \in BOOLEAN
    BY <1>17 DEF TypeOK, AddScoreFails, AddRoomPlayerScore, Return, Event
  <2>2. /\ standing' \in [Players -> Row] /\ place' \in [Players -> Nat] /\ clock' \in Nat
        /\ overdue' \in SUBSET Refreshes
    <3>1. CASE UNCHANGED <<rosterVars, unseen, overdue>>
      BY <3>1 DEF TypeOK
    <3>2. CASE AddRoomPlayerScore(msg[l].player) /\ Skip({"rank", "board", "guild"})
      BY <3>2, <2>1, RosterType, FailureType
    <3> QED BY <1>17, <3>1, <3>2 DEF AddScoreFails
  <2> QED BY <1>17, <2>1, <2>2, LoopType, FailureType DEF TypeOK, AddScoreFails, Labels
<1>18. CASE NotifyGuild(l)
  <2>1. guildUpdates' \in 0..GuildCapacity
    BY <1>18, RoomAssumption DEF TypeOK, NotifyGuild
  <2> QED BY <1>18, <2>1, LoopType DEF TypeOK, NotifyGuild, Labels
<1>19. CASE MarkAccepted(l)
  <2>1. status' \in [Subs -> {"unsent", "refused", "queued", "lost", "unstored",
                             "pending", "accepted", "wrong_answer"}]
    BY <1>19 DEF TypeOK, MarkAccepted, Store
  <2> QED BY <1>19, <2>1, LoopType DEF TypeOK, MarkAccepted, Labels
<1>20. CASE MarkAcceptedFails(l)
  BY <1>20, LoopType, FailureType DEF TypeOK, MarkAcceptedFails, Labels
<1>21. CASE ReadScores(l)
  BY <1>21, LoopType DEF TypeOK, ReadScores, Labels
<1>22. CASE UpdatePlaces(l)
  <2>1. standing' \in [Players -> Row] /\ place' \in [Players -> Nat] /\ clock' \in Nat
    BY <1>22, RosterType DEF TypeOK, UpdatePlaces, WritePlaces
  <2>2. snapshot' \in [Loops -> [Players -> Row]]
    BY <1>22 DEF TypeOK, UpdatePlaces, Unlock, Row, NoRow
  <2> QED BY <1>22, <2>1, <2>2, LoopType DEF TypeOK, UpdatePlaces, Unlock, Labels
<1>23. CASE UpdatePlacesFails(l)
  <2>1. standing' \in [Players -> Row] /\ place' \in [Players -> Nat] /\ clock' \in Nat
    BY <1>23, RosterType DEF TypeOK, UpdatePlacesFails, WritePlaces
  <2>2. snapshot' \in [Loops -> [Players -> Row]]
    BY <1>23 DEF TypeOK, UpdatePlacesFails, Unlock, Row, NoRow
  <2> QED BY <1>23, <2>1, <2>2, LoopType, FailureType DEF TypeOK, UpdatePlacesFails, Unlock, Labels
<1>24. CASE FetchEntries(l)
  BY <1>24, LoopType, RosterType DEF TypeOK, FetchEntries, Labels
<1>25. CASE FetchEntriesFails(l)
  <2>1. overdue' \in SUBSET Refreshes /\ faults' \in Nat
    BY <1>25, FailureType DEF FetchEntriesFails
  <2> QED BY <1>25, <2>1, LoopType DEF TypeOK, FetchEntriesFails, Labels
<1>26. CASE Announce(l)
  BY <1>26, LoopType DEF TypeOK, Announce, Labels
<1> QED
  BY <1>1, <1>2, <1>3, <1>4, <1>5, <1>6, <1>7, <1>8, <1>9, <1>10, <1>11, <1>12, <1>13,
     <1>14, <1>15, <1>16, <1>17, <1>18, <1>19, <1>20, <1>21, <1>22, <1>23, <1>24, <1>25,
     <1>26
  DEF Serve, Fault

LEMMA TypeNext == TypeOK /\ [Next]_vars => TypeOK'
<1> SUFFICES ASSUME TypeOK, [Next]_vars PROVE TypeOK'
  OBVIOUS
<1> USE DEF inputVars, rosterVars, tableVars, loopVars, workVars, guildVars, logVars, pastVars, Refreshes
<1>1. CASE Handlers
  BY <1>1, TypeHandlers
<1>2. ASSUME NEW l \in Loops, Serve(l) \/ Fault(l)
      PROVE  TypeOK'
  BY <1>2, TypeLoops
<1>3. CASE ReceiveGuildUpdate
  <2>1. guildUpdates' \in 0..GuildCapacity
    BY <1>3, RoomAssumption DEF TypeOK, ReceiveGuildUpdate
  <2>2. hubQuerying' \in BOOLEAN
    BY <1>3 DEF ReceiveGuildUpdate
  <2> QED BY <1>3, <2>1, <2>2 DEF TypeOK, ReceiveGuildUpdate
<1>4. CASE QueryGuilds
  BY <1>4 DEF TypeOK, QueryGuilds
<1>5. CASE QueryGuildsFails
  <2>1. hubQuerying' \in BOOLEAN
    BY <1>5 DEF QueryGuildsFails
  <2> QED BY <1>5, <2>1, FailureType DEF TypeOK, QueryGuildsFails
<1>6. CASE Crash
  <2>1. /\ queue' \in Seq(Event) /\ Len(queue') <= Capacity
        /\ guildUpdates' \in 0..GuildCapacity
    BY <1>6, RoomAssumption DEF Crash
  <2>2. /\ pc' \in [Loops -> Labels]
        /\ msg' \in [Loops -> Event \cup {None}]
        /\ \A m \in Loops : pc'[m] # "receive" => msg'[m] \in Event
    BY <1>6 DEF Crash, Labels
  <2>3. snapshot' \in [Loops -> [Players -> Row]]
    BY <1>6 DEF Crash, Row, NoRow
  <2>4. /\ conn' \in [Conns -> {"new", "open", "closing", "gone"}]
        /\ status' \in [Subs -> {"unsent", "refused", "queued", "lost", "unstored",
                                 "pending", "accepted", "wrong_answer"}]
    BY <1>6 DEF Crash, TypeOK
  <2>5. /\ fetched' \in [Loops -> SUBSET [player : Players, score : Nat, place : Nat]]
        /\ leaderboardMu' \in Loops \cup {None}
        /\ overdue' \in SUBSET Refreshes
        /\ superseded' \subseteq Loops /\ lingering' \subseteq Players
    BY <1>6 DEF Crash
  <2>6. crashes' \in Nat /\ hubQuerying' \in BOOLEAN
    <3>1. crashes' \in Nat
      BY <1>6 DEF Crash, TypeOK
    <3>2. hubQuerying' \in BOOLEAN
      BY <1>6 DEF Crash
    <3> QED BY <3>1, <3>2
  <2> QED BY <1>6, <2>1, <2>2, <2>3, <2>4, <2>5, <2>6 DEF TypeOK, Crash
<1>7. CASE UNCHANGED vars
  BY <1>7 DEF TypeOK, vars
<1> QED BY <1>1, <1>2, <1>3, <1>4, <1>5, <1>6, <1>7 DEF Next

\* The tables, the channels, the mutex and the loops keep the values the code can
\* give them: in particular the Events channel never exceeds its capacity and a
\* loop that serves holds an event.
THEOREM TypeCorrect == Spec => []TypeOK
BY TypeInit, TypeNext, PTL DEF Spec

(***************************************************************************)
(* LeaderboardSettled.  The mutex makes the loop that writes places the    *)
(* only one (first conjunct of LeaderboardInv), so a score, a join or a    *)
(* departure that slips between its read and its write belongs to a loop   *)
(* that has not ranked yet (third conjunct).  What is then written is the  *)
(* ranking of the table, or the table is going to be ranked again.         *)
(***************************************************************************)
LEMMA LeaderboardInit == Init => LeaderboardInv
BY RoomAssumption DEF Init, LeaderboardInv, LeaderboardSettled, Present, NoRow

\* Most steps change neither the rows, the places nor the mutex, and keep loop l
\* away from a ranking or bring it in front of one.
Passive(l) ==
  /\ UNCHANGED <<standing, place, snapshot, leaderboardMu>>
  /\ overdue \ {"board", "guild", "order"} \subseteq overdue'
  /\ \E from \in Labels \ {"rank", "write"}, to \in Labels \ {"write"} :
       /\ pc[l] = from
       /\ pc' = [pc EXCEPT ![l] = to]
       /\ from = "notify" => to = "rank"

LEMMA PassiveStep ==
  ASSUME TypeOK, LeaderboardInv, NEW l \in Loops, Passive(l)
  PROVE  LeaderboardInv'
<1>1. PICK from \in Labels \ {"rank", "write"}, to \in Labels \ {"write"} :
        /\ pc[l] = from
        /\ pc' = [pc EXCEPT ![l] = to]
        /\ from = "notify" => to = "rank"
  BY DEF Passive
<1>2. /\ pc'[l] = to
      /\ \A m \in Loops \ {l} : pc'[m] = pc[m]
  BY <1>1 DEF TypeOK
<1>3. \A m \in Loops : pc[m] \in {"notify", "rank"} => pc'[m] \in {"notify", "rank"}
  BY <1>1, <1>2
<1>4. \A m \in Loops : pc'[m] = "write" <=> pc[m] = "write"
  BY <1>1, <1>2
<1>5. "rank" \in overdue => "rank" \in overdue'
  BY DEF Passive
<1>6. LeaderboardSettled'
  BY <1>3, <1>4, <1>5 DEF LeaderboardInv, LeaderboardSettled, Passive, Busy, Ranking, Present, Better
<1> QED BY <1>3, <1>4, <1>5, <1>6 DEF LeaderboardInv, Passive, Present

\* A step that changes a row brings loop l in front of a ranking, or leaves the
\* ranking overdue.
LEMMA ChangingStep ==
  ASSUME TypeOK, LeaderboardInv, NEW l \in Loops,
         UNCHANGED <<snapshot, leaderboardMu>>,
         NEW from \in Labels \ {"notify", "rank", "write"}, pc[l] = from,
         NEW to \in {"notify", "rank", "receive"}, pc' = [pc EXCEPT ![l] = to],
         "rank" \in overdue => "rank" \in overdue',
         to = "receive" => "rank" \in overdue',
         \A p \in Players : ~Present(standing', p) => place'[p] = 0
  PROVE  LeaderboardInv'
<1>1. /\ pc'[l] = to
      /\ \A m \in Loops \ {l} : pc'[m] = pc[m]
  BY DEF TypeOK
<1>2. \A m \in Loops : pc'[m] = "write" => m # l /\ pc[m] = "write"
  BY <1>1
<1>3. \A m \in Loops : pc'[m] = "write" <=> pc[m] = "write"
  BY <1>1
<1>4. LeaderboardSettled'
  BY <1>1 DEF LeaderboardSettled, Busy
<1> QED BY <1>1, <1>2, <1>3, <1>4 DEF LeaderboardInv, Present

\* The ranking that loop l writes is the ranking of the table, unless the table
\* is going to be ranked again or the ranking is overdue.
LEMMA WritingStep ==
  ASSUME TypeOK, LeaderboardInv, NEW l \in Loops, Step(l, "write", "fetch"), Unlock(l),
         UNCHANGED standing, "rank" \in overdue => "rank" \in overdue',
         WritePlaces(l) \/ (UNCHANGED place /\ "rank" \in overdue')
  PROVE  LeaderboardInv'
<1>1. /\ pc[l] = "write" /\ pc'[l] = "fetch"
      /\ \A m \in Loops \ {l} : pc'[m] = pc[m]
  BY DEF TypeOK, Step
<1>2. leaderboardMu = l /\ \A m \in Loops \ {l} : pc[m] # "write"
  BY <1>1 DEF LeaderboardInv
<1>3. \A m \in Loops : pc'[m] # "write" /\ leaderboardMu' # m
  BY <1>1, <1>2, RoomAssumption DEF Unlock
<1>4. \A p \in Players : ~Present(standing', p) => place'[p] = 0
  BY DEF LeaderboardInv, Present, WritePlaces, TypeOK
<1>5. ASSUME "rank" \notin overdue', ~Busy({"notify", "rank", "write"})'
      PROVE  place' = Ranking(standing)'
  <2>1. WritePlaces(l) /\ snapshot[l] = standing
    BY <1>1, <1>5 DEF LeaderboardInv, Busy
  <2>2. Ranking(standing) \in [Players -> Nat]
        /\ \A p \in Players : ~Present(standing, p) => Ranking(standing)[p] = 0
    BY RankingType DEF TypeOK
  <2>3. place' \in [Players -> Nat]
    BY <2>1, RosterType
  <2>4. ASSUME NEW p \in Players PROVE place'[p] = Ranking(standing)[p]
    <3>1. CASE Present(standing, p)
      BY <2>1, <3>1 DEF WritePlaces
    <3>2. CASE ~Present(standing, p)
      BY <1>4, <2>2, <3>2 DEF Present
    <3> QED BY <3>1, <3>2
  <2>5. place' = Ranking(standing)
    BY <2>2, <2>3, <2>4
  <2> QED BY <2>5 DEF Ranking, Present, Better
<1> QED BY <1>3, <1>4, <1>5 DEF LeaderboardInv, LeaderboardSettled

LEMMA LeaderboardLoops ==
  ASSUME TypeOK, LeaderboardInv, NEW l \in Loops, Serve(l) \/ Fault(l)
  PROVE  LeaderboardInv'
<1> USE DEF inputVars, rosterVars, tableVars, loopVars, workVars, guildVars, logVars, pastVars
<1> DEFINE p == msg[l].player
<1>1. ASSUME pc[l] # "receive" PROVE p \in Players
  BY <1>1 DEF TypeOK, Event
<1>2. CASE \/ Receive(l) \/ FindPlayer(l) \/ FindPlayerFails(l)
           \/ InsertPlayerRefused(l) \/ RemovePlayerFails(l)
           \/ PrepareSubmission(l) \/ AbandonSubmission(l) \/ PrepareSubmissionFails(l)
           \/ ExecuteJob(l) \/ SendResult(l)
           \/ RejectSolution(l) \/ RejectSolutionFails(l)
           \/ NotifyGuild(l) \/ MarkAccepted(l) \/ MarkAcceptedFails(l)
           \/ FetchEntries(l) \/ FetchEntriesFails(l) \/ Announce(l)
  <2>1. Passive(l)
    <3>1. CASE Receive(l)
      <4>1. Head(queue) \in Event
        BY <3>1 DEF TypeOK, Receive
      <4> QED BY <3>1, <4>1, EntryType DEF Receive, Passive, Labels
    <3>2. CASE FindPlayer(l) \/ FindPlayerFails(l)
      BY <3>2 DEF FindPlayer, FindPlayerFails, Step, Passive, Labels
    <3>3. CASE InsertPlayerRefused(l) \/ RemovePlayerFails(l)
      BY <3>3 DEF InsertPlayerRefused, RemovePlayerFails, Step, Return, Passive, Labels
    <3>4. CASE PrepareSubmission(l) \/ AbandonSubmission(l) \/ PrepareSubmissionFails(l)
      BY <3>4 DEF PrepareSubmission, AbandonSubmission, PrepareSubmissionFails,
                  Step, Return, Passive, Labels
    <3>5. CASE ExecuteJob(l) \/ SendResult(l)
      BY <3>5 DEF ExecuteJob, SendResult, Return, Passive, Labels
    <3>6. CASE RejectSolution(l) \/ RejectSolutionFails(l)
      BY <3>6 DEF RejectSolution, RejectSolutionFails, Return, Passive, Labels
    <3>7. CASE NotifyGuild(l) \/ MarkAccepted(l) \/ MarkAcceptedFails(l)
      BY <3>7 DEF NotifyGuild, MarkAccepted, MarkAcceptedFails, Step, Return, Passive, Labels
    <3>8. CASE FetchEntries(l) \/ FetchEntriesFails(l) \/ Announce(l)
      BY <3>8 DEF FetchEntries, FetchEntriesFails, Announce, Skip, Step, Return, Passive, Labels
    <3> QED BY <1>2, <3>1, <3>2, <3>3, <3>4, <3>5, <3>6, <3>7, <3>8
  <2> QED BY <2>1, PassiveStep
<1>3. ASSUME AddPlayer(p), p \in Players
      PROVE  \A q \in Players : ~Present(standing', q) => place'[q] = 0
  BY <1>3 DEF TypeOK, AddPlayer, Present, LeaderboardInv, Row
<1>4. ASSUME DropPlayer(p), p \in Players
      PROVE  \A q \in Players : ~Present(standing', q) => place'[q] = 0
  BY <1>4 DEF TypeOK, DropPlayer, Present, LeaderboardInv, Row, NoRow
<1>5. ASSUME AddRoomPlayerScore(p), p \in Players
      PROVE  \A q \in Players : ~Present(standing', q) => place'[q] = 0
  BY <1>5 DEF TypeOK, AddRoomPlayerScore, Present, LeaderboardInv, Row
<1>6. CASE InsertPlayer(l)
  BY <1>1, <1>3, <1>6, ChangingStep DEF InsertPlayer, Step, Labels
<1>7. CASE InsertPlayerFails(l)
  BY <1>1, <1>3, <1>7, ChangingStep, PassiveStep
  DEF InsertPlayerFails, Skip, Return, Passive, Labels
<1>8. CASE RemovePlayer(l)
  BY <1>1, <1>4, <1>8, ChangingStep DEF RemovePlayer, Step, Labels
<1>9. CASE AddScore(l)
  BY <1>1, <1>5, <1>9, ChangingStep DEF AddScore, Step, Labels
<1>10. CASE AddScoreFails(l)
  BY <1>1, <1>5, <1>10, ChangingStep, PassiveStep
  DEF AddScoreFails, Skip, Return, Passive, Labels
<1>11. CASE ReadScores(l)
  <2>1. /\ pc'[l] = "write" /\ snapshot'[l] = standing' /\ leaderboardMu' = l
        /\ \A m \in Loops \ {l} : pc'[m] = pc[m] /\ pc[m] # "write"
    BY <1>11, RoomAssumption DEF TypeOK, ReadScores, Step, LeaderboardInv
  <2>2. LeaderboardSettled'
    BY <2>1 DEF LeaderboardSettled, Busy
  <2>3. \A q \in Players : ~Present(standing', q) => place'[q] = 0
    BY <1>11 DEF LeaderboardInv, ReadScores, Present
  <2> QED BY <2>1, <2>2, <2>3 DEF LeaderboardInv
<1>12. CASE UpdatePlaces(l)
  <2>1. Step(l, "write", "fetch") /\ Unlock(l) /\ WritePlaces(l)
    BY <1>12 DEF UpdatePlaces
  <2>2. UNCHANGED standing /\ ("rank" \in overdue => "rank" \in overdue')
    BY <1>12 DEF UpdatePlaces, WritePlaces
  <2> QED BY <2>1, <2>2, WritingStep
<1>13. CASE UpdatePlacesFails(l)
  BY <1>13, WritingStep DEF UpdatePlacesFails, WritePlaces, Skip
<1> QED
  BY <1>2, <1>6, <1>7, <1>8, <1>9, <1>10, <1>11, <1>12, <1>13 DEF Serve, Fault

LEMMA LeaderboardNext == TypeOK /\ LeaderboardInv /\ [Next]_vars => LeaderboardInv'
<1> SUFFICES ASSUME TypeOK, LeaderboardInv, [Next]_vars PROVE LeaderboardInv'
  OBVIOUS
<1> USE DEF inputVars, rosterVars, tableVars, loopVars, workVars, guildVars, logVars, pastVars
<1>1. ASSUME NEW l \in Loops, Serve(l) \/ Fault(l)
      PROVE  LeaderboardInv'
  BY <1>1, LeaderboardLoops
<1>2. ASSUME UNCHANGED <<standing, place, pc, snapshot, leaderboardMu>>,
             "rank" \in overdue <=> "rank" \in overdue'
      PROVE  LeaderboardInv'
  BY <1>2 DEF LeaderboardInv, LeaderboardSettled, Busy, Ranking, Present, Better
<1>3. CASE Handlers
  BY <1>2, <1>3 DEF Handlers, Join, Disconnect, Leave, Submit, RefuseSubmission
<1>4. CASE ReceiveGuildUpdate \/ QueryGuilds \/ QueryGuildsFails
  BY <1>2, <1>4 DEF ReceiveGuildUpdate, QueryGuilds, QueryGuildsFails, Skip
<1>5. CASE Crash
  <2>1. \A m \in Loops : pc'[m] # "write" /\ leaderboardMu' # m
    BY <1>5, RoomAssumption DEF Crash
  <2>2. LeaderboardSettled'
    BY <1>5 DEF Crash, LeaderboardSettled
  <2>3. \A q \in Players : ~Present(standing', q) => place'[q] = 0
    BY <1>5 DEF LeaderboardInv, Crash, Present
  <2> QED BY <2>1, <2>2, <2>3 DEF LeaderboardInv
<1>6. CASE UNCHANGED vars
  BY <1>2, <1>6 DEF vars
<1> QED BY <1>1, <1>3, <1>4, <1>5, <1>6 DEF Next

\* calculateLeaderboard: a loop between its ranking query and its update holds the
\* mutex, and the rows it has read are the ones in the table, or another loop that
\* has changed them ranks after it, or a failed ranking is overdue.
THEOREM LeaderboardInvCorrect == Spec => []LeaderboardInv
BY TypeCorrect, LeaderboardInit, LeaderboardNext, PTL DEF Spec

\* calculateLeaderboard: with any number of loops, failures and crashes, the places
\* in the table are the ranks of its scores whenever no ranking is under way or
\* overdue.
THEOREM LeaderboardCorrect == Spec => []LeaderboardSettled
<1>1. LeaderboardInv => LeaderboardSettled
  BY DEF LeaderboardInv
<1> QED BY <1>1, LeaderboardInvCorrect, PTL

(***************************************************************************)
(* GuildRefreshNotLost is inductive: a full channel holds a notification   *)
(* that is as good as the one dropped.                                     *)
(***************************************************************************)
LEMMA GuildNext == TypeOK /\ GuildRefreshNotLost /\ [Next]_vars => GuildRefreshNotLost'
<1> SUFFICES ASSUME TypeOK, GuildRefreshNotLost, [Next]_vars PROVE GuildRefreshNotLost'
  OBVIOUS
<1> USE DEF inputVars, rosterVars, tableVars, loopVars, workVars, guildVars, logVars, pastVars
<1>1. ASSUME UNCHANGED <<guildUpdates, hubQuerying, unseen>>,
             "guild" \in overdue => "guild" \in overdue',
             \A l \in Loops : pc[l] = "notify" => pc'[l] = "notify"
      PROVE  GuildRefreshNotLost'
  BY <1>1 DEF GuildRefreshNotLost, Busy
<1>2. CASE Handlers \/ UNCHANGED vars
  BY <1>1, <1>2 DEF Handlers, Join, Disconnect, Leave, Submit, RefuseSubmission, vars
<1>3. ASSUME NEW l \in Loops, Serve(l) \/ Fault(l)
      PROVE  GuildRefreshNotLost'
  <2>1. ASSUME NEW from \in Labels \ {"notify"}, NEW to \in Labels,
               pc[l] = from, pc' = [pc EXCEPT ![l] = to],
               UNCHANGED <<guildUpdates, hubQuerying, unseen>>,
               "guild" \in overdue => "guild" \in overdue'
        PROVE  GuildRefreshNotLost'
    BY <1>1, <2>1 DEF TypeOK
  <2>2. CASE Receive(l)
    <3>1. Entry(Head(queue)) \in Labels
      BY <2>2, EntryType DEF TypeOK, Receive, Labels
    <3> QED BY <2>1, <2>2, <3>1 DEF Receive, Labels
  <2>3. CASE \/ FindPlayer(l) \/ FindPlayerFails(l)
             \/ InsertPlayer(l) \/ InsertPlayerRefused(l) \/ InsertPlayerFails(l)
             \/ RemovePlayer(l) \/ RemovePlayerFails(l)
    BY <2>1, <2>3
    DEF FindPlayer, FindPlayerFails, InsertPlayer, InsertPlayerRefused, InsertPlayerFails,
        RemovePlayer, RemovePlayerFails, Skip, Step, Return, Labels
  <2>4. CASE \/ PrepareSubmission(l) \/ AbandonSubmission(l) \/ PrepareSubmissionFails(l)
             \/ ExecuteJob(l) \/ SendResult(l) \/ RejectSolution(l) \/ RejectSolutionFails(l)
    BY <2>1, <2>4
    DEF PrepareSubmission, AbandonSubmission, PrepareSubmissionFails, ExecuteJob, SendResult,
        RejectSolution, RejectSolutionFails, Step, Return, Labels
  <2>5. CASE AddScore(l)
    BY <2>5 DEF AddScore, Step, GuildRefreshNotLost, Busy, TypeOK
  <2>6. CASE AddScoreFails(l)
    <3>1. CASE UNCHANGED <<rosterVars, unseen, overdue>>
      BY <2>1, <2>6, <3>1 DEF AddScoreFails, Return, Labels
    <3>2. CASE Skip({"rank", "board", "guild"})
      BY <3>2 DEF Skip, GuildRefreshNotLost
    <3> QED BY <2>6, <3>1, <3>2 DEF AddScoreFails
  <2>7. CASE NotifyGuild(l)
    <3>1. guildUpdates' > 0
      BY <2>7, RoomAssumption DEF NotifyGuild, TypeOK
    <3> QED BY <3>1 DEF GuildRefreshNotLost
  <2>8. CASE \/ MarkAccepted(l) \/ MarkAcceptedFails(l) \/ ReadScores(l)
             \/ UpdatePlaces(l) \/ UpdatePlacesFails(l)
             \/ FetchEntries(l) \/ FetchEntriesFails(l) \/ Announce(l)
    BY <2>1, <2>8
    DEF MarkAccepted, MarkAcceptedFails, ReadScores, UpdatePlaces, UpdatePlacesFails,
        FetchEntries, FetchEntriesFails, Announce, Skip, Step, Return, Labels
  <2> QED BY <1>3, <2>2, <2>3, <2>4, <2>5, <2>6, <2>7, <2>8 DEF Serve, Fault
<1>4. CASE ReceiveGuildUpdate \/ QueryGuilds \/ QueryGuildsFails
  BY <1>4 DEF ReceiveGuildUpdate, QueryGuilds, QueryGuildsFails, Skip, GuildRefreshNotLost
<1>5. CASE Crash
  BY <1>5 DEF Crash, GuildRefreshNotLost
<1> QED BY <1>2, <1>3, <1>4, <1>5 DEF Next

\* processSolutionResult may drop its notification, but never the last one: with any
\* number of loops, a score the guild board has not seen is still announced to
\* EventHub.Start.
THEOREM GuildRefreshCorrect == Spec => []GuildRefreshNotLost
<1>1. Init => GuildRefreshNotLost
  BY DEF Init, GuildRefreshNotLost
<1> QED BY <1>1, TypeCorrect, GuildNext, PTL DEF Spec

(***************************************************************************)
(* BoardSettled.  Entries that a loop is about to announce are those of    *)
(* the table, unless another loop has read them anew since (they are       *)
(* superseded) or is about to (first conjunct).  So the board announced    *)
(* last is the table's, or somebody who has not been overtaken is about to *)
(* announce it, or an overtaken loop has spoken last (second conjunct).    *)
(***************************************************************************)
Changing == Busy({"notify", "rank", "write", "fetch"})

Fresh(l) == pc[l] = "announce" /\ l \notin superseded

BoardInv ==
  /\ \A l \in Loops : Fresh(l) /\ "board" \notin overdue => fetched[l] = Entries \/ Changing
  /\ \/ "board" \in overdue \/ "order" \in overdue
     \/ board = Entries
     \/ Changing
     \/ \E l \in Loops : Fresh(l)

LEMMA BoardImplies == BoardInv => BoardSettled
BY DEF BoardInv, BoardSettled, BoardCurrent, Announcing, Changing, Fresh, Busy

\* A step that leaves a change of the table to be read, or the board overdue.
LEMMA BoardPending == ASSUME "board" \in overdue' \/ Changing' PROVE BoardInv'
BY DEF BoardInv

\* A step of loop l that touches neither the table nor what is announced.
LEMMA BoardKept ==
  ASSUME TypeOK, BoardInv, NEW l \in Loops,
         UNCHANGED <<standing, place, fetched, board, superseded, overdue>>,
         NEW from \in Labels \ {"notify", "rank", "write", "fetch", "announce"},
         NEW to \in Labels \ {"announce"},
         pc[l] = from, pc' = [pc EXCEPT ![l] = to]
  PROVE  BoardInv'
<1>1. pc'[l] = to /\ \A m \in Loops \ {l} : pc'[m] = pc[m]
  BY DEF TypeOK
<1>2. Changing => Changing'
  BY <1>1 DEF Changing, Busy
<1>3. \A m \in Loops : Fresh(m) <=> Fresh(m)'
  BY <1>1 DEF Fresh
<1>4. Entries' = Entries
  BY DEF Entries, Present
<1> QED BY <1>2, <1>3, <1>4 DEF BoardInv

LEMMA BoardFetched ==
  ASSUME TypeOK, NEW l \in Loops, FetchEntries(l)
  PROVE  BoardInv'
<1> USE DEF inputVars, rosterVars, tableVars, loopVars, workVars, guildVars, logVars, pastVars
<1>1. /\ pc[l] = "fetch" /\ pc'[l] = "announce" /\ fetched'[l] = Entries
      /\ \A m \in Loops \ {l} : pc'[m] = pc[m]
  BY DEF FetchEntries, Step, TypeOK
<1>2. superseded' = {m \in Loops \ {l} : pc[m] = "announce"}
  BY DEF FetchEntries
<1>3. Entries' = Entries
  BY DEF FetchEntries, Entries, Present
<1>4. Fresh(l)' /\ \A m \in Loops \ {l} : ~Fresh(m)'
  BY <1>1, <1>2 DEF Fresh
<1> QED BY <1>1, <1>3, <1>4 DEF BoardInv

LEMMA BoardAnnounced ==
  ASSUME TypeOK, BoardInv, NEW l \in Loops, Announce(l)
  PROVE  BoardInv'
<1> USE DEF inputVars, rosterVars, tableVars, loopVars, workVars, guildVars, logVars, pastVars
<1>1. /\ pc[l] = "announce" /\ pc'[l] \in {"accept", "receive"} /\ board' = fetched[l]
      /\ \A m \in Loops \ {l} : pc'[m] = pc[m] /\ fetched'[m] = fetched[m]
      /\ superseded' = superseded \ {l}
  BY DEF Announce, Step, Return, TypeOK
<1>2. Entries' = Entries /\ ("board" \in overdue' <=> "board" \in overdue)
  BY DEF Announce, Entries, Present
<1>3. Changing <=> Changing'
  BY <1>1 DEF Changing, Busy
<1>4. \A m \in Loops : Fresh(m)' <=> m # l /\ Fresh(m)
  BY <1>1 DEF Fresh
<1>5. ASSUME NEW m \in Loops, Fresh(m)', "board" \notin overdue'
      PROVE  fetched'[m] = Entries' \/ Changing'
  BY <1>1, <1>2, <1>3, <1>4, <1>5 DEF BoardInv
<1>6. "board" \in overdue' \/ "order" \in overdue' \/ board' = Entries' \/ Changing'
  <2>1. CASE l \in superseded
    BY <2>1 DEF Announce
  <2>2. CASE l \notin superseded
    BY <1>1, <1>2, <1>3, <2>2 DEF BoardInv, Fresh
  <2> QED BY <2>1, <2>2
<1> QED BY <1>5, <1>6 DEF BoardInv

LEMMA BoardNext == TypeOK /\ BoardInv /\ [Next]_vars => BoardInv'
<1> SUFFICES ASSUME TypeOK, BoardInv, [Next]_vars PROVE BoardInv'
  OBVIOUS
<1> USE DEF inputVars, rosterVars, tableVars, loopVars, workVars, guildVars, logVars, pastVars
<1>1. ASSUME UNCHANGED <<standing, place, pc, fetched, board, superseded>>,
             "board" \in overdue <=> "board" \in overdue',
             "order" \in overdue <=> "order" \in overdue'
      PROVE  BoardInv'
  BY <1>1 DEF BoardInv, Changing, Fresh, Busy, Entries, Present
<1>2. CASE Handlers \/ UNCHANGED vars
  BY <1>1, <1>2 DEF Handlers, Join, Disconnect, Leave, Submit, RefuseSubmission, vars
<1>3. ASSUME NEW l \in Loops, Serve(l) \/ Fault(l)
      PROVE  BoardInv'
  <2>1. CASE Receive(l)
    <3>1. Entry(Head(queue)) \in Labels \ {"announce"}
      BY <2>1, EntryType DEF TypeOK, Receive, Labels
    <3> QED BY <2>1, <3>1, BoardKept DEF Receive, Labels
  <2>2. CASE FindPlayer(l) \/ FindPlayerFails(l) \/ InsertPlayerRefused(l)
    BY <2>2, BoardKept DEF FindPlayer, FindPlayerFails, InsertPlayerRefused, Step, Return, Labels
  <2>3. CASE PrepareSubmission(l) \/ AbandonSubmission(l) \/ PrepareSubmissionFails(l)
    BY <2>3, BoardKept
    DEF PrepareSubmission, AbandonSubmission, PrepareSubmissionFails, Step, Return, Labels
  <2>4. CASE ExecuteJob(l) \/ SendResult(l)
    BY <2>4, BoardKept DEF ExecuteJob, SendResult, Return, Labels
  <2>5. CASE RejectSolution(l) \/ RejectSolutionFails(l)
    BY <2>5, BoardKept DEF RejectSolution, RejectSolutionFails, Return, Labels
  <2>6. CASE MarkAccepted(l) \/ MarkAcceptedFails(l)
    BY <2>6, BoardKept DEF MarkAccepted, MarkAcceptedFails, Return, Labels
  <2>7. CASE InsertPlayer(l) \/ RemovePlayer(l) \/ RemovePlayerFails(l) \/ AddScore(l)
             \/ NotifyGuild(l) \/ ReadScores(l) \/ UpdatePlaces(l) \/ UpdatePlacesFails(l)
    <3>1. pc'[l] \in {"notify", "rank", "write", "fetch"}
      BY <2>7
      DEF InsertPlayer, RemovePlayer, RemovePlayerFails, AddScore, NotifyGuild, ReadScores,
          UpdatePlaces, UpdatePlacesFails, Step, TypeOK
    <3> QED BY <3>1, BoardPending DEF Changing, Busy
  <2>8. CASE InsertPlayerFails(l)
    BY <2>8, BoardPending, BoardKept DEF InsertPlayerFails, Skip, Return, Labels
  <2>9. CASE AddScoreFails(l)
    BY <2>9, BoardPending, BoardKept DEF AddScoreFails, Skip, Return, Labels
  <2>10. CASE FetchEntriesFails(l)
    BY <2>10, BoardPending DEF FetchEntriesFails, Skip
  <2> QED
    BY <1>3, <2>1, <2>2, <2>3, <2>4, <2>5, <2>6, <2>7, <2>8, <2>9, <2>10,
       BoardFetched, BoardAnnounced
    DEF Serve, Fault
<1>4. CASE ReceiveGuildUpdate \/ QueryGuilds \/ QueryGuildsFails
  BY <1>1, <1>4 DEF ReceiveGuildUpdate, QueryGuilds, QueryGuildsFails, Skip
<1>5. CASE Crash
  BY <1>5, BoardPending DEF Crash
<1> QED BY <1>2, <1>3, <1>4, <1>5 DEF Next

\* event_hub.go:455-465: with any number of loops, failures and crashes, the leaderboard
\* handed to the listeners last is the one in the table whenever no handler is on its way
\* to announce another, unless a loop has announced entries that another had read anew in
\* between, or the entries could not be read, and nothing has made up for it.
THEOREM BoardCorrect == Spec => []BoardSettled
<1>1. Init => BoardInv
  BY DEF Init, BoardInv, Fresh
<1> QED BY <1>1, BoardNext, BoardImplies, TypeCorrect, PTL DEF Spec

=============================================================================
