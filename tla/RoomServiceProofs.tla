-------------------------- MODULE RoomServiceProofs --------------------------
(***************************************************************************)
(* Theorems about what one room is to those who use it, for every set of   *)
(* players, connections, submissions and loops and every capacity: a place *)
(* says who is ahead of whom, a solution is judged once, and the loops, if *)
(* the channel is ample, never all wait for each other.                    *)
(***************************************************************************)
EXTENDS RoomVerdictProofs, WellFoundedInduction

----------------------------------------------------------------------------
(* What RANK computes.  The rows above p's row are the ones Better than it, *)
(* and Better orders rows, but for ties.                                    *)

Ranked(rows)   == {p \in Players : Present(rows, p)}
Above(rows, p) == {q \in Players : Present(rows, q) /\ Better(rows[q], rows[p])}

LEMMA RankingCounts ==
  ASSUME NEW rows \in [Players -> Row]
  PROVE  /\ IsFiniteSet(Ranked(rows)) /\ Cardinality(Ranked(rows)) \in Nat
         /\ \A p \in Ranked(rows) :
              /\ Above(rows, p) \subseteq Ranked(rows)
              /\ IsFiniteSet(Above(rows, p)) /\ Cardinality(Above(rows, p)) \in Nat
              /\ Ranking(rows)[p] = 1 + Cardinality(Above(rows, p))
<1>1. IsFiniteSet(Ranked(rows)) /\ Cardinality(Ranked(rows)) \in Nat
  BY RoomAssumption, FS_Subset, FS_CardinalityType DEF Ranked
<1>2. ASSUME NEW p \in Ranked(rows)
      PROVE  /\ Above(rows, p) \subseteq Ranked(rows)
             /\ IsFiniteSet(Above(rows, p)) /\ Cardinality(Above(rows, p)) \in Nat
             /\ Ranking(rows)[p] = 1 + Cardinality(Above(rows, p))
  <2>1. Above(rows, p) \subseteq Ranked(rows)
    BY DEF Above, Ranked
  <2>2. IsFiniteSet(Above(rows, p)) /\ Cardinality(Above(rows, p)) \in Nat
    BY <1>1, <2>1, FS_Subset, FS_CardinalityType
  <2>3. Ranking(rows)[p] = 1 + Cardinality(Above(rows, p))
    BY DEF Ranking, Above, Ranked
  <2> QED BY <2>1, <2>2, <2>3
<1> QED BY <1>1, <1>2

\* A row that is better is above all that are above the other one, and above it.
LEMMA RankingOrder ==
  ASSUME NEW rows \in [Players -> Row], NEW p \in Ranked(rows), NEW q \in Ranked(rows)
  PROVE  Ranking(rows)[p] < Ranking(rows)[q] <=> Better(rows[p], rows[q])
<1>1. \A r \in Players : rows[r].score \in Nat /\ rows[r].joined \in Nat
  BY DEF Row
<1>2. p \in Players /\ q \in Players
  BY DEF Ranked
<1>3. ASSUME Better(rows[p], rows[q])
      PROVE  Cardinality(Above(rows, p)) < Cardinality(Above(rows, q))
  <2>1. Above(rows, p) \subseteq Above(rows, q)
    BY <1>1, <1>2, <1>3 DEF Above, Better
  <2>2. p \in Above(rows, q) /\ p \notin Above(rows, p)
    BY <1>1, <1>2, <1>3 DEF Above, Better, Ranked
  <2> QED BY <2>1, <2>2, RankingCounts, FS_Subset
<1>4. ASSUME ~Better(rows[p], rows[q])
      PROVE  Cardinality(Above(rows, q)) <= Cardinality(Above(rows, p))
  <2>1. Above(rows, q) \subseteq Above(rows, p)
    BY <1>1, <1>2, <1>4 DEF Above, Better
  <2> QED BY <2>1, RankingCounts, FS_Subset
<1> QED BY <1>3, <1>4, RankingCounts

\* Nobody is above himself, so a place is at most the number of players ranked.
LEMMA RankingRange ==
  ASSUME NEW rows \in [Players -> Row], NEW p \in Ranked(rows)
  PROVE  Ranking(rows)[p] \in 1..Cardinality(Ranked(rows))
<1>1. p \notin Above(rows, p)
  BY DEF Above, Better, Row, Ranked
<1>2. Above(rows, p) \subseteq Ranked(rows) \ {p}
  BY <1>1, RankingCounts
<1>3. /\ IsFiniteSet(Ranked(rows) \ {p})
      /\ Cardinality(Ranked(rows) \ {p}) = Cardinality(Ranked(rows)) - 1
  BY RankingCounts, FS_RemoveElement
<1>4. Cardinality(Above(rows, p)) <= Cardinality(Ranked(rows)) - 1
  BY <1>2, <1>3, FS_Subset
<1> QED BY <1>4, RankingCounts

\* The order < on places is well founded: somebody has the smallest, and it is 1.
LEMMA RankingFirst ==
  ASSUME NEW rows \in [Players -> Row], Ranked(rows) # {}
  PROVE  \E p \in Ranked(rows) : Ranking(rows)[p] = 1
<1> DEFINE taken == {Ranking(rows)[p] : p \in Ranked(rows)}
           less  == OpToRel(<, Nat)
<1>1. taken \subseteq Nat /\ taken # {}
  BY RankingCounts
<1>2. IsWellFoundedOn(less, Nat)
  BY NatLessThanWellFounded
<1>3. \E n \in taken : \A m \in taken : <<m, n>> \notin less
  <2> HIDE DEF less, taken
  <2> QED BY <1>1, <1>2, WFMin
<1>4. PICK n \in taken : \A m \in taken : <<m, n>> \notin less
  BY <1>3
<1>5. \A m \in taken : ~(m < n)
  BY <1>1, <1>4 DEF OpToRel
<1>6. PICK p \in Ranked(rows) : n = Ranking(rows)[p]
  OBVIOUS
<1>7. Above(rows, p) = {}
  <2> SUFFICES ASSUME NEW q \in Above(rows, p) PROVE FALSE
    OBVIOUS
  <2>1. q \in Ranked(rows) /\ Better(rows[q], rows[p])
    BY DEF Above, Ranked
  <2> QED BY <1>5, <1>6, <2>1, RankingOrder
<1> QED BY <1>6, <1>7, RankingCounts, FS_EmptySet

\* calculateRoomLeaderboard: with any number of loops, failures and crashes, places
\* that are settled put the player with more points, or who joined earlier with as many,
\* before the other, and somebody first.
THEOREM PlacesCorrect == Spec => []PlacesFollowScores
<1>1. TypeOK /\ LeaderboardSettled => PlacesFollowScores
  <2> SUFFICES ASSUME TypeOK, place = Ranking(standing)
               PROVE  /\ \A p, q \in Ranked(standing) :
                           place[p] < place[q] <=> Better(standing[p], standing[q])
                      /\ \A p \in Ranked(standing) : place[p] \in 1..Cardinality(Ranked(standing))
                      /\ Ranked(standing) # {} => \E p \in Ranked(standing) : place[p] = 1
    BY DEF LeaderboardSettled, PlacesFollowScores, Ranked, Better
  <2>1. standing \in [Players -> Row]
    BY DEF TypeOK
  <2> QED BY <2>1, RankingOrder, RankingRange, RankingFirst
<1> QED BY <1>1, TypeCorrect, LeaderboardCorrect, PTL

(***************************************************************************)
(* OnlyResultsJam.  Loops that all wait wait for one reason: an empty      *)
(* channel leaves nobody to wait for room in it, and the holder of the     *)
(* mutex never waits.  If they wait for room, the channel is full of       *)
(* solutions no loop has, and of joins and departures, at most two of each *)
(* connection: an ample channel has room for them all.                     *)
(***************************************************************************)
Presences(q) == {i \in 1..Len(q) : q[i].sub = None}
Joined       == {c \in Conns : conn[c] # "new"}
Left         == {c \in Conns : conn[c] = "gone"}

\* A connection has put a join on the channel since it is open, and a departure since
\* it is gone.
PresenceInv ==
  IsFiniteSet(Conns) => Cardinality(Presences(queue)) <= Cardinality(Joined) + Cardinality(Left)

LEMMA PresencesFinite ==
  ASSUME NEW q \in Seq(Event)
  PROVE  IsFiniteSet(Presences(q)) /\ Cardinality(Presences(q)) \in Nat
<1>1. IsFiniteSet(1..Len(q))
  BY FS_Interval
<1> QED BY <1>1, FS_Subset, FS_CardinalityType DEF Presences

\* An event adds one to the joins and departures of the channel, unless it is about
\* a solution.
LEMMA PresencesAppend ==
  ASSUME NEW q \in Seq(Event), NEW e \in Event
  PROVE  Cardinality(Presences(Append(q, e))) =
           IF e.sub = None THEN Cardinality(Presences(q)) + 1 ELSE Cardinality(Presences(q))
<1> DEFINE r == Append(q, e)
           n == Len(q) + 1
<1>1. /\ Len(q) \in Nat /\ Len(r) = n /\ r[n] = e
      /\ \A i \in 1..Len(q) : r[i] = q[i]
      /\ n \notin 1..Len(q) /\ 1..n = 1..Len(q) \cup {n}
  OBVIOUS
<1>2. IsFiniteSet(Presences(q)) /\ n \notin Presences(q)
  BY <1>1, PresencesFinite DEF Presences
<1>3. Presences(r) = IF e.sub = None THEN Presences(q) \cup {n} ELSE Presences(q)
  <2> HIDE DEF r, n
  <2> QED BY <1>1 DEF Presences
<1> QED BY <1>2, <1>3, FS_AddElement

\* Taking an event from the channel adds none.
LEMMA PresencesTail ==
  ASSUME NEW q \in Seq(Event), q # <<>>
  PROVE  Cardinality(Presences(Tail(q))) <= Cardinality(Presences(q))
<1> DEFINE t == Tail(q)
           shift == [i \in Presences(t) |-> i + 1]
<1>1. /\ Len(t) = Len(q) - 1 /\ Len(q) \in Nat \ {0}
      /\ \A i \in 1..Len(t) : t[i] = q[i + 1] /\ i + 1 \in 1..Len(q)
  OBVIOUS
<1>2. shift \in Injection(Presences(t), Presences(q))
  <2>1. \A i \in Presences(t) : i \in Int /\ i + 1 \in Presences(q)
    <3> HIDE DEF t
    <3> QED BY <1>1 DEF Presences
  <2>2. \A i, j \in Presences(t) : shift[i] = shift[j] => i = j
    BY <2>1
  <2> HIDE DEF t
  <2> QED BY <2>1, <2>2 DEF Injection, IsInjective
<1> QED BY <1>2, PresencesFinite, FS_Injection

\* A join adds one to the connections that have joined, a departure to those that left.
LEMMA ConnectionsCounted ==
  ASSUME IsFiniteSet(Conns)
  PROVE  /\ IsFiniteSet(Joined) /\ Cardinality(Joined) \in Nat
         /\ IsFiniteSet(Left) /\ Cardinality(Left) \in Nat
         /\ Cardinality(Joined) <= Cardinality(Conns) /\ Cardinality(Left) <= Cardinality(Conns)
<1>1. Joined \in SUBSET Conns /\ Left \in SUBSET Conns
  BY DEF Joined, Left
<1> QED BY <1>1, FS_Subset, FS_CardinalityType

LEMMA PresenceInit == Init => PresenceInv
<1> SUFFICES ASSUME Init, IsFiniteSet(Conns)
             PROVE  Cardinality(Presences(queue)) <= Cardinality(Joined) + Cardinality(Left)
  BY DEF PresenceInv
<1>1. Presences(queue) = {}
  BY DEF Init, Presences
<1> QED BY <1>1, ConnectionsCounted, FS_EmptySet

\* A step that adds no join or departure, and brings no connection back.
LEMMA PresenceKept ==
  ASSUME TypeOK, PresenceInv, UNCHANGED conn,
         \/ queue' = queue
         \/ queue # <<>> /\ queue' = Tail(queue)
         \/ \E e \in Event : e.sub # None /\ queue' = Append(queue, e)
  PROVE  PresenceInv'
<1>1. /\ queue \in Seq(Event) /\ Cardinality(Presences(queue)) \in Nat
      /\ queue' \in Seq(Event) /\ Cardinality(Presences(queue')) \in Nat
  <2>1. queue \in Seq(Event) /\ queue' \in Seq(Event)
    <3>1. queue # <<>> => Tail(queue) \in Seq(Event)
      BY DEF TypeOK
    <3>2. \A e \in Event : Append(queue, e) \in Seq(Event)
      BY DEF TypeOK
    <3> QED BY <3>1, <3>2 DEF TypeOK
  <2> QED BY <2>1, PresencesFinite
<1>2. Cardinality(Presences(queue')) <= Cardinality(Presences(queue))
  <2>1. CASE queue' = queue
    BY <1>1, <2>1
  <2>2. CASE queue # <<>> /\ queue' = Tail(queue)
    BY <1>1, <2>2, PresencesTail
  <2>3. ASSUME NEW e \in Event, e.sub # None, queue' = Append(queue, e)
        PROVE  Cardinality(Presences(queue')) <= Cardinality(Presences(queue))
    BY <1>1, <2>3, PresencesAppend
  <2> QED BY <2>1, <2>2, <2>3
<1>3. Joined' = Joined /\ Left' = Left /\ Presences(queue)' = Presences(queue')
  BY DEF Joined, Left, Presences
<1>4. IsFiniteSet(Conns) => Cardinality(Joined) \in Nat /\ Cardinality(Left) \in Nat
  BY ConnectionsCounted
<1> QED BY <1>1, <1>2, <1>3, <1>4 DEF PresenceInv

LEMMA PresenceHandlers ==
  ASSUME TypeOK, PresenceInv, Handlers
  PROVE  PresenceInv'
<1>1. ASSUME NEW c \in Conns, Join(c)
      PROVE  PresenceInv'
  <2> SUFFICES ASSUME IsFiniteSet(Conns)
               PROVE  Cardinality(Presences(queue')) <= Cardinality(Joined') + Cardinality(Left')
    BY DEF PresenceInv, Presences
  <2>1. PlayerJoined(Owner[c]) \in Event /\ PlayerJoined(Owner[c]).sub = None
    BY RoomAssumption DEF PlayerJoined, Event, Kinds
  <2>2. /\ queue \in Seq(Event) /\ Cardinality(Presences(queue)) \in Nat
        /\ Cardinality(Presences(queue')) = Cardinality(Presences(queue)) + 1
    BY <1>1, <2>1, PresencesFinite, PresencesAppend DEF TypeOK, Join, Send
  <2>3. /\ c \notin Joined /\ Joined' = Joined \cup {c} /\ Left' = Left
    BY <1>1 DEF TypeOK, Join, Joined, Left
  <2>4. Cardinality(Joined') = Cardinality(Joined) + 1
    BY <2>3, ConnectionsCounted, FS_AddElement
  <2> QED BY <2>2, <2>3, <2>4, ConnectionsCounted DEF PresenceInv
<1>2. ASSUME NEW c \in Conns, Leave(c)
      PROVE  PresenceInv'
  <2> SUFFICES ASSUME IsFiniteSet(Conns)
               PROVE  Cardinality(Presences(queue')) <= Cardinality(Joined') + Cardinality(Left')
    BY DEF PresenceInv, Presences
  <2>1. PlayerLeft(Owner[c]) \in Event /\ PlayerLeft(Owner[c]).sub = None
    BY RoomAssumption DEF PlayerLeft, Event, Kinds
  <2>2. /\ queue \in Seq(Event) /\ Cardinality(Presences(queue)) \in Nat
        /\ Cardinality(Presences(queue')) = Cardinality(Presences(queue)) + 1
    BY <1>2, <2>1, PresencesFinite, PresencesAppend DEF TypeOK, Leave, Send
  <2>3. /\ c \notin Left /\ Left' = Left \cup {c} /\ Joined' = Joined
    BY <1>2 DEF TypeOK, Leave, Joined, Left
  <2>4. Cardinality(Left') = Cardinality(Left) + 1
    BY <2>3, ConnectionsCounted, FS_AddElement
  <2> QED BY <2>2, <2>3, <2>4, ConnectionsCounted DEF PresenceInv
<1>3. ASSUME NEW c \in Conns, Disconnect(c)
      PROVE  PresenceInv'
  <2>1. Joined' = Joined /\ Left' = Left /\ queue' = queue
    BY <1>3 DEF TypeOK, Disconnect, Joined, Left
  <2> QED BY <2>1 DEF PresenceInv, Presences
<1>4. ASSUME NEW s \in Subs, Submit(s)
      PROVE  PresenceInv'
  <2>1. SolutionSubmitted(s) \in Event /\ SolutionSubmitted(s).sub # None
    BY RoomAssumption DEF SolutionSubmitted, Event, Kinds
  <2> QED BY <1>4, <2>1, PresenceKept DEF Submit, Send
<1>5. ASSUME NEW s \in Subs, RefuseSubmission(s)
      PROVE  PresenceInv'
  BY <1>5, PresenceKept DEF RefuseSubmission, inputVars
<1> QED BY <1>1, <1>2, <1>3, <1>4, <1>5 DEF Handlers

LEMMA PresenceNext == TypeOK /\ CarrierInv /\ PresenceInv /\ [Next]_vars => PresenceInv'
<1> SUFFICES ASSUME TypeOK, CarrierInv, PresenceInv, [Next]_vars PROVE PresenceInv'
  OBVIOUS
<1>1. CASE Handlers
  BY <1>1, PresenceHandlers
<1>2. ASSUME NEW l \in Loops, Receive(l)
      PROVE  PresenceInv'
  BY <1>2, PresenceKept DEF Receive
\* The result a loop sends back names the solution it judges.
<1>3. ASSUME NEW l \in Loops, SendResult(l)
      PROVE  PresenceInv'
  <2> DEFINE e == [msg[l] EXCEPT !.kind = "SolutionResult"]
  <2>1. pc[l] = "reply" /\ queue' = Append(queue, e) /\ UNCHANGED conn
    BY <1>3 DEF SendResult, Return, Send
  <2>2. msg[l] \in Event /\ msg[l].kind = "SolutionSubmitted" /\ msg[l].sub \in Subs
    BY <2>1 DEF TypeOK, CarrierInv, LoopFormed, WellFormed, Handles
  <2>3. e \in Event /\ e.sub # None
    BY <2>2, RoomAssumption DEF Event, Kinds
  <2> QED BY <2>1, <2>3, PresenceKept
<1>4. ASSUME NEW l \in Loops, Serve(l) \/ Fault(l), ~Receive(l), ~SendResult(l)
      PROVE  UNCHANGED <<queue, conn>>
  BY <1>4
  DEF Serve, Fault, FindPlayer, InsertPlayer, InsertPlayerRefused, RemovePlayer,
      PrepareSubmission, AbandonSubmission, ExecuteJob, RejectSolution, AddScore, NotifyGuild,
      MarkAccepted, ReadScores, UpdatePlaces, FetchEntries, Announce, FindPlayerFails,
      InsertPlayerFails, RemovePlayerFails, PrepareSubmissionFails, RejectSolutionFails,
      AddScoreFails, MarkAcceptedFails, UpdatePlacesFails, FetchEntriesFails, inputVars
<1>5. CASE ReceiveGuildUpdate \/ QueryGuilds \/ QueryGuildsFails \/ UNCHANGED vars
  <2>1. UNCHANGED <<queue, conn>>
    BY <1>5 DEF ReceiveGuildUpdate, QueryGuilds, QueryGuildsFails, vars, inputVars
  <2> QED BY <2>1, PresenceKept
<1>6. CASE Crash
  <2> SUFFICES ASSUME IsFiniteSet(Conns)
               PROVE  Cardinality(Presences(queue')) <= Cardinality(Joined') + Cardinality(Left')
    BY DEF PresenceInv, Presences
  <2>1. Presences(queue') = {}
    BY <1>6 DEF Crash, Presences
  <2>2. Joined' \in SUBSET Conns /\ Left' \in SUBSET Conns
    BY DEF Joined, Left
  <2>3. Cardinality(Joined') \in Nat /\ Cardinality(Left') \in Nat
    BY <2>2, FS_Subset, FS_CardinalityType
  <2> QED BY <2>1, <2>3, FS_EmptySet
<1> QED BY <1>1, <1>2, <1>3, <1>4, <1>5, <1>6, PresenceKept DEF Next

\* The solutions on the channel, and those the loops hold, when all have a result.
Queued == {queue[i].sub : i \in 1..Len(queue) \ Presences(queue)}
Held   == {msg[l].sub : l \in Loops}

\* There are as many of them as loops, and as events that are no join or departure.
LEMMA SolutionsCounted ==
  ASSUME TypeOK, CarrierInv, IsFiniteSet(Subs), IsFiniteSet(Loops),
         \A l \in Loops : pc[l] = "reply"
  PROVE  Cardinality(Loops) + Len(queue) - Cardinality(Presences(queue)) <= Cardinality(Subs)
<1> DEFINE posts == 1..Len(queue) \ Presences(queue)
           inQueue == [i \in posts |-> queue[i].sub]
           inHand  == [l \in Loops |-> msg[l].sub]
<1>1. Len(queue) \in Nat /\ IsFiniteSet(1..Len(queue)) /\ Cardinality(1..Len(queue)) = Len(queue)
  <2>1. Len(queue) \in Nat
    BY DEF TypeOK
  <2> QED BY <2>1, FS_Interval
<1>2. /\ IsFiniteSet(posts) /\ Cardinality(posts) = Len(queue) - Cardinality(Presences(queue))
      /\ Cardinality(Presences(queue)) \in Nat
  <2>1. 1..Len(queue) \cap Presences(queue) = Presences(queue)
    BY DEF Presences
  <2> QED BY <1>1, <2>1, FS_Difference, PresencesFinite DEF TypeOK
<1>3. \A l \in Loops : Carries(l) /\ msg[l].sub \in Subs
  BY RoomAssumption DEF CarrierInv, LoopFormed, Handles, WellFormed, Carries
<1>4. \A i \in posts : i \in 1..Len(queue) /\ queue[i].sub # None /\ queue[i].sub \in Subs
  BY DEF Presences, CarrierInv, QueueFormed, WellFormed
<1>5. Held \subseteq Subs /\ Queued \subseteq Subs /\ Held \cap Queued = {}
  BY <1>3, <1>4 DEF Held, Queued, CarrierInv, OneCarrier
<1>6. inHand \in Injection(Loops, Held) /\ inQueue \in Injection(posts, Queued)
  <2>1. \A l, m \in Loops : inHand[l] = inHand[m] => l = m
    BY <1>3 DEF CarrierInv, OneCarrier
  <2>2. \A i, j \in posts : inQueue[i] = inQueue[j] => i = j
    BY <1>4 DEF CarrierInv, OneCarrier
  <2>3. inHand \in [Loops -> Held] /\ inQueue \in [posts -> Queued]
    BY DEF Held, Queued
  <2> QED BY <2>1, <2>2, <2>3 DEF Injection, IsInjective
<1>7. /\ IsFiniteSet(Held) /\ IsFiniteSet(Queued)
      /\ Cardinality(Held \cup Queued) <= Cardinality(Subs)
  BY <1>5, FS_Subset
<1>8. Cardinality(Held \cup Queued) = Cardinality(Held) + Cardinality(Queued)
  <2>1. Cardinality(Held \cap Queued) = 0
    BY <1>5, FS_EmptySet
  <2>2. Cardinality(Held) \in Nat /\ Cardinality(Queued) \in Nat
    BY <1>7, FS_CardinalityType
  <2>3. Cardinality(Held \cup Queued)
          = Cardinality(Held) + Cardinality(Queued) - Cardinality(Held \cap Queued)
    BY <1>7, FS_Union
  <2> QED BY <2>1, <2>2, <2>3
<1>9. Cardinality(Loops) <= Cardinality(Held) /\ Cardinality(posts) <= Cardinality(Queued)
  BY <1>6, <1>7, FS_Injection
<1>10. /\ Cardinality(Loops) \in Nat /\ Cardinality(Subs) \in Nat
       /\ Cardinality(Held) \in Nat /\ Cardinality(Queued) \in Nat
  BY <1>7, FS_CardinalityType
<1> HIDE DEF posts
<1> QED BY <1>1, <1>2, <1>7, <1>8, <1>9, <1>10

LEMMA JamNeedsScarcity ==
  ASSUME TypeOK, CarrierInv, PresenceInv, ~HasRoom, \A l \in Loops : pc[l] = "reply"
  PROVE  ~Ample
<1> SUFFICES ASSUME IsFiniteSet(Subs), IsFiniteSet(Conns), IsFiniteSet(Loops)
             PROVE  Capacity + Cardinality(Loops) <= Cardinality(Subs) + 2 * Cardinality(Conns)
  <2>1. /\ IsFiniteSet(Subs) => Cardinality(Subs) \in Nat
        /\ IsFiniteSet(Conns) => Cardinality(Conns) \in Nat
        /\ IsFiniteSet(Loops) => Cardinality(Loops) \in Nat
    BY FS_CardinalityType
  <2> QED BY <2>1, RoomAssumption DEF Ample
<1>1. Len(queue) = Capacity /\ Capacity \in Nat
  BY RoomAssumption DEF TypeOK, HasRoom
<1>2. Cardinality(Presences(queue)) \in Nat
  BY PresencesFinite DEF TypeOK
<1>3. Cardinality(Presences(queue)) <= Cardinality(Joined) + Cardinality(Left)
  BY DEF PresenceInv
<1>4. Cardinality(Subs) \in Nat /\ Cardinality(Conns) \in Nat /\ Cardinality(Loops) \in Nat
  BY FS_CardinalityType
<1> QED BY <1>1, <1>2, <1>3, <1>4, SolutionsCounted, ConnectionsCounted

\* event_hub.go:357: with any number of loops, whatever fails, loops that all wait either
\* have nothing to do, or all have a result the full channel does not take, and an ample
\* channel takes it: the mutex and an empty channel jam nobody.
THEOREM OnlyResultsJamCorrect == Spec => []OnlyResultsJam
<1>1. TypeOK /\ LeaderboardInv /\ CarrierInv /\ PresenceInv => OnlyResultsJam
  <2> SUFFICES ASSUME TypeOK, LeaderboardInv, CarrierInv, PresenceInv,
                      \A l \in Loops : Waits(l)
               PROVE  Quiet \/ (~Ample /\ \A l \in Loops : pc[l] = "reply")
    BY DEF OnlyResultsJam
  \* The holder of the mutex is at the statement that writes the places.
  <2>1. leaderboardMu = None
    <3>1. ASSUME leaderboardMu \in Loops PROVE FALSE
      <4>1. pc[leaderboardMu] = "write"
        BY <3>1 DEF LeaderboardInv
      <4> QED BY <3>1, <4>1 DEF Waits
    <3> QED BY <3>1 DEF TypeOK
  <2>2. \A l \in Loops : \/ pc[l] = "receive" /\ queue = <<>>
                         \/ pc[l] = "reply" /\ ~HasRoom
    BY <2>1 DEF Waits
  <2>3. CASE queue = <<>>
    <3>1. HasRoom
      BY <2>3, RoomAssumption DEF HasRoom
    <3> QED BY <2>2, <2>3, <3>1 DEF Quiet
  <2>4. CASE queue # <<>>
    <3>1. \A l \in Loops : pc[l] = "reply" /\ ~HasRoom
      BY <2>2, <2>4
    <3>2. ~HasRoom
      BY <3>1, RoomAssumption
    <3> QED BY <3>1, <3>2, JamNeedsScarcity
  <2> QED BY <2>3, <2>4
<1> QED
  BY <1>1, PresenceInit, PresenceNext, TypeCorrect, LeaderboardInvCorrect, CarrierCorrect, PTL
  DEF Spec

(***************************************************************************)
(* JudgedOnce: the room implements JobService for those who post.  A       *)
(* solution is stored by the loop that carries it, which finds it queued   *)
(* when it prepares it and pending when it has the verdict: the submission *)
(* has had none before.                                                    *)
(***************************************************************************)
\* What a step does to the status of a submission is a step of the service, or none.
StatusMoves(s) ==
  \/ status[s] = "unsent" /\ status'[s] \in {"queued", "refused"}
  \/ status[s] = "queued" /\ status'[s] \in {"pending", "unstored"}
  \/ status[s] = "pending" /\ status'[s] \in Judged

LEMMA JudgingStep ==
  ASSUME TypeOK, NEW s \in Subs, NEW st, status' = [status EXCEPT ![s] = st], StatusMoves(s)
  PROVE  [Judging!Next]_(Judging!vars)
<1>1. status'[s] = st /\ \A r \in Subs : r # s => status'[r] = status[r]
  BY DEF TypeOK
<1>2. CASE status[s] = "unsent" /\ st = "queued"
  <2>1. Judging!Accept(s)
    BY <1>1, <1>2 DEF Judging!Accept, Judged
  <2> QED BY <2>1 DEF Judging!Next
<1>3. CASE status[s] = "unsent" /\ st = "refused"
  <2>1. Judging!Refuse(s)
    BY <1>1, <1>3 DEF Judging!Refuse, Judged
  <2> QED BY <2>1 DEF Judging!Next
<1>4. CASE status[s] = "queued" /\ st \in {"pending", "unstored"}
  BY <1>1, <1>4 DEF Judging!vars, Judged
<1>5. CASE status[s] = "pending" /\ st \in Judged
  <2>1. Judging!Answer(s)
    BY <1>1, <1>5 DEF Judging!Answer, Judged
  <2> QED BY <2>1 DEF Judging!Next
<1> QED BY <1>1, <1>2, <1>3, <1>4, <1>5 DEF StatusMoves

\* A loop stores something for the submission of its event.
LEMMA StoreJudges ==
  ASSUME TypeOK, CarrierInv, NEW l \in Loops, NEW st, Store(l, st),
         \/ pc[l] = "prepare" /\ st \in {"pending", "unstored"}
         \/ pc[l] \in {"reject", "accept"} /\ st \in Judged
  PROVE  [Judging!Next]_(Judging!vars)
<1>1. msg[l].sub \in Subs /\ msg[l].sub # None
  BY RoomAssumption DEF CarrierInv, LoopFormed, WellFormed, Handles
<1>2. status[msg[l].sub] = IF pc[l] = "prepare" THEN "queued" ELSE "pending"
  BY <1>1, CarriedAlone
<1>3. status' = [status EXCEPT ![msg[l].sub] = st] /\ status'[msg[l].sub] = st
  BY <1>1 DEF Store, TypeOK
<1>4. StatusMoves(msg[l].sub)
  BY <1>2, <1>3 DEF StatusMoves
<1> QED BY <1>1, <1>3, <1>4, JudgingStep

LEMMA JudgingLoops ==
  ASSUME TypeOK, CarrierInv, NEW l \in Loops, Serve(l) \/ Fault(l)
  PROVE  [Judging!Next]_(Judging!vars)
<1>1. CASE PrepareSubmission(l)
  BY <1>1, StoreJudges DEF PrepareSubmission, Step
<1>2. CASE AbandonSubmission(l)
  <2>1. PICK o \in Outcomes : Store(l, IF o = "language" THEN "unstored" ELSE "pending")
    BY <1>2 DEF AbandonSubmission
  <2> QED BY <1>2, <2>1, StoreJudges DEF AbandonSubmission, Return
<1>3. CASE PrepareSubmissionFails(l)
  BY <1>3, StoreJudges DEF PrepareSubmissionFails, Return
<1>4. CASE RejectSolution(l)
  BY <1>4, StoreJudges DEF RejectSolution, Return, Judged
<1>5. CASE MarkAccepted(l)
  BY <1>5, StoreJudges DEF MarkAccepted, Return, Judged
\* The other steps store nothing about a submission.
<1>6. ASSUME UNCHANGED status
      PROVE  [Judging!Next]_(Judging!vars)
  BY <1>6 DEF Judging!vars
<1>7. CASE \/ Receive(l) \/ FindPlayer(l) \/ InsertPlayer(l) \/ InsertPlayerRefused(l)
           \/ RemovePlayer(l) \/ ExecuteJob(l) \/ SendResult(l) \/ AddScore(l)
           \/ NotifyGuild(l) \/ ReadScores(l) \/ UpdatePlaces(l) \/ FetchEntries(l)
           \/ Announce(l)
  <2>1. UNCHANGED status
    BY <1>7
    DEF Receive, FindPlayer, InsertPlayer, InsertPlayerRefused, RemovePlayer, ExecuteJob,
        SendResult, AddScore, NotifyGuild, ReadScores, UpdatePlaces, FetchEntries, Announce,
        tableVars
  <2> QED BY <1>6, <2>1
<1>8. CASE \/ FindPlayerFails(l) \/ InsertPlayerFails(l) \/ RemovePlayerFails(l)
           \/ RejectSolutionFails(l) \/ AddScoreFails(l) \/ MarkAcceptedFails(l)
           \/ UpdatePlacesFails(l) \/ FetchEntriesFails(l)
  <2>1. UNCHANGED status
    BY <1>8
    DEF FindPlayerFails, InsertPlayerFails, RemovePlayerFails, RejectSolutionFails,
        AddScoreFails, MarkAcceptedFails, UpdatePlacesFails, FetchEntriesFails, tableVars
  <2> QED BY <1>6, <2>1
<1> QED BY <1>1, <1>2, <1>3, <1>4, <1>5, <1>7, <1>8 DEF Serve, Fault

LEMMA JudgingNext == TypeOK /\ CarrierInv /\ [Next]_vars => [Judging!Next]_(Judging!vars)
<1> SUFFICES ASSUME TypeOK, CarrierInv, [Next]_vars PROVE [Judging!Next]_(Judging!vars)
  OBVIOUS
<1>1. ASSUME NEW s \in Subs, Submit(s) \/ RefuseSubmission(s)
      PROVE  [Judging!Next]_(Judging!vars)
  <2>1. PICK st \in {"queued", "refused"} :
          status[s] = "unsent" /\ status' = [status EXCEPT ![s] = st]
    BY <1>1 DEF Submit, RefuseSubmission
  <2>2. StatusMoves(s)
    BY <2>1 DEF StatusMoves, TypeOK
  <2> QED BY <2>1, <2>2, JudgingStep
<1>2. ASSUME NEW l \in Loops, Serve(l) \/ Fault(l)
      PROVE  [Judging!Next]_(Judging!vars)
  BY <1>2, JudgingLoops
<1>3. ASSUME NEW c \in Conns, Join(c) \/ Disconnect(c) \/ Leave(c)
      PROVE  [Judging!Next]_(Judging!vars)
  <2>1. UNCHANGED status
    BY <1>3 DEF Join, Disconnect, Leave, tableVars
  <2> QED BY <2>1 DEF Judging!vars
<1>4. CASE ReceiveGuildUpdate \/ QueryGuilds \/ QueryGuildsFails \/ UNCHANGED vars
  <2>1. UNCHANGED status
    BY <1>4 DEF ReceiveGuildUpdate, QueryGuilds, QueryGuildsFails, vars, tableVars
  <2> QED BY <2>1 DEF Judging!vars
\* A submission lost with the channel waits for its verdict for ever.
<1>5. CASE Crash
  <2>1. \A s \in Subs : status'[s] = IF status[s] = "queued" THEN "lost" ELSE status[s]
    BY <1>5 DEF Crash
  <2> QED BY <2>1 DEF Judging!vars, Judged
<1> QED BY <1>1, <1>2, <1>3, <1>4, <1>5 DEF Next, Handlers

\* event_hub.go:393-480: to those who post, the room is a JobService whatever fails and
\* however its loops interleave: it refuses a solution or takes it, stores a verdict of a
\* solution it has taken at most once, and never changes it.
THEOREM JudgedOnceCorrect == Spec => JudgedOnce
<1>1. Init => Judging!Init
  BY DEF Init, Judging!Init, Judged
<1> QED BY <1>1, JudgingNext, TypeCorrect, CarrierCorrect, PTL DEF Spec, JudgedOnce, Judging!Safety
=============================================================================
