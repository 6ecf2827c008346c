----------------------------- MODULE FeedsProofs -----------------------------
(***************************************************************************)
(* Proofs about RoomFeed and Feeds, for any number of players, connections,*)
(* solutions, spectators and announcements.                                *)
(*                                                                         *)
(* The first half is about the feed of a room and its specification Spec;  *)
(* FeedsSpec, in which the process may end, implements it.  The second     *)
(* half is about the feed of the guilds within FeedsSpec.                  *)
(***************************************************************************)
EXTENDS Feeds, TLAPS

LEMMA TailType ==
  ASSUME NEW S, NEW q \in Seq(S), q # <<>>
  PROVE  /\ Head(q) \in S
         /\ Tail(q) \in Seq(S)
         /\ Len(Tail(q)) = Len(q) - 1
         /\ Len(q) \in Nat \ {0}
         /\ Head(q) = q[1]
         /\ \A i \in 1..Len(Tail(q)) : Tail(q)[i] = q[i + 1]
OBVIOUS

LEMMA AppendType ==
  ASSUME NEW S, NEW q \in Seq(S), NEW e \in S
  PROVE  /\ Append(q, e) \in Seq(S)
         /\ Len(Append(q, e)) = Len(q) + 1
         /\ Len(q) \in Nat
         /\ \A i \in 1..Len(q) : Append(q, e)[i] = q[i]
         /\ Append(q, e)[Len(q) + 1] = e
OBVIOUS

----------------------------------------------------------------------------
(* Types of the feed of a room. *)

LEMMA InitType == Init => TypeOK
BY FeedAssumption DEF Init, TypeOK, Stages

\* A send on the queue keeps it within its capacity.
LEMMA EnqueueType ==
  ASSUME TypeOK, NEW e \in Events, Enqueue(e)
  PROVE  queue' \in Seq(Events) /\ Len(queue') <= Capacity
BY FeedAssumption, AppendType DEF TypeOK, Enqueue

Announcements == [to : SUBSET Players, news : Nat, board : BOOLEAN]

LEMMA AnnouncementType ==
  \A n \in Nat : /\ n + 1 \in Nat /\ n + 2 \in Nat
                 /\ Board(n) \in Announcements
                 /\ \A to \in SUBSET Players : Notice(to, n) \in Announcements
BY DEF Announcements, Board, Notice

\* The three kinds of answers of the loop.
LEMMA AnnounceType ==
  ASSUME TypeOK, NEW to \in SUBSET Players,
         AnnounceBoard \/ AnnounceOnly(to) \/ AnnounceNothing
  PROVE  /\ casts' \subseteq Announcements
         /\ news' \in Nat
         /\ due' \in [Conns -> Nat]
         /\ missed' \subseteq Conns
<1>0. /\ casts \subseteq Announcements /\ news \in Nat /\ due \in [Conns -> Nat]
      /\ missed \subseteq Conns
  BY DEF TypeOK, Announcements
<1>1. CASE AnnounceBoard
  <2>1. Notice(Players, news + 1) \in Announcements /\ Board(news + 2) \in Announcements
    BY <1>0, AnnouncementType
  <2>2. casts' \subseteq Announcements
    BY <1>0, <1>1, <2>1 DEF AnnounceBoard
  <2>. QED
    BY <1>0, <1>1, <2>2 DEF AnnounceBoard
<1>2. CASE AnnounceOnly(to)
  <2>1. Notice(to, news + 1) \in Announcements
    BY <1>0, AnnouncementType
  <2>. QED
    BY <1>0, <1>2, <2>1 DEF AnnounceOnly
<1>3. CASE AnnounceNothing
  BY <1>0, <1>3 DEF AnnounceNothing
<1>. QED
  BY <1>1, <1>2, <1>3

\* Taking an event of the queue and answering it.
LEMMA TakeType ==
  ASSUME TypeOK, NEW kind, Take(kind), UNCHANGED handlerVars,
         \/ AnnounceBoard \/ AnnounceOnly(Players) \/ AnnounceOnly({Head(queue).player})
         \/ AnnounceNothing
  PROVE  TypeOK'
<1>0. queue \in Seq(Events) /\ Len(queue) <= Capacity /\ queue # <<>> /\ queue' = Tail(queue)
  BY DEF TypeOK, Take
<1>1. /\ queue' \in Seq(Events) /\ Len(queue') <= Capacity
      /\ Head(queue) \in Events
  BY <1>0, FeedAssumption, TailType
<1>2. {Head(queue).player} \in SUBSET Players
  BY <1>1 DEF Events
<1>3. /\ casts' \subseteq Announcements
      /\ news' \in Nat
      /\ due' \in [Conns -> Nat]
      /\ missed' \subseteq Conns
  BY <1>2, AnnounceType
<1>4. /\ UNCHANGED <<conn, hungup, Listerners, leaving>>
      /\ UNCHANGED <<judged, lastWord, sends, best>>
  BY DEF Take, handlerVars
<1>. QED
  BY <1>1, <1>3, <1>4 DEF TypeOK, Announcements

LEMMA NextType == TypeOK /\ [Next]_vars => TypeOK'
<1>. SUFFICES ASSUME TypeOK, [Next]_vars PROVE TypeOK'
  OBVIOUS
<1>. USE FeedAssumption DEF handlerVars, queueVars, newsVars, castVars
<1>1. ASSUME NEW c \in Conns,
             \/ Register(c) \/ HangUp(c) \/ Listen(c) \/ End(c) \/ Deregister(c) \/ Close(c)
      PROVE  TypeOK'
  <2>. USE DEF TypeOK, Stages, Move
  <2>1. CASE Register(c) \/ Deregister(c)
    <3>1. conn' \in [Conns -> Stages]
      BY <2>1 DEF Register, Deregister
    <3>2. Owner[c] \in Players /\ c \in Conns \cup {None} /\ None \in Conns \cup {None}
      OBVIOUS
    <3>3. Listerners' \in [Players -> Conns \cup {None}]
      BY <2>1, <3>2 DEF Register, Deregister
    <3>4. leaving' \subseteq Conns
      BY <2>1 DEF Register, Deregister
    <3>5. UNCHANGED <<hungup, queueVars, newsVars, castVars>>
      BY <2>1 DEF Register, Deregister
    <3>. QED
      BY <3>1, <3>3, <3>4, <3>5
  <2>2. CASE HangUp(c)
    BY <2>2 DEF HangUp
  <2>3. CASE Listen(c) \/ End(c) \/ Close(c)
    BY <2>3 DEF Listen, End, Close
  <2>. QED
    BY <1>1, <2>1, <2>2, <2>3
<1>2. ASSUME NEW c \in Conns, Announce(c) PROVE TypeOK'
  <2>1. Event("joined", Owner[c], c) \in Events
    BY DEF Event, Events
  <2>. QED
    BY <1>2, <2>1, EnqueueType DEF TypeOK, Stages, Announce, Move
<1>3. ASSUME NEW c \in Conns, SendLeft(c) PROVE TypeOK'
  <2>1. Event("left", Owner[c], c) \in Events
    BY DEF Event, Events
  <2>. QED
    BY <1>3, <2>1, EnqueueType DEF TypeOK, SendLeft
<1>4. ASSUME NEW s \in Subs, SendResult(s) PROVE TypeOK'
  <2>1. Event("result", Author[s], None) \in Events
    BY DEF Event, Events
  <2>. QED
    BY <1>4, <2>1, EnqueueType DEF TypeOK, SendResult
<1>5. CASE TakeJoined \/ TakeLeft \/ TakeWrong \/ TakeCorrect
  BY <1>5, TakeType DEF TakeJoined, TakeLeft, TakeWrong, TakeCorrect
<1>6. ASSUME NEW a \in casts, CopyListeners(a) PROVE TypeOK'
  BY <1>6 DEF TypeOK, CopyListeners, Offer, RegisteredConns
<1>7. ASSUME NEW s \in sends, Deliver(s) PROVE TypeOK'
  BY <1>7 DEF TypeOK, Stages, Deliver, Move
<1>8. ASSUME NEW s \in sends, Drop(s) PROVE TypeOK'
  BY <1>8 DEF TypeOK, Drop
<1>9. CASE UNCHANGED vars
  BY <1>9 DEF TypeOK, vars
<1>. QED
  BY <1>1, <1>2, <1>3, <1>4, <1>5, <1>6, <1>7, <1>8, <1>9
     DEF Next, Step, Handler, Loop, Dispatch

\* Every variable of the feed of a room keeps the values the code can give it; the
\* Events channel never holds more than its capacity.
THEOREM RoomTypeCorrect == Spec => []TypeOK
BY InitType, NextType, PTL DEF Spec

----------------------------------------------------------------------------
(* The map of listeners. *)

\* What one step can do to the handlers and the map: nothing; one connection takes its
\* place on the map; one clears it; one moves on.
LEMMA HandlerStep ==
  ASSUME TypeOK, [Next]_vars
  PROVE  \/ UNCHANGED <<conn, Listerners>>
         \/ \E c \in Conns : Register(c)
         \/ \E c \in Conns : Deregister(c)
         \/ \E c \in Conns : \E to \in Stages :
              /\ conn' = [conn EXCEPT ![c] = to]
              /\ conn[c] # "new" /\ to # "new"
              /\ conn[c] \in Live => to \in Live \cup {"ending"}
              /\ conn[c] # "ending"
              /\ UNCHANGED Listerners
<1>. USE DEF handlerVars, queueVars, newsVars, castVars, Move, Live, Stages
<1>1. ASSUME NEW c \in Conns, Announce(c) \/ Listen(c) \/ End(c) \/ Close(c)
      PROVE  \E to \in Stages :
               /\ conn' = [conn EXCEPT ![c] = to]
               /\ conn[c] # "new" /\ to # "new"
               /\ conn[c] \in Live => to \in Live \cup {"ending"}
               /\ conn[c] # "ending"
               /\ UNCHANGED Listerners
  BY <1>1 DEF Announce, Listen, End, Close
<1>2. ASSUME NEW s \in sends, Deliver(s)
      PROVE  \E c \in Conns : \E to \in Stages :
               /\ conn' = [conn EXCEPT ![c] = to]
               /\ conn[c] # "new" /\ to # "new"
               /\ conn[c] \in Live => to \in Live \cup {"ending"}
               /\ conn[c] # "ending"
               /\ UNCHANGED Listerners
  BY <1>2 DEF Deliver, TypeOK
<1>3. ASSUME NEW c \in Conns, HangUp(c) \/ SendLeft(c) PROVE UNCHANGED <<conn, Listerners>>
  BY <1>3 DEF HangUp, SendLeft
<1>4. ASSUME NEW s \in Subs, SendResult(s) PROVE UNCHANGED <<conn, Listerners>>
  BY <1>4 DEF SendResult
<1>5. CASE TakeJoined \/ TakeLeft \/ TakeWrong \/ TakeCorrect
  BY <1>5 DEF TakeJoined, TakeLeft, TakeWrong, TakeCorrect
<1>6. ASSUME NEW a \in casts, CopyListeners(a) PROVE UNCHANGED <<conn, Listerners>>
  BY <1>6 DEF CopyListeners
<1>7. ASSUME NEW s \in sends, Drop(s) PROVE UNCHANGED <<conn, Listerners>>
  BY <1>7 DEF Drop
<1>8. CASE UNCHANGED vars
  BY <1>8 DEF vars
<1>. QED
  BY <1>1, <1>2, <1>3, <1>4, <1>5, <1>6, <1>7, <1>8 DEF Next, Step, Handler, Loop, Dispatch

LEMMA NextOpen == TypeOK /\ RegisteredIsOpen /\ [Next]_vars => RegisteredIsOpen'
<1>. SUFFICES ASSUME TypeOK, RegisteredIsOpen, [Next]_vars PROVE RegisteredIsOpen'
  OBVIOUS
<1>. USE FeedAssumption DEF TypeOK, RegisteredIsOpen, RegisteredConns, Live
<1>1. ASSUME NEW c \in Conns, Register(c) PROVE RegisteredIsOpen'
  BY <1>1 DEF Register, Move
<1>2. ASSUME NEW c \in Conns, Deregister(c) PROVE RegisteredIsOpen'
  BY <1>2 DEF Deregister, Move
<1>3. ASSUME NEW c \in Conns, NEW to \in Stages,
             conn' = [conn EXCEPT ![c] = to],
             conn[c] \in Live => to \in Live \cup {"ending"},
             conn[c] # "ending", UNCHANGED Listerners
      PROVE  RegisteredIsOpen'
  BY <1>3
<1>4. CASE UNCHANGED <<conn, Listerners>>
  BY <1>4
<1>. QED
  BY <1>1, <1>2, <1>3, <1>4, HandlerStep

\* sse.go:67-75: whatever connections a player opens, a channel on the map is open.
THEOREM RegisteredOpenCorrect == Spec => []RegisteredIsOpen
<1>1. Init => RegisteredIsOpen
  BY FeedAssumption DEF Init, RegisteredIsOpen, RegisteredConns
<1>. QED
  BY <1>1, NextOpen, RoomTypeCorrect, PTL DEF Spec

\* sse.go:63 and 70: only a step of another connection of its player takes a served
\* connection off the map.
THEOREM RivalsCorrect == Spec => OnlyRivalsSilence
<1>. DEFINE A == \A c \in RegisteredConns :
                   conn'[c] \in Live /\ Listerners'[Owner[c]] # c =>
                     \E d \in Conns \ {c} : Owner[d] = Owner[c] /\ conn'[d] # conn[d]
<1>1. TypeOK /\ [Next]_vars => A
  <2>. SUFFICES ASSUME TypeOK, [Next]_vars PROVE A
    OBVIOUS
  <2>. USE FeedAssumption DEF TypeOK, RegisteredConns, Live
  <2>1. ASSUME NEW c \in Conns, Register(c) PROVE A
    BY <2>1 DEF Register, Move
  <2>2. ASSUME NEW c \in Conns, Deregister(c) PROVE A
    BY <2>2 DEF Deregister, Move
  <2>3. CASE UNCHANGED Listerners
    BY <2>3
  <2>. QED
    BY <2>1, <2>2, <2>3, HandlerStep
<1>2. TypeOK /\ [Next]_vars => [A]_vars
  BY <1>1
<1>. QED
  BY <1>2, RoomTypeCorrect, PTL DEF Spec, OnlyRivalsSilence

----------------------------------------------------------------------------
(* The last word of a player. *)

\* What keeps a "joined" from being the last word: a handler past its Announce, or a
\* PlayerLeft that waits to be sent.
WordPending(p) ==
  \E c \in Conns : Owner[c] = p /\ (conn[c] \in {"serving", "busy", "ending"} \/ c \in leaving)
LastWordInv == \A p \in Players : lastWord[p] = "joined" => WordPending(p)

LEMMA NextLastWord == TypeOK /\ LastWordInv /\ [Next]_vars => LastWordInv'
<1>. SUFFICES ASSUME TypeOK, LastWordInv, [Next]_vars PROVE LastWordInv'
  OBVIOUS
<1>. USE FeedAssumption DEF TypeOK, LastWordInv, WordPending, Move
<1>1. ASSUME NEW c \in Conns, Register(c) PROVE LastWordInv'
  BY <1>1 DEF Register, queueVars
<1>2. ASSUME NEW c \in Conns, Announce(c) PROVE LastWordInv'
  BY <1>2 DEF Announce
<1>3. ASSUME NEW c \in Conns, Listen(c) \/ End(c) \/ Close(c) PROVE LastWordInv'
  BY <1>3 DEF Listen, End, Close, queueVars
<1>4. ASSUME NEW c \in Conns, Deregister(c) PROVE LastWordInv'
  BY <1>4 DEF Deregister, queueVars
<1>5. ASSUME NEW c \in Conns, SendLeft(c) PROVE LastWordInv'
  BY <1>5 DEF SendLeft
<1>6. ASSUME NEW s \in sends, Deliver(s) PROVE LastWordInv'
  BY <1>6 DEF Deliver, queueVars
<1>7. ASSUME NEW s \in sends, Drop(s) PROVE LastWordInv'
  BY <1>7 DEF Drop, handlerVars, queueVars
<1>8. ASSUME NEW a \in casts, CopyListeners(a) PROVE LastWordInv'
  BY <1>8 DEF CopyListeners, handlerVars, queueVars
<1>9. ASSUME NEW s \in Subs, SendResult(s) PROVE LastWordInv'
  BY <1>9 DEF SendResult, handlerVars
<1>10. CASE TakeJoined \/ TakeLeft \/ TakeWrong \/ TakeCorrect
  BY <1>10 DEF TakeJoined, TakeLeft, TakeWrong, TakeCorrect, Take, handlerVars
<1>11. ASSUME NEW c \in Conns, HangUp(c) PROVE LastWordInv'
  BY <1>11 DEF HangUp, queueVars
<1>12. CASE UNCHANGED vars
  BY <1>12 DEF vars, handlerVars, queueVars
<1>. QED
  BY <1>1, <1>2, <1>3, <1>4, <1>5, <1>6, <1>7, <1>8, <1>9, <1>10, <1>11, <1>12
     DEF Next, Step, Handler, Loop, Dispatch

\* sse.go:72-74: the goroutines that send PlayerLeft may be as late as they like; when
\* they are done and no connection is left, the last word is not that the player joined.
THEOREM LastWordCorrect == Spec => []LeftIsLastWord
<1>1. Init => LastWordInv
  BY DEF Init, LastWordInv
<1>2. LastWordInv => LeftIsLastWord
  BY DEF LastWordInv, WordPending, LeftIsLastWord, Over
<1>. QED
  BY <1>1, <1>2, NextLastWord, RoomTypeCorrect, PTL DEF Spec

----------------------------------------------------------------------------
(* Boards. *)

Accounted(c) == c \in missed \/ UnderWay(c, due[c]) \/ best[c] >= due[c]

BoardInv ==
  /\ RegisteredIsOpen
  /\ \A c \in Conns : conn[c] = "new" => due[c] = 0
  /\ \A c \in RegisteredConns : Accounted(c)

\* An announcement puts a new board under way to whoever is registered.
LEMMA TakeBoards ==
  ASSUME TypeOK, BoardInv, TakeJoined \/ TakeLeft \/ TakeWrong \/ TakeCorrect
  PROVE  /\ \A c \in Conns : conn[c] = "new" => due'[c] = 0
         /\ \A c \in RegisteredConns : Accounted(c)'
<1>. USE DEF Take, BoardInv
<1>0. /\ UNCHANGED <<handlerVars, sends, best>>
      /\ \/ AnnounceBoard \/ AnnounceNothing
         \/ AnnounceOnly(Players) \/ AnnounceOnly({Head(queue).player})
  BY DEF TakeJoined, TakeLeft, TakeWrong, TakeCorrect
<1>1. CASE AnnounceBoard
  <2>1. ASSUME NEW c \in RegisteredConns PROVE Accounted(c)'
    <3>1. c \in Conns /\ due'[c] = news + 2 /\ news \in Nat /\ Owner[c] \in Players
      BY <1>1, FeedAssumption DEF AnnounceBoard, RegisteredConns, TypeOK
    <3>2. Board(news + 2) \in casts'
      BY <1>1 DEF AnnounceBoard
    <3>. QED
      BY <3>1, <3>2 DEF Board, Accounted, UnderWay
  <2>2. ASSUME NEW c \in Conns, conn[c] = "new" PROVE due'[c] = 0
    BY <1>1, <2>2 DEF AnnounceBoard, RegisteredIsOpen, Live
  <2>. QED
    BY <2>1, <2>2
<1>2. ASSUME UNCHANGED <<due, missed>>, casts \subseteq casts'
      PROVE  /\ \A c \in Conns : conn[c] = "new" => due'[c] = 0
             /\ \A c \in RegisteredConns : Accounted(c)'
  BY <1>0, <1>2 DEF Accounted, UnderWay
<1>. QED
  BY <1>0, <1>1, <1>2 DEF AnnounceOnly, AnnounceNothing

LEMMA NextBoards == TypeOK /\ BoardInv /\ [Next]_vars => BoardInv'
<1>. SUFFICES ASSUME TypeOK, BoardInv, [Next]_vars PROVE BoardInv'
  OBVIOUS
<1>0. RegisteredIsOpen'
  BY NextOpen DEF BoardInv
<1>1. ASSUME UNCHANGED <<newsVars, castVars>>,
             \A c \in Conns : conn'[c] = "new" => conn[c] = "new",
             \A c \in RegisteredConns' : c \in RegisteredConns \/ conn[c] = "new"
      PROVE  BoardInv'
  <2>1. ASSUME NEW c \in Conns, conn[c] = "new" PROVE best[c] >= due[c]
    BY <2>1 DEF BoardInv, TypeOK
  <2>2. ASSUME NEW c \in RegisteredConns' PROVE Accounted(c)'
    BY <1>1, <2>1, <2>2 DEF BoardInv, Accounted, UnderWay, newsVars, castVars, RegisteredConns
  <2>. QED
    BY <1>0, <1>1, <2>2 DEF BoardInv, newsVars
<1>. USE FeedAssumption DEF Move, RegisteredConns
<1>2. ASSUME NEW c \in Conns, Register(c) PROVE BoardInv'
  BY <1>1, <1>2 DEF Register, TypeOK
<1>3. ASSUME NEW c \in Conns, Deregister(c) PROVE BoardInv'
  BY <1>1, <1>3 DEF Deregister, TypeOK
<1>4. ASSUME NEW c \in Conns, Announce(c) \/ Listen(c) \/ End(c) \/ Close(c) PROVE BoardInv'
  BY <1>1, <1>4 DEF Announce, Listen, End, Close, TypeOK
<1>5. ASSUME NEW c \in Conns, HangUp(c) \/ SendLeft(c) PROVE BoardInv'
  BY <1>1, <1>5 DEF HangUp, SendLeft
<1>6. ASSUME NEW s \in Subs, SendResult(s) PROVE BoardInv'
  BY <1>1, <1>6 DEF SendResult, handlerVars
<1>7. CASE TakeJoined \/ TakeLeft \/ TakeWrong \/ TakeCorrect
  <2>1. UNCHANGED handlerVars
    BY <1>7 DEF TakeJoined, TakeLeft, TakeWrong, TakeCorrect
  <2>. QED
    BY <1>0, <1>7, <2>1, TakeBoards DEF BoardInv, handlerVars
<1>8. ASSUME NEW a \in casts, CopyListeners(a) PROVE BoardInv'
  <2>1. ASSUME NEW c \in RegisteredConns PROVE Accounted(c)'
    <3>1. CASE a.board /\ Owner[c] \in a.to /\ a.news >= due[c]
      <4>1. Offer(c, a) \in sends'
        BY <1>8, <3>1 DEF CopyListeners
      <4>. QED
        BY <1>8, <3>1, <4>1 DEF CopyListeners, Offer, Accounted, UnderWay, newsVars
    <3>2. CASE ~(a.board /\ Owner[c] \in a.to /\ a.news >= due[c])
      BY <1>8, <3>2 DEF CopyListeners, BoardInv, Accounted, UnderWay, newsVars
    <3>. QED
      BY <3>1, <3>2
  <2>. QED
    BY <1>0, <1>8, <2>1 DEF BoardInv, CopyListeners, handlerVars, newsVars
<1>9. ASSUME NEW s \in sends, Deliver(s) PROVE BoardInv'
  <2>0. /\ s.conn \in Conns /\ s.news \in Nat /\ s.board \in BOOLEAN
        /\ best \in [Conns -> Nat] /\ due \in [Conns -> Nat]
    BY DEF TypeOK
  <2>1. /\ \A c \in Conns : best'[c] \in Nat /\ best'[c] >= best[c]
        /\ s.board => best'[s.conn] >= s.news
        /\ sends' = sends \ {s}
        /\ UNCHANGED <<Listerners, casts, due, missed>>
    BY <1>9, <2>0 DEF Deliver
  <2>2. ASSUME NEW c \in RegisteredConns PROVE Accounted(c)'
    <3>1. CASE s.board /\ s.conn = c /\ s.news >= due[c]
      BY <2>0, <2>1, <3>1 DEF Accounted
    <3>2. CASE ~(s.board /\ s.conn = c /\ s.news >= due[c])
      BY <2>0, <2>1, <3>2 DEF BoardInv, Accounted, UnderWay
    <3>. QED
      BY <3>1, <3>2
  <2>3. \A c \in Conns : conn'[c] = "new" => conn[c] = "new"
    BY <1>9 DEF Deliver, TypeOK
  <2>. QED
    BY <1>0, <2>1, <2>2, <2>3 DEF BoardInv
<1>10. ASSUME NEW s \in sends, Drop(s) PROVE BoardInv'
  <2>1. ASSUME NEW c \in RegisteredConns PROVE Accounted(c)'
    BY <1>10 DEF Drop, BoardInv, Accounted, UnderWay
  <2>. QED
    BY <1>0, <1>10, <2>1 DEF BoardInv, Drop, handlerVars
<1>11. CASE UNCHANGED vars
  BY <1>1, <1>11 DEF vars, handlerVars
<1>. QED
  BY <1>2, <1>3, <1>4, <1>5, <1>6, <1>7, <1>8, <1>9, <1>10, <1>11
     DEF Next, Step, Handler, Loop, Dispatch

\* event_hub.go:222-251: however many announcements overlap, a board announced while a
\* connection was registered, or a newer one, has reached it or is under way to it,
\* unless the connection was busy when one was offered.
THEOREM BoardsCorrect == Spec => []BoardsAccounted
<1>1. Init => BoardInv
  BY FeedAssumption DEF Init, BoardInv, RegisteredIsOpen, RegisteredConns
<1>2. BoardInv => BoardsAccounted
  BY DEF BoardInv, Accounted, BoardsAccounted, RegisteredConns
<1>. QED
  BY <1>1, <1>2, NextBoards, RoomTypeCorrect, PTL DEF Spec

----------------------------------------------------------------------------
(* The two feeds. *)

\* Whatever the feed of the guilds does, and whenever the process ends.
LEMMA FeedsNextImplements == [FeedsNext]_feedVars => [Next]_vars
BY DEF FeedsNext, RoomStep, GuildStep, SharedStep, Next, feedVars

\* A room within the server behaves like a room alone, so the theorems above hold of
\* FeedsSpec too.
THEOREM RoomImplemented == FeedsSpec => Spec
<1>1. FeedsInit => Init
  BY DEF FeedsInit
<1>. QED
  BY <1>1, FeedsNextImplements, PTL DEF FeedsSpec, Spec

----------------------------------------------------------------------------
(* The feed of the guilds. *)

\* A version at least as new as n is under way to spectator s.
Reaches(s, n) ==
  \/ \E o \in offers : o.to = s /\ o.version >= n
  \/ \E i \in 1..Len(listen[s]) : listen[s][i] >= n

\* With it SpectatorCaughtUp is inductive: what the hub has read, and handed on, is not
\* newer than the database; and a spectator that writes its first leaderboard already
\* counts as served.
GuildInv ==
  /\ Guilds!TypeOK
  /\ hub = "dispatch" => entries >= 1
  /\ entries <= version /\ announced <= entries
  /\ \A s \in Spectators \ short :
       visit[s] \in {"writing", "serving"} => shown[s] >= announced \/ Reaches(s, announced)

LEMMA InitGuild == FeedsInit => GuildInv
BY FeedsAssumption DEF FeedsInit, Guilds!Init, GuildInv, Guilds!TypeOK, Guilds!Listening

\* Steps of a spectator's handler before it is served, or after.
LEMMA GuildMove ==
  ASSUME GuildInv, NEW s \in Spectators, NEW to \in Guilds!Listening \cup {"deleted", "closed"},
         visit' = [visit EXCEPT ![s] = to],
         UNCHANGED <<up, listen, notified, hub, entries, dispatched, announced, version, offers>>,
         away' = away, short' \in {short, short \cup {s}}, shown' \in [Spectators -> 0..MaxVersions],
         \A t \in Spectators : shown'[t] >= shown[t],
         to \in {"writing", "serving"} =>
           visit[s] = "writing" \/ s \in short' \/ shown'[s] >= announced
  PROVE  GuildInv'
<1>1. Guilds!TypeOK'
  BY DEF GuildInv, Guilds!TypeOK, Guilds!Listening
<1>2. ASSUME NEW t \in Spectators, t \notin short', visit'[t] \in {"writing", "serving"}
      PROVE  (shown[t] >= announced \/ Reaches(t, announced))'
  <2>a. shown[t] \in 0..MaxVersions /\ shown'[t] \in 0..MaxVersions /\ announced \in 0..MaxVersions
    BY DEF GuildInv, Guilds!TypeOK
  <2>b. visit \in [Spectators -> Guilds!Listening \cup {"new", "deleted", "closed"}]
    BY DEF GuildInv, Guilds!TypeOK
  <2>0. shown[t] \in Nat /\ shown'[t] \in Nat /\ announced \in Nat
    BY <2>a, FeedsAssumption
  <2>1. CASE t = s /\ visit[s] # "writing"
    <3>1. visit'[s] = to
      BY <2>b
    <3>2. shown'[s] >= announced
      BY <1>2, <2>1, <3>1
    <3>. QED
      BY <2>1, <3>2
  <2>2. CASE t # s \/ visit[s] = "writing"
    BY <1>2, <2>0, <2>b, <2>2 DEF GuildInv, Reaches
  <2>. QED
    BY <2>1, <2>2
<1>. QED
  BY <1>1, <1>2 DEF GuildInv

\* See never shows less than before.
LEMMA SeeMore ==
  ASSUME GuildInv, NEW s \in Spectators, NEW v \in 0..MaxVersions, Guilds!See(s, v)
  PROVE  /\ shown' \in [Spectators -> 0..MaxVersions]
         /\ shown'[s] >= v
         /\ \A t \in Spectators : shown'[t] >= shown[t]
<1>1. shown \in [Spectators -> 0..MaxVersions] /\ MaxVersions \in Nat
  BY FeedsAssumption DEF GuildInv, Guilds!TypeOK
<1>. QED
  BY <1>1 DEF Guilds!See

LEMMA HandlerGuild ==
  ASSUME GuildInv, NEW s \in Spectators,
         Guilds!Register(s) \/ Guilds!HangUp(s) \/ Guilds!Handler(s)
  PROVE  GuildInv'
<1>. USE DEF Guilds!visitVars, Guilds!hubVars
<1>0. /\ shown \in [Spectators -> 0..MaxVersions]
      /\ \A t \in Spectators : shown[t] >= shown[t]
      /\ \A t \in {"registered", "writing", "serving", "deleted", "closed"} :
           t \in Guilds!Listening \cup {"deleted", "closed"}
  <2>1. \A t \in Spectators : shown[t] \in Nat
    BY FeedsAssumption DEF GuildInv, Guilds!TypeOK
  <2>. QED
    BY <2>1 DEF GuildInv, Guilds!TypeOK, Guilds!Listening
<1>1. CASE Guilds!Register(s) \/ Guilds!Deregister(s) \/ Guilds!Close(s) \/ Guilds!Written(s)
  <2>. DEFINE Moved(to) ==
         /\ visit' = [visit EXCEPT ![s] = to]
         /\ to \in Guilds!Listening \cup {"deleted", "closed"}
         /\ to \in {"writing", "serving"} => visit[s] = "writing"
         /\ UNCHANGED <<up, away, shown, listen, notified, hub, entries, dispatched, announced,
                        version, offers, short>>
  <2>1. \E to \in {"registered", "serving", "deleted", "closed"} : Moved(to)
    BY <1>0, <1>1 DEF Guilds!Register, Guilds!Deregister, Guilds!Close, Guilds!Written, Guilds!Move
  <2>2. PICK to : Moved(to)
    BY <2>1
  <2>3. /\ shown' \in [Spectators -> 0..MaxVersions]
        /\ \A t \in Spectators : shown'[t] >= shown[t]
    BY <1>0, <2>2
  <2>. QED
    BY <2>2, <2>3, GuildMove
<1>2. CASE Guilds!ShowInitial(s)
  <2>1. /\ shown' \in [Spectators -> 0..MaxVersions] /\ shown'[s] >= version
        /\ \A t \in Spectators : shown'[t] >= shown[t]
    <3>1. version \in 0..MaxVersions /\ Guilds!See(s, version)
      BY <1>2, FeedsAssumption DEF GuildInv, Guilds!TypeOK, Guilds!ShowInitial
    <3>. QED
      BY <3>1, SeeMore
  <2>2. shown'[s] >= announced
    <3>1. shown'[s] \in Nat /\ version \in Nat /\ entries \in Nat /\ announced \in Nat
      BY <2>1, FeedsAssumption DEF GuildInv, Guilds!TypeOK
    <3>. QED
      BY <2>1, <3>1 DEF GuildInv
  <2>3. /\ visit' = [visit EXCEPT ![s] = "writing"]
        /\ UNCHANGED <<up, away, listen, notified, hub, entries, dispatched, announced,
                       version, offers, short>>
    BY <1>2 DEF Guilds!ShowInitial, Guilds!Move
  <2>. QED
    BY <1>0, <2>1, <2>2, <2>3, GuildMove
<1>3. CASE Guilds!ShowNothing(s)
  <2>1. /\ visit' = [visit EXCEPT ![s] = "serving"]
        /\ short' = short \cup {s}
        /\ UNCHANGED <<up, away, shown, listen, notified, hub, entries, dispatched, announced,
                       version, offers>>
    BY <1>3 DEF Guilds!ShowNothing, Guilds!Move
  <2>. QED
    BY <1>0, <2>1, GuildMove
<1>4. CASE Guilds!ShowUpdate(s)
  <2>1. /\ listen[s] \in Seq(1..MaxVersions) /\ listen[s] # <<>> /\ Len(listen[s]) <= BufferSize
        /\ listen' = [listen EXCEPT ![s] = Tail(listen[s])]
        /\ UNCHANGED <<up, visit, away, notified, hub, entries, dispatched, announced, version,
                       offers, short>>
    BY <1>4 DEF Guilds!ShowUpdate, GuildInv, Guilds!TypeOK
  <2>2. /\ Head(listen[s]) \in 1..MaxVersions /\ Tail(listen[s]) \in Seq(1..MaxVersions)
        /\ Len(Tail(listen[s])) = Len(listen[s]) - 1 /\ Len(listen[s]) \in Nat \ {0}
        /\ Head(listen[s]) = listen[s][1]
        /\ \A i \in 1..Len(Tail(listen[s])) : Tail(listen[s])[i] = listen[s][i + 1]
    BY <2>1, TailType
  <2>3. /\ shown' \in [Spectators -> 0..MaxVersions] /\ shown'[s] >= Head(listen[s])
        /\ \A t \in Spectators : shown'[t] >= shown[t]
    <3>1. Head(listen[s]) \in 0..MaxVersions /\ Guilds!See(s, Head(listen[s]))
      BY <1>4, <2>2, FeedsAssumption DEF Guilds!ShowUpdate
    <3>. QED
      BY <3>1, SeeMore
  <2>4. Guilds!TypeOK'
    <3>1. /\ listen' \in [Spectators -> Seq(1..MaxVersions)]
          /\ \A t \in Spectators : Len(listen'[t]) <= BufferSize
      <4>1. listen \in [Spectators -> Seq(1..MaxVersions)]
            /\ \A t \in Spectators : Len(listen[t]) <= BufferSize
        BY DEF GuildInv, Guilds!TypeOK
      <4>. QED
        BY <2>1, <2>2, <4>1, FeedsAssumption
    <3>. QED
      BY <2>1, <2>3, <3>1 DEF GuildInv, Guilds!TypeOK
  <2>5. ASSUME NEW t \in Spectators, t \notin short, visit[t] \in {"writing", "serving"}
        PROVE  (shown[t] >= announced \/ Reaches(t, announced))'
    <3>0. /\ shown[t] \in Nat /\ shown'[t] \in Nat /\ announced \in Nat /\ announced' = announced
          /\ shown'[t] >= shown[t]
      <4>1. shown[t] \in 0..MaxVersions /\ shown'[t] \in 0..MaxVersions /\ announced \in 0..MaxVersions
        BY <2>3 DEF GuildInv, Guilds!TypeOK
      <4>. QED
        BY <2>1, <2>3, <4>1, FeedsAssumption
    <3>1. CASE shown[t] >= announced
      BY <3>0, <3>1
    <3>2. CASE \E o \in offers : o.to = t /\ o.version >= announced
      BY <2>1, <3>2 DEF Reaches
    <3>3. ASSUME NEW i \in 1..Len(listen[t]), listen[t][i] >= announced
          PROVE  (shown[t] >= announced \/ Reaches(t, announced))'
      <4>1. CASE t # s
        <5>1. listen'[t] = listen[t]
          BY <2>1, <4>1 DEF GuildInv, Guilds!TypeOK
        <5>. QED
          BY <3>0, <3>3, <5>1 DEF Reaches
      <4>2. CASE t = s /\ i = 1
        <5>1. Head(listen[s]) \in Nat /\ shown'[s] \in Nat
          BY <2>2, <3>0, <4>2, FeedsAssumption
        <5>. QED
          BY <2>2, <2>3, <3>0, <3>3, <4>2, <5>1
      <4>3. CASE t = s /\ i # 1
        <5>1. i - 1 \in 1..Len(Tail(listen[s])) /\ Tail(listen[s])[i - 1] = listen[s][i]
          BY <2>2, <3>3, <4>3
        <5>2. listen'[s] = Tail(listen[s])
          BY <2>1 DEF GuildInv, Guilds!TypeOK
        <5>. QED
          BY <3>0, <3>3, <4>3, <5>1, <5>2 DEF Reaches
      <4>. QED
        BY <4>1, <4>2, <4>3
    <3>. QED
      BY <2>5, <3>1, <3>2, <3>3 DEF GuildInv, Reaches
  <2>. QED
    BY <2>1, <2>4, <2>5 DEF GuildInv
<1>5. CASE Guilds!HangUp(s)
  <2>1. /\ away' = away \cup {s}
        /\ UNCHANGED <<up, visit, shown, listen, notified, hub, entries, dispatched, announced,
                       version, offers, short>>
    BY <1>5 DEF Guilds!HangUp
  <2>. QED
    BY <2>1 DEF GuildInv, Guilds!TypeOK, Reaches
<1>. QED
  BY <1>1, <1>2, <1>3, <1>4, <1>5 DEF Guilds!Handler

LEMMA LoopGuild ==
  ASSUME GuildInv, Guilds!Notify \/ Guilds!ChangeScore \/ Guilds!Loop
  PROVE  GuildInv'
<1>. USE DEF Guilds!visitVars, Guilds!hubVars
<1>0. /\ GuildCapacity \in Nat \ {0} /\ MaxVersions \in Nat \ {0}
      /\ notified \in 0..GuildCapacity /\ version \in 1..MaxVersions
      /\ entries \in 0..MaxVersions /\ announced \in 0..MaxVersions
  BY FeedsAssumption DEF GuildInv, Guilds!TypeOK
<1>1. CASE Guilds!Notify
  <2>1. notified' \in 0..GuildCapacity
    BY <1>0, <1>1 DEF Guilds!Notify
  <2>. QED
    BY <1>1, <2>1 DEF Guilds!Notify, GuildInv, Guilds!TypeOK, Reaches
<1>2. CASE Guilds!ChangeScore
  <2>1. version' \in 1..MaxVersions /\ entries <= version'
    BY <1>0, <1>2 DEF Guilds!ChangeScore, GuildInv
  <2>. QED
    BY <1>2, <2>1 DEF Guilds!ChangeScore, GuildInv, Guilds!TypeOK, Reaches
<1>3. CASE Guilds!Receive
  <2>1. notified' \in 0..GuildCapacity
    BY <1>0, <1>3 DEF Guilds!Receive
  <2>. QED
    BY <1>3, <2>1 DEF Guilds!Receive, GuildInv, Guilds!TypeOK, Reaches
<1>4. CASE Guilds!Query
  <2>1. /\ entries' \in {entries, version} /\ hub' \in {"receive", "dispatch"}
        /\ hub' = "dispatch" => entries' = version
        /\ UNCHANGED <<up, visit, away, shown, listen, notified, dispatched, announced, version,
                       offers, short>>
    BY <1>4 DEF Guilds!Query
  <2>2. /\ entries' \in 0..MaxVersions /\ entries' <= version /\ announced <= entries'
        /\ hub' = "dispatch" => entries' >= 1
    BY <1>0, <2>1 DEF GuildInv
  <2>. QED
    BY <2>1, <2>2 DEF GuildInv, Guilds!TypeOK, Reaches
<1>5. CASE Guilds!DispatchEventToEvent
  <2>1. /\ hub' = "receive" /\ announced' = entries /\ dispatched' = dispatched + 1
        /\ offers' = offers \cup {[to |-> s, version |-> entries, call |-> dispatched + 1] :
                                    s \in Guilds!EventListeners}
        /\ short' \subseteq short
        /\ UNCHANGED <<up, visit, away, shown, listen, notified, entries, version>>
        /\ entries >= 1
    BY <1>5 DEF Guilds!DispatchEventToEvent, GuildInv
  <2>2. offers' \subseteq [to : Spectators, version : 1..MaxVersions, call : Nat]
    <3>1. dispatched + 1 \in Nat /\ entries \in 1..MaxVersions
      BY <1>0, <2>1 DEF GuildInv, Guilds!TypeOK
    <3>. QED
      BY <2>1, <3>1 DEF GuildInv, Guilds!TypeOK, Guilds!EventListeners
  <2>3. Guilds!TypeOK'
    BY <2>1, <2>2 DEF GuildInv, Guilds!TypeOK
  <2>4. ASSUME NEW s \in Spectators, visit[s] \in {"writing", "serving"}
        PROVE  Reaches(s, announced)'
    <3>1. [to |-> s, version |-> entries, call |-> dispatched + 1] \in offers'
      BY <2>1, <2>4 DEF Guilds!EventListeners, Guilds!Listening
    <3>2. entries >= entries
      BY <1>0
    <3>. QED
      BY <2>1, <3>1, <3>2 DEF Reaches
  <2>5. entries' <= version' /\ announced' <= entries'
    BY <1>0, <2>1 DEF GuildInv
  <2>. QED
    BY <2>1, <2>3, <2>4, <2>5 DEF GuildInv
<1>. QED
  BY <1>1, <1>2, <1>3, <1>4, <1>5 DEF Guilds!Loop

LEMMA OfferGuild ==
  ASSUME GuildInv, NEW o \in offers, Guilds!Deliver(o) \/ Guilds!Panic(o)
  PROVE  GuildInv'
<1>. USE DEF Guilds!visitVars, Guilds!hubVars
<1>1. CASE Guilds!Panic(o)
  BY <1>1 DEF Guilds!Panic, GuildInv, Guilds!TypeOK, Reaches
<1>2. CASE Guilds!Deliver(o)
  <2>0. /\ o.to \in Spectators /\ o.version \in 1..MaxVersions
        /\ listen \in [Spectators -> Seq(1..MaxVersions)]
        /\ \A s \in Spectators : Len(listen[s]) <= BufferSize
        /\ BufferSize \in Nat
    BY FeedsAssumption DEF GuildInv, Guilds!TypeOK
  <2>1. /\ offers' = offers \ {o}
        /\ UNCHANGED <<up, visit, away, shown, notified, hub, entries, dispatched, announced, version>>
        /\ \/ /\ Len(listen[o.to]) < BufferSize
              /\ listen' = [listen EXCEPT ![o.to] = Append(listen[o.to], o.version)]
              /\ short' = short
           \/ /\ o.version < announced \/ o.to \in short'
              /\ short \subseteq short' /\ short' \subseteq short \cup {o.to}
              /\ listen' = listen
    BY <1>2 DEF Guilds!Deliver
  <2>2. LET q == listen[o.to]
            p == Append(q, o.version)
        IN  /\ p \in Seq(1..MaxVersions) /\ Len(p) = Len(q) + 1 /\ Len(q) \in Nat
            /\ p[Len(q) + 1] = o.version
            /\ \A i \in 1..Len(q) : p[i] = q[i]
    BY <2>0, AppendType
  <2>3. /\ listen' \in [Spectators -> Seq(1..MaxVersions)]
        /\ \A s \in Spectators : Len(listen'[s]) <= BufferSize
    <3>1. CASE listen' = listen
      BY <2>0, <3>1
    <3>2. CASE /\ Len(listen[o.to]) < BufferSize
               /\ listen' = [listen EXCEPT ![o.to] = Append(listen[o.to], o.version)]
      BY <2>0, <2>2, <3>2
    <3>. QED
      BY <2>1, <3>1, <3>2
  <2>4. Guilds!TypeOK'
    BY <2>0, <2>1, <2>3 DEF GuildInv, Guilds!TypeOK
  <2>5. ASSUME NEW s \in Spectators, s \notin short', Reaches(s, announced)
        PROVE  \/ \E x \in offers' : x.to = s /\ x.version >= announced
               \/ \E i \in 1..Len(listen'[s]) : listen'[s][i] >= announced
    <3>0. announced \in Nat /\ o.version \in Nat
      BY <2>0, FeedsAssumption DEF GuildInv, Guilds!TypeOK
    <3>1. CASE s # o.to \/ listen' = listen
      <4>1. listen'[s] = listen[s]
        BY <2>0, <2>1, <3>1
      <4>2. ~(s = o.to /\ o.version >= announced)
        <5>1. CASE listen' = listen
          <6>1. Len(listen[o.to] ) # Len(Append(listen[o.to], o.version))
            BY <2>2
          <6>2. o.version < announced \/ o.to \in short'
            BY <2>0, <2>1, <5>1, <6>1
          <6>. QED
            BY <2>5, <3>0, <6>2
        <5>. QED
          BY <3>1, <5>1
      <4>. QED
        BY <2>1, <2>5, <4>1, <4>2 DEF Reaches
    <3>2. CASE s = o.to /\ listen' # listen
      <4>1. listen'[s] = Append(listen[s], o.version)
        BY <2>0, <2>1, <3>2
      <4>2. CASE \E x \in offers \ {o} : x.to = s /\ x.version >= announced
        BY <2>1, <4>2
      <4>3. CASE o.version >= announced
        BY <2>2, <3>2, <4>1, <4>3
      <4>4. CASE \E i \in 1..Len(listen[s]) : listen[s][i] >= announced
        BY <2>2, <3>2, <4>1, <4>4
      <4>. QED
        BY <2>5, <4>2, <4>3, <4>4 DEF Reaches
    <3>. QED
      BY <3>1, <3>2
  <2>6. ASSUME NEW s \in Spectators, s \notin short', visit'[s] \in {"writing", "serving"}
        PROVE  (shown[s] >= announced \/ Reaches(s, announced))'
    <3>1. s \notin short
      BY <2>1, <2>6
    <3>2. shown[s] >= announced \/ Reaches(s, announced)
      BY <2>1, <2>6, <3>1 DEF GuildInv
    <3>. QED
      BY <2>1, <2>5, <2>6, <3>2 DEF Reaches
  <2>. QED
    BY <2>1, <2>4, <2>6 DEF GuildInv
<1>. QED
  BY <1>1, <1>2

LEMMA NextGuild == GuildInv /\ [FeedsNext]_feedVars => GuildInv'
<1>. SUFFICES ASSUME GuildInv, [FeedsNext]_feedVars PROVE GuildInv'
  OBVIOUS
<1>1. CASE UNCHANGED guildVars
  BY <1>1 DEF guildVars, GuildInv, Guilds!TypeOK, Reaches
<1>2. CASE Guilds!Notify
  BY <1>2, LoopGuild
<1>3. CASE Guilds!Next
  BY <1>3, HandlerGuild, LoopGuild, OfferGuild DEF Guilds!Next, Guilds!Offer
<1>. QED
  BY <1>1, <1>2, <1>3 DEF FeedsNext, RoomStep, GuildStep, SharedStep, feedVars

LEMMA GuildCorrect == FeedsSpec => []GuildInv
BY InitGuild, NextGuild, PTL DEF FeedsSpec

\* The variables of both feeds keep their types: no channel of a spectator, and not the
\* one of the hub, ever holds more than its capacity.
THEOREM FeedsTypeCorrect == FeedsSpec => []FeedsTypeOK
<1>1. FeedsInit => crowd \in Crowds
  BY DEF FeedsInit
<1>2. crowd \in Crowds /\ [FeedsNext]_feedVars => (crowd \in Crowds)'
  BY DEF FeedsNext, feedVars
<1>3. GuildInv => Guilds!TypeOK
  BY DEF GuildInv
<1>. QED
  BY <1>1, <1>2, <1>3, GuildCorrect, RoomImplemented, RoomTypeCorrect, PTL
     DEF FeedsSpec, FeedsTypeOK

\* sse.go:132-170: for any number of spectators, updates and buffer size, a served
\* spectator has seen the newest leaderboard announced, or it is on its way, unless its
\* first read failed or its buffer was full.
THEOREM CaughtUpCorrect == FeedsSpec => []SpectatorCaughtUp
<1>1. GuildInv => SpectatorCaughtUp
  <2>. SUFFICES ASSUME GuildInv, NEW s \in Spectators \ short, visit[s] = "serving",
                       ~(shown[s] >= announced)
                PROVE  \E v \in Guilds!Coming(s) : v >= announced
    BY DEF SpectatorCaughtUp, Guilds!SpectatorCaughtUp
  <2>1. Reaches(s, announced)
    BY DEF GuildInv
  <2>. QED
    BY <2>1 DEF Reaches, Guilds!Coming
<1>. QED
  BY <1>1, GuildCorrect, PTL
=============================================================================
