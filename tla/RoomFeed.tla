------------------------------ MODULE RoomFeed ------------------------------
(***************************************************************************)
(* How the news of a room reach the browsers that watch it: the SSE        *)
(* handler JoinRoomHandler (handlers/sse.go) and the dispatch functions of *)
(* RoomHub (hub/event_hub.go).                                             *)
(*                                                                         *)
(* A connection registers its channel in the map of listeners, one entry   *)
(* per player, announces its player on the event queue, and then serves    *)
(* what arrives on the channel, which has no buffer.  The loop of the room *)
(* answers an event with up to two announcements, a notice and a new board;*)
(* a goroutine per announcement copies the listeners, and a goroutine per  *)
(* listener offers the announcement once and drops it if the handler does  *)
(* not wait for it.  What the loop does to the database is in RoomHub.     *)
(***************************************************************************)
EXTENDS Naturals, Sequences, FiniteSets

CONSTANTS
  Players,    \* users of the room
  Conns,      \* SSE connections, each used once
  Owner,      \* Owner[c]: the player who opened connection c
  Subs,       \* solutions judged for the room
  Author,     \* Author[s]: the player who posted s
  Capacity,   \* capacity of the Events channel (10 in the code)
  None        \* no connection

ASSUME FeedAssumption ==
  /\ IsFiniteSet(Conns)
  /\ Owner \in [Conns -> Players]
  /\ Author \in [Subs -> Players]
  /\ Capacity \in Nat \ {0}
  /\ None \notin Conns

VARIABLES
  conn,        \* conn[c]: how far the handler of connection c is
  hungup,      \* the connections whose request context is done
  Listerners,  \* Listerners[p]: the connection whose channel the map holds for p
  queue,       \* RoomHub.Events
  leaving,     \* connections whose PlayerLeft waits in a goroutine
  judged,      \* solutions whose result has been put on the queue
  casts,       \* goroutines running dispatchEvent
  sends,       \* goroutines offering an announcement to one listener
  news,        \* announcements so far, numbered from 1
  best,        \* history: best[c], the newest board connection c has shown
  due,         \* history: due[c], the newest board announced while c was registered
  missed,      \* history: connections that were busy when the board due to them, or a
               \* newer one, was offered
  lastWord     \* history: lastWord[p], the last coming or going of p that was queued

handlerVars == <<conn, hungup, Listerners, leaving>>
queueVars   == <<queue, judged, lastWord>>
newsVars    == <<news, best, due, missed>>
castVars    == <<casts, sends>>
vars == <<handlerVars, queueVars, newsVars, castVars>>

\* registered: blocked on sending PlayerJoined; busy: on its way to the select, after that
\* send or while it writes; serving: at the select; deleted: off the map, its channel
\* still open.
Stages == {"new", "registered", "busy", "serving", "ending", "deleted", "closed"}
Live == {"registered", "busy", "serving"}

Event(k, p, c) == [kind |-> k, player |-> p, conn |-> c]
Events == [kind : {"joined", "left", "result"}, player : Players, conn : Conns \cup {None}]

\* An announcement and whom it is for: the n-th one is a notice, or a board.
Notice(to, n) == [to |-> to, news |-> n, board |-> FALSE]
Board(n)      == [to |-> Players, news |-> n, board |-> TRUE]

Init ==
  /\ conn = [c \in Conns |-> "new"]
  /\ hungup = {}
  /\ Listerners = [p \in Players |-> None]
  /\ queue = <<>>
  /\ leaving = {}
  /\ judged = {}
  /\ casts = {}
  /\ sends = {}
  /\ news = 0
  /\ best = [c \in Conns |-> 0]
  /\ due = [c \in Conns |-> 0]
  /\ missed = {}
  /\ lastWord = [p \in Players |-> "none"]

Move(c, from, to) == conn[c] = from /\ conn' = [conn EXCEPT ![c] = to]

\* Mutant: one event more than the channel holds.
EnqueueOneMore(e) ==
  /\ Len(queue) <= Capacity
  /\ queue' = Append(queue, e)

\* A send on Events blocks until the channel has room.
Enqueue(e) ==
  /\ Len(queue) < Capacity
  /\ queue' = Append(queue, e)

(***************************************************************************)
(* JoinRoomHandler.                                                        *)
(***************************************************************************)
Register(c) ==
  /\ Move(c, "new", "registered")
  /\ Listerners' = [Listerners EXCEPT ![Owner[c]] = c]
  /\ UNCHANGED <<hungup, leaving, queueVars, newsVars, castVars>>

\* The handler sends PlayerJoined itself, and listens to nothing before its select.
Announce(c) ==
  /\ Move(c, "registered", "busy")
  /\ Enqueue(Event("joined", Owner[c], c))
  /\ lastWord' = [lastWord EXCEPT ![Owner[c]] = "joined"]
  /\ UNCHANGED <<hungup, Listerners, leaving, judged, newsVars, castVars>>

\* The client goes, or its connection fails.
HangUp(c) ==
  /\ conn[c] \in Live
  /\ c \notin hungup
  /\ hungup' = hungup \cup {c}
  /\ UNCHANGED <<conn, Listerners, leaving, queueVars, newsVars, castVars>>

\* Mutant: writing to a client that is gone never ends.
ListenIfLive(c) ==
  /\ c \notin hungup
  /\ Move(c, "busy", "serving")
  /\ UNCHANGED <<hungup, Listerners, leaving, queueVars, newsVars, castVars>>

\* The handler reaches its select; the errors of Fprintf are ignored.
Listen(c) ==
  /\ Move(c, "busy", "serving")
  /\ UNCHANGED <<hungup, Listerners, leaving, queueVars, newsVars, castVars>>

End(c) ==
  /\ c \in hungup
  /\ Move(c, "serving", "ending")
  /\ UNCHANGED <<hungup, Listerners, leaving, queueVars, newsVars, castVars>>

\* Mutant: PlayerLeft is sent only if the channel has room.
DeregisterTrying(c) ==
  /\ Move(c, "ending", "deleted")
  /\ Listerners' = [Listerners EXCEPT ![Owner[c]] = None]
  /\ leaving' = IF Len(queue) < Capacity THEN leaving \cup {c} ELSE leaving
  /\ UNCHANGED <<hungup, queueVars, newsVars, castVars>>

\* Mutant: the deferred calls run in the opposite order, the channel closes first.
DeregisterNothing(c) ==
  /\ Move(c, "ending", "deleted")
  /\ leaving' = leaving \cup {c}
  /\ UNCHANGED <<hungup, Listerners, queueVars, newsVars, castVars>>

\* The deferred delete takes out whatever the map holds for the player.
Deregister(c) ==
  /\ Move(c, "ending", "deleted")
  /\ Listerners' = [Listerners EXCEPT ![Owner[c]] = None]
  /\ leaving' = leaving \cup {c}
  /\ UNCHANGED <<hungup, queueVars, newsVars, castVars>>

Close(c) ==
  /\ Move(c, "deleted", "closed")
  /\ UNCHANGED <<hungup, Listerners, leaving, queueVars, newsVars, castVars>>

SendLeft(c) ==
  /\ c \in leaving
  /\ Enqueue(Event("left", Owner[c], c))
  /\ lastWord' = [lastWord EXCEPT ![Owner[c]] = "left"]
  /\ leaving' = leaving \ {c}
  /\ UNCHANGED <<conn, hungup, Listerners, judged, newsVars, castVars>>

\* processSolutionSubmitted, which ends with the verdict on its own queue.
SendResult(s) ==
  /\ s \notin judged
  /\ Enqueue(Event("result", Author[s], None))
  /\ judged' = judged \cup {s}
  /\ UNCHANGED <<lastWord, handlerVars, newsVars, castVars>>

(***************************************************************************)
(* RoomHub.Start and the handlers it selects: what they announce.          *)
(***************************************************************************)
RegisteredConns == {c \in Conns : Listerners[Owner[c]] = c}

Take(kind) ==
  /\ queue # <<>>
  /\ Head(queue).kind = kind
  /\ queue' = Tail(queue)
  /\ UNCHANGED <<judged, lastWord, sends, best>>

\* go r.dispatchEvent(e), twice.
AnnounceBoard ==
  /\ news' = news + 2
  /\ casts' = casts \cup {Notice(Players, news + 1), Board(news + 2)}
  /\ due' = [c \in Conns |-> IF c \in RegisteredConns THEN news + 2 ELSE due[c]]
  /\ missed' = missed \ RegisteredConns

AnnounceOnly(to) ==
  /\ news' = news + 1
  /\ casts' = casts \cup {Notice(to, news + 1)}
  /\ UNCHANGED <<due, missed>>

AnnounceNothing == UNCHANGED <<casts, news, due, missed>>

\* processPlayerJoined; the insert or the read of the entries may fail.
TakeJoined ==
  /\ Take("joined")
  /\ AnnounceBoard \/ AnnounceOnly(Players) \/ AnnounceNothing
  /\ UNCHANGED handlerVars

\* Mutant: the loop takes the player off the map as well.
TakeLeftAndDelete ==
  /\ Take("left")
  /\ AnnounceBoard
  /\ Listerners' = [Listerners EXCEPT ![Head(queue).player] = None]
  /\ UNCHANGED <<conn, hungup, leaving>>

\* processPlayerLeft announces a board whatever fails.
TakeLeft ==
  /\ Take("left")
  /\ AnnounceBoard
  /\ UNCHANGED handlerVars

\* processSolutionResult of a wrong solution, which is told to its author only.
TakeWrong ==
  /\ Take("result")
  /\ AnnounceOnly({Head(queue).player}) \/ AnnounceNothing
  /\ UNCHANGED handlerVars

\* Of a correct one; between the score and the announcements the hub of the guilds is
\* notified.
TakeCorrect ==
  /\ Take("result")
  /\ AnnounceBoard \/ AnnounceOnly(Players)
  /\ UNCHANGED handlerVars

(***************************************************************************)
(* dispatchEvent and dispatchEventToPlayer.                                *)
(***************************************************************************)
Offer(c, a) == [conn |-> c, news |-> a.news, board |-> a.board]

\* Mutant: the connections that are still announcing their player are left out.
CopyServing(a) ==
  /\ casts' = casts \ {a}
  /\ sends' = sends \cup
       {Offer(c, a) : c \in {d \in RegisteredConns : Owner[d] \in a.to /\ conn[d] # "registered"}}
  /\ UNCHANGED <<handlerVars, queueVars, newsVars>>

\* The map is copied under the lock, and the lock is released.
CopyListeners(a) ==
  /\ casts' = casts \ {a}
  /\ sends' = sends \cup {Offer(c, a) : c \in {d \in RegisteredConns : Owner[d] \in a.to}}
  /\ UNCHANGED <<handlerVars, queueVars, newsVars>>

\* The handler waits at its select, and takes the announcement.
Deliver(s) ==
  /\ Move(s.conn, "serving", "busy")
  /\ sends' = sends \ {s}
  /\ best' = IF s.board /\ s.news > best[s.conn] THEN [best EXCEPT ![s.conn] = s.news] ELSE best
  /\ UNCHANGED <<hungup, Listerners, leaving, queueVars, casts, news, due, missed>>

\* The handler does not wait, or the channel is closed: the goroutine recovers from
\* the panic of its send.
Drop(s) ==
  /\ conn[s.conn] # "serving"
  /\ sends' = sends \ {s}
  /\ missed' = IF s.board /\ s.news >= due[s.conn] THEN missed \cup {s.conn} ELSE missed
  /\ UNCHANGED <<handlerVars, queueVars, casts, news, best, due>>

----------------------------------------------------------------------------
Handler(c) == Announce(c) \/ Listen(c) \/ End(c) \/ Deregister(c) \/ Close(c)

\* The branches of the loop; the one a correct solution takes also notifies the hub
\* of the guilds.
Loop == TakeJoined \/ TakeLeft \/ TakeWrong

Dispatch ==
  \/ \E a \in casts : CopyListeners(a)
  \/ \E s \in sends : Deliver(s) \/ Drop(s)

Step ==
  \/ \E c \in Conns : Register(c) \/ HangUp(c) \/ Handler(c) \/ SendLeft(c)
  \/ \E s \in Subs : SendResult(s)
  \/ Loop
  \/ Dispatch

Next == Step \/ TakeCorrect

Spec == Init /\ [][Next]_vars

----------------------------------------------------------------------------
(* Properties. *)

TypeOK ==
  /\ conn \in [Conns -> Stages]
  /\ hungup \subseteq Conns
  /\ Listerners \in [Players -> Conns \cup {None}]
  /\ queue \in Seq(Events) /\ Len(queue) <= Capacity
  /\ leaving \subseteq Conns
  /\ judged \subseteq Subs
  /\ casts \subseteq [to : SUBSET Players, news : Nat, board : BOOLEAN]
  /\ sends \subseteq [conn : Conns, news : Nat, board : BOOLEAN]
  /\ news \in Nat
  /\ best \in [Conns -> Nat] /\ due \in [Conns -> Nat]
  /\ missed \subseteq Conns
  /\ lastWord \in [Players -> {"none", "joined", "left"}]

\* sse.go:67-75: the deferred calls take a channel off the map before they close it,
\* also when two connections of one player replace each other there, so dispatchEvent
\* never copies a channel that is closed already.
RegisteredIsOpen ==
  \A c \in RegisteredConns : conn[c] \in Live \cup {"ending"}

\* sse.go:63 and 70: a connection that is still served disappears from the map, and
\* stops hearing of the room, only by a step of another connection of its player.
OnlyRivalsSilence ==
  [][\A c \in RegisteredConns :
       conn'[c] \in Live /\ Listerners'[Owner[c]] # c =>
         \E d \in Conns \ {c} : Owner[d] = Owner[c] /\ conn'[d] # conn[d]]_vars

\* A board at least as new as n is under way to connection c.
UnderWay(c, n) ==
  \/ \E a \in casts : a.board /\ Owner[c] \in a.to /\ a.news >= n
  \/ \E s \in sends : s.board /\ s.conn = c /\ s.news >= n

\* event_hub.go:222-251: the newest board announced while a connection was registered, or
\* one that is newer still, has reached it or is on its way to it, unless the handler did
\* not wait at its select when just that board was offered.
BoardsAccounted ==
  \A c \in RegisteredConns :
    c \in missed \/ UnderWay(c, due[c]) \/ best[c] >= due[c]

\* sse.go:72-74: PlayerLeft is sent by a goroutine that may be late.  When all
\* connections of a player are over and no such goroutine is left, the last the room
\* heard of the player's presence is that the player left.
Over(p) == \A c \in Conns : Owner[c] = p => conn[c] \in {"new", "closed"} /\ c \notin leaving
LeftIsLastWord == \A p \in Players : Over(p) => lastWord[p] # "joined"
=============================================================================
