------------------------------ MODULE GuildFeed ------------------------------
(***************************************************************************)
(* How the guild leaderboard of an event reaches its spectators: the SSE   *)
(* handler SpectateEventHandler (handlers/sse.go) and EventHub.Start       *)
(* (hub/event_hub.go).                                                     *)
(*                                                                         *)
(* A spectator registers a buffered channel, shows the leaderboard of the  *)
(* database once and then what arrives on the channel.  The loop of the    *)
(* hub answers a notification by reading the leaderboard and starting one  *)
(* goroutine per listener that offers it.  Those goroutines hold no lock   *)
(* and recover from nothing: one that finds the channel closed ends the    *)
(* server.                                                                 *)
(***************************************************************************)
EXTENDS Naturals, Sequences, FiniteSets

CONSTANTS
  Spectators,     \* SSE connections to the event, each used once
  GuildCapacity,  \* capacity of GuildUpdateChan (100 in the code)
  BufferSize,     \* capacity of a spectator's channel (5 in the code)
  MaxVersions     \* bound: changes of the guild leaderboard

VARIABLES
  up,             \* the server runs
  visit,          \* visit[s]: how far the handler of s is
  away,           \* spectators whose request context is done
  listen,         \* listen[s]: the versions in the channel of s
  notified,       \* notifications in GuildUpdateChan
  hub,            \* what EventHub.Start does next
  version,        \* the version of the leaderboard in the database
  entries,        \* the version the hub has read
  offers,         \* goroutines offering a version to a spectator
  dispatched,     \* calls of dispatchEventToEvent so far
  shown,          \* history: shown[s], the newest version s was shown
  announced,      \* history: the newest version handed to dispatchEventToEvent
  short           \* history: spectators whose first read failed, or whose buffer was full,
                  \* with no newer leaderboard dispatched to them since

visitVars == <<visit, away, shown>>
hubVars   == <<notified, hub, entries, dispatched, announced>>
vars == <<up, visitVars, listen, hubVars, version, offers, short>>

Init ==
  /\ up = TRUE
  /\ visit = [s \in Spectators |-> "new"]
  /\ away = {}
  /\ listen = [s \in Spectators |-> <<>>]
  /\ notified = 0
  /\ hub = "receive"
  /\ version = 1
  /\ entries = 0
  /\ offers = {}
  /\ dispatched = 0
  /\ shown = [s \in Spectators |-> 0]
  /\ announced = 0
  /\ short = {}

Listening == {"registered", "writing", "serving"}

Move(s, from, to) == visit[s] = from /\ visit' = [visit EXCEPT ![s] = to]
See(s, v) == shown' = [shown EXCEPT ![s] = IF v > @ THEN v ELSE @]

(***************************************************************************)
(* SpectateEventHandler.                                                   *)
(***************************************************************************)
Register(s) ==
  /\ Move(s, "new", "registered")
  /\ UNCHANGED <<up, away, shown, listen, hubVars, version, offers, short>>

\* The leaderboard as it is now; its query runs under the context of the request.
ShowInitial(s) ==
  /\ Move(s, "registered", "writing")
  /\ See(s, version)
  /\ UNCHANGED <<up, away, listen, hubVars, version, offers, short>>

Written(s) ==
  /\ Move(s, "writing", "serving")
  /\ UNCHANGED <<up, away, shown, listen, hubVars, version, offers, short>>

\* The error is ignored: the spectator sees nothing until the next update.
ShowNothing(s) ==
  /\ Move(s, "registered", "serving")
  /\ short' = short \cup {s}
  /\ UNCHANGED <<up, away, shown, listen, hubVars, version, offers>>

ShowUpdate(s) ==
  /\ visit[s] = "serving"
  /\ listen[s] # <<>>
  /\ See(s, Head(listen[s]))
  /\ listen' = [listen EXCEPT ![s] = Tail(@)]
  /\ UNCHANGED <<up, visit, away, hubVars, version, offers, short>>

HangUp(s) ==
  /\ visit[s] \in Listening
  /\ s \notin away
  /\ away' = away \cup {s}
  /\ UNCHANGED <<up, visit, shown, listen, hubVars, version, offers, short>>

Deregister(s) ==
  /\ s \in away
  /\ Move(s, "serving", "deleted")
  /\ UNCHANGED <<up, away, shown, listen, hubVars, version, offers, short>>

Close(s) ==
  /\ Move(s, "deleted", "closed")
  /\ UNCHANGED <<up, away, shown, listen, hubVars, version, offers, short>>

(***************************************************************************)
(* processSolutionResult notifies the hub without waiting; EventHub.Start. *)
(***************************************************************************)
Notify ==
  /\ notified' = IF notified < GuildCapacity THEN notified + 1 ELSE notified
  /\ UNCHANGED <<up, visitVars, listen, hub, entries, dispatched, announced, version, offers, short>>

\* The table is written outside this program.
ChangeScore ==
  /\ version < MaxVersions
  /\ version' = version + 1
  /\ UNCHANGED <<up, visitVars, listen, hubVars, offers, short>>

Receive ==
  /\ hub = "receive"
  /\ notified > 0
  /\ notified' = notified - 1
  /\ hub' = "query"
  /\ UNCHANGED <<up, visitVars, listen, entries, dispatched, announced, version, offers, short>>

\* GetGuildLeaderboardByEvent succeeds, or the loop goes on with the next notification.
Query ==
  /\ hub = "query"
  /\ \/ hub' = "dispatch" /\ entries' = version
     \/ hub' = "receive" /\ UNCHANGED entries
  /\ UNCHANGED <<up, visitVars, listen, notified, dispatched, announced, version, offers, short>>

\* Mutant: a spectator joins the map once it has shown the first leaderboard.
ServedListeners == {s \in Spectators : visit[s] = "serving"}

\* The listeners of the event in EventListeners.
EventListeners == {s \in Spectators : visit[s] \in Listening}

DispatchEventToEvent ==
  /\ hub = "dispatch"
  /\ hub' = "receive"
  /\ dispatched' = dispatched + 1
  /\ announced' = entries
  /\ offers' = offers \cup {[to |-> s, version |-> entries, call |-> dispatched + 1] :
                              s \in EventListeners}
  /\ short' = short \ EventListeners
  /\ UNCHANGED <<up, visitVars, listen, notified, entries, version>>

(***************************************************************************)
(* The goroutines of dispatchEventToEvent.                                 *)
(***************************************************************************)
Deliver(o) ==
  /\ visit[o.to] # "closed"
  /\ offers' = offers \ {o}
  /\ IF Len(listen[o.to]) < BufferSize
     THEN listen' = [listen EXCEPT ![o.to] = Append(@, o.version)] /\ UNCHANGED short
     ELSE /\ short' = IF o.version < announced THEN short ELSE short \cup {o.to}
          /\ UNCHANGED listen
  /\ UNCHANGED <<up, visitVars, hubVars, version>>

\* A send on a closed channel panics whether the select has a default or not.
Panic(o) ==
  /\ visit[o.to] = "closed"
  /\ up' = FALSE
  /\ UNCHANGED <<visitVars, listen, hubVars, version, offers, short>>

----------------------------------------------------------------------------
Handler(s) ==
  \/ ShowInitial(s) \/ Written(s) \/ ShowNothing(s) \/ ShowUpdate(s)
  \/ Deregister(s) \/ Close(s)

Loop == Receive \/ Query \/ DispatchEventToEvent

Offer == \E o \in offers : Deliver(o) \/ Panic(o)

\* The steps of the feed itself; Notify is a step of a room.
Next ==
  /\ up
  /\ \/ \E s \in Spectators : Register(s) \/ HangUp(s) \/ Handler(s)
     \/ ChangeScore \/ Loop \/ Offer

----------------------------------------------------------------------------
(* Properties. *)

TypeOK ==
  /\ up \in BOOLEAN
  /\ visit \in [Spectators -> Listening \cup {"new", "deleted", "closed"}]
  /\ away \subseteq Spectators
  /\ listen \in [Spectators -> Seq(1..MaxVersions)]
  /\ \A s \in Spectators : Len(listen[s]) <= BufferSize
  /\ notified \in 0..GuildCapacity
  /\ hub \in {"receive", "query", "dispatch"}
  /\ version \in 1..MaxVersions
  /\ entries \in 0..MaxVersions
  /\ offers \subseteq [to : Spectators, version : 1..MaxVersions, call : Nat]
  /\ dispatched \in Nat
  /\ shown \in [Spectators -> 0..MaxVersions]
  /\ announced \in 0..MaxVersions
  /\ short \subseteq Spectators

\* Versions on their way to s.
Coming(s) ==
  {o.version : o \in {p \in offers : p.to = s}} \cup {listen[s][i] : i \in 1..Len(listen[s])}

\* sse.go:132-170: because the channel is registered before the first leaderboard is
\* read, a served spectator has seen the newest leaderboard announced, or it is on its
\* way, unless since it was announced the first read failed, or it met a buffer that the
\* spectator had let run full.
SpectatorCaughtUp ==
  \A s \in Spectators \ short :
    visit[s] = "serving" =>
      shown[s] >= announced \/ \E v \in Coming(s) : v >= announced
=============================================================================
