-------------------------------- MODULE Feeds --------------------------------
(***************************************************************************)
(* The two feeds of the server together: the news of a room (RoomFeed) and *)
(* the guild leaderboard of its event (GuildFeed).  They meet where a      *)
(* correct solution notifies the hub of the guilds, and in the process     *)
(* they run in: what ends it ends both.                                    *)
(***************************************************************************)
EXTENDS RoomFeed

CONSTANTS
  Spectators,     \* SSE connections to the guild leaderboard
  GuildCapacity,  \* capacity of GuildUpdateChan (100 in the code)
  BufferSize,     \* capacity of a spectator's channel (5 in the code)
  MaxVersions,    \* bound: changes of the guild leaderboard
  Crowds,         \* bound: the sets of clients that may come
  MaxFlight       \* bound: MaxFlight[k], goroutines that may still dispatch when the
                  \* room of crowd k takes its next event

ASSUME FeedsAssumption ==
  /\ IsFiniteSet(Spectators)
  /\ GuildCapacity \in Nat \ {0}
  /\ BufferSize \in Nat \ {0}
  /\ MaxVersions \in Nat \ {0}
  /\ Crowds \subseteq SUBSET (Conns \cup Spectators \cup Subs)
  /\ MaxFlight \in [Crowds -> Nat]

VARIABLES
  up, visit, away, listen, notified, hub, version, entries, offers, dispatched,
  shown, announced, short,
  crowd           \* the clients that come in this behaviour

Guilds == INSTANCE GuildFeed

guildVars == <<up, visit, away, listen, notified, hub, version, entries, offers,
               dispatched, shown, announced, short>>
feedVars  == <<vars, guildVars, crowd>>

FeedsInit ==
  /\ Init
  /\ Guilds!Init
  /\ crowd \in Crowds

\* Clients outside the crowd do not come, and what they would watch does not change.
Bounded ==
  /\ \A c \in Conns : conn'[c] # "new" => c \in crowd
  /\ \A s \in Spectators : visit'[s] # "new" => s \in crowd
  /\ judged' \subseteq crowd
  /\ version' # version => crowd \cap Spectators # {}
  /\ Len(queue') < Len(queue) => Cardinality(casts) + Cardinality(sends) <= MaxFlight[crowd]

RoomStep   == up /\ Step /\ UNCHANGED guildVars
GuildStep  == Guilds!Next /\ UNCHANGED vars
SharedStep == up /\ TakeCorrect /\ Guilds!Notify

FeedsNext == (RoomStep \/ GuildStep \/ SharedStep) /\ Bounded /\ UNCHANGED crowd

FeedsSpec == FeedsInit /\ [][FeedsNext]_feedVars

----------------------------------------------------------------------------
(* Every goroutine that can run does.  A goroutine blocked on a send to    *)
(* Events is served in its turn, and the loop of the room takes events     *)
(* unless it is blocked on its own queue, which RoomHub shows it can be.   *)
InRoom(A)  == up /\ A /\ UNCHANGED <<guildVars, crowd>> /\ Bounded
InGuild(A) == up /\ A /\ UNCHANGED <<vars, crowd>> /\ Bounded

Fairness ==
  /\ \A c \in Conns : WF_feedVars(InRoom(Handler(c))) /\ WF_feedVars(InRoom(SendLeft(c)))
  /\ WF_feedVars(InRoom(Loop))
  /\ WF_feedVars(InRoom(Dispatch))
  /\ \A s \in Spectators : WF_feedVars(InGuild(Guilds!Handler(s)))
  /\ WF_feedVars(InGuild(Guilds!Loop))
  /\ WF_feedVars(InGuild(Guilds!Offer))

FairSpec == FeedsSpec /\ Fairness

----------------------------------------------------------------------------
(* Properties. *)

\* The variables of both feeds have their types.
FeedsTypeOK == TypeOK /\ Guilds!TypeOK /\ crowd \in Crowds

\* sse.go:132-170: a spectator that is served has seen the newest guild leaderboard
\* announced, or it is on its way, unless its first read failed or it fell behind.
SpectatorCaughtUp == Guilds!SpectatorCaughtUp

\* sse.go:82-87 and 174-177: as long as the server runs, a handler whose client is
\* gone returns, off its map and, in a room, with its PlayerLeft on the queue.
HandlersReturn ==
  /\ \A c \in Conns : c \in hungup ~> ~up \/ (conn[c] = "closed" /\ c \notin leaving)
  /\ \A s \in Spectators : s \in away ~> ~up \/ visit[s] = "closed"

\* event_hub.go:172-177: a leaderboard that cannot be sent to a channel "full or
\* closed" is dropped, and the server runs on.
ServerSurvives == up
=============================================================================
