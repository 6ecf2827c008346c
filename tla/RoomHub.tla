------------------------------ MODULE RoomHub ------------------------------
(***************************************************************************)
(* One room of the Code Battle server (internal/hub/event_hub.go), with    *)
(* the HTTP handlers that feed it (handlers/submission.go, handlers/sse.go)*)
(* and the consumer of the guild notifications it emits.                   *)
(*                                                                         *)
(* Handlers put events on the bounded channel `queue`.  Every loop l of    *)
(* Loops is a goroutine running RoomHub.Start: it takes an event and       *)
(* serves it with several database statements, one step each, so that the  *)
(* statements of two loops interleave and any of them may fail.  pc[l]     *)
(* names the statement loop l executes next.                               *)
(***************************************************************************)
EXTENDS Integers, Sequences, FiniteSets

CONSTANTS
  Players,          \* users of the room
  Conns,            \* SSE connections, each used once
  Owner,            \* Owner[c]: the player who opened connection c
  Subs,             \* solutions posted to the room
  Author,           \* Author[s]: the player who posted s
  Loops,            \* goroutines running Start: two for the rooms NewEventHub builds
  Capacity,         \* capacity of the Events channel (10 in the code)
  GuildCapacity,    \* capacity of GuildUpdateChan (100 in the code)
  Seeded,           \* players whose row exists before the server starts
  RoomPlayerState,  \* values the column room_players.state accepts
  Outcomes,         \* what may become of the code of a submission
  MaxFaults,        \* bound: failing database statements
  MaxCrashes,       \* bound: crashes of the server
  None              \* no event, no submission, nobody

ASSUME RoomAssumption ==
  /\ IsFiniteSet(Players)
  /\ Loops # {}
  /\ Owner \in [Conns -> Players]
  /\ Author \in [Subs -> Players]
  /\ Capacity \in Nat \ {0}
  /\ GuildCapacity \in Nat \ {0}
  /\ Seeded \subseteq Players
  /\ Outcomes \subseteq {"passed", "compile", "runtime", "failed",
                         "rejected", "setup", "language", "build"}
  /\ MaxFaults \in Nat
  /\ MaxCrashes \in Nat
  /\ None \notin Subs \cup Loops

VARIABLES
  queue,          \* RoomHub.Events
  conn,           \* conn[c]: new, open, closing (PlayerLeft not sent yet) or gone
  standing,       \* room_players: score and joined_at of every row
  place,          \* room_players.place; 0 stands for NULL
  clock,          \* the database's now(), advanced by every insert
  status,         \* submissions.status, or how far the submission got before
  pc,             \* pc[l]: the next step of loop l
  msg,            \* msg[l]: the event loop l is serving
  snapshot,       \* snapshot[l]: rows the ranking statement of l has read
  fetched,        \* fetched[l]: entries read by l and not announced yet
  leaderboardMu,  \* the loop that holds the mutex, or None
  board,          \* entries of the last LEADERBOARD_UPDATED handed to dispatchEvent
  guildUpdates,   \* notifications in GuildUpdateChan
  hubQuerying,    \* EventHub.Start is between its receive and its query
  unseen,         \* history: a score changed since the last guild query
  outcome,        \* history: what became of the code of each submission
  superseded,     \* history: loops that will announce entries others have read anew
  lingering,      \* history: players whose row may have outlived their departure
  overdue,        \* history: refreshes a failure has skipped since the last good one,
                  \* and "order" after an older board was announced last
  faults,         \* failures so far
  crashes         \* crashes so far

inputVars  == <<queue, conn>>
rosterVars == <<standing, place, clock>>
tableVars  == <<rosterVars, status>>
loopVars   == <<pc, msg>>
workVars   == <<snapshot, fetched, leaderboardMu, board>>
guildVars  == <<guildUpdates, hubQuerying, unseen>>
pastVars   == <<outcome, superseded, lingering>>
logVars    == <<pastVars, overdue, faults, crashes>>
vars == <<inputVars, tableVars, loopVars, workVars, guildVars, logVars>>

----------------------------------------------------------------------------
(* The database. *)

Points == 50     \* generateSolutionResult gives every correct solution 50

Row   == [score : Nat, joined : Nat]
NoRow == [score |-> 0, joined |-> 0]
Present(rows, p) == rows[p].joined > 0

\* Mutant: the ranking has no second key.
BetterByScore(a, b) == a.score > b.score

\* ORDER BY score DESC, joined_at ASC: a goes strictly before b.
Better(a, b) == a.score > b.score \/ (a.score = b.score /\ a.joined < b.joined)

\* RANK() over that order; players without a row keep the 0 of "no place".
Ranking(rows) ==
  [p \in Players |->
     IF Present(rows, p)
     THEN 1 + Cardinality({q \in Players : Present(rows, q) /\ Better(rows[q], rows[p])})
     ELSE 0]

\* What GetRoomPlayers returns, as leaderboard entries.
Entries ==
  {[player |-> p, score |-> standing[p].score, place |-> place[p]] :
     p \in {q \in Players : Present(standing, q)}}

AddPlayer(p) ==
  /\ clock' = clock + 1
  /\ standing' = [standing EXCEPT ![p] = [score |-> 0, joined |-> clock + 1]]
  /\ UNCHANGED place

DropPlayer(p) ==
  /\ standing' = [standing EXCEPT ![p] = NoRow]
  /\ place' = [place EXCEPT ![p] = 0]
  /\ UNCHANGED clock

\* The UPDATE matches no row when the player has none, and is no error then.
AddRoomPlayerScore(p) ==
  /\ standing' = IF Present(standing, p)
                 THEN [standing EXCEPT ![p].score = @ + Points]
                 ELSE standing
  /\ unseen' = TRUE
  /\ UNCHANGED <<place, clock>>

\* The UPDATE writes the ranks computed from the rows l has read into the rows
\* that are still the same ones.
WritePlaces(l) ==
  /\ place' = [p \in Players |->
                 IF Present(standing, p) /\ snapshot[l][p].joined = standing[p].joined
                 THEN Ranking(snapshot[l])[p]
                 ELSE place[p]]
  /\ UNCHANGED <<standing, clock>>

----------------------------------------------------------------------------
(* Events. *)

Verdicts == {"Accepted", "Wrong Answer", "Runtime Error", "Compilation Error"}

\* Mutant: the case of CompileError is forgotten.
StatusWithoutCompile(o) ==
  CASE o = "runtime" -> "Runtime Error"
    [] o = "failed"  -> "Wrong Answer"
    [] OTHER         -> "Accepted"

\* generateSolutionResult: a result without an error it knows stays accepted.
Status(o) ==
  CASE o = "compile" -> "Compilation Error"
    [] o = "runtime" -> "Runtime Error"
    [] o = "failed"  -> "Wrong Answer"
    [] OTHER         -> "Accepted"

Kinds == {"PlayerJoined", "PlayerLeft", "SolutionSubmitted", "SolutionResult"}
Event == [kind : Kinds, player : Players, sub : Subs \cup {None},
          status : Verdicts \cup {None}]

PlayerJoined(p)      == [kind |-> "PlayerJoined", player |-> p, sub |-> None, status |-> None]
PlayerLeft(p)        == [kind |-> "PlayerLeft", player |-> p, sub |-> None, status |-> None]
SolutionSubmitted(s) == [kind |-> "SolutionSubmitted", player |-> Author[s],
                         sub |-> s, status |-> None]
\* A SolutionResult is the submission it answers with the verdict added.

\* The first step of the handler that Start selects for an event.
Entry(e) ==
  CASE e.kind = "PlayerJoined"      -> "find"
    [] e.kind = "PlayerLeft"        -> "remove"
    [] e.kind = "SolutionSubmitted" -> "prepare"
    [] e.kind = "SolutionResult"    -> IF e.status = "Accepted" THEN "credit" ELSE "reject"

Labels == {"receive", "find", "insert", "remove", "prepare", "execute", "reply",
           "reject", "credit", "notify", "rank", "write", "fetch", "announce", "accept"}

\* Mutants: one event more than the channel holds, and one less.
HasRoomForOneMore == Len(queue) <= Capacity
HasRoomButOne     == Len(queue) + 1 < Capacity

HasRoom == Len(queue) < Capacity
Send(e) == HasRoom /\ queue' = Append(queue, e)

Step(l, from, to) == pc[l] = from /\ pc' = [pc EXCEPT ![l] = to] /\ UNCHANGED msg
\* The handler returns (with or without an error) and Start receives again.
Return(l, from) == /\ pc[l] = from
                   /\ pc' = [pc EXCEPT ![l] = "receive"]
                   /\ msg' = [msg EXCEPT ![l] = None]
Fail == faults < MaxFaults /\ faults' = faults + 1
Store(l, st) == status' = [status EXCEPT ![msg[l].sub] = st]
Skip(refreshes) == overdue' = overdue \cup refreshes

----------------------------------------------------------------------------
Init ==
  /\ queue = <<>>
  /\ conn = [c \in Conns |-> "new"]
  /\ standing = [p \in Players |-> IF p \in Seeded THEN [score |-> 0, joined |-> 1] ELSE NoRow]
  /\ place = [p \in Players |-> 0]
  /\ clock = 1
  /\ status = [s \in Subs |-> "unsent"]
  /\ pc = [l \in Loops |-> "receive"]
  /\ msg = [l \in Loops |-> None]
  /\ snapshot = [l \in Loops |-> [p \in Players |-> NoRow]]
  /\ fetched = [l \in Loops |-> {}]
  /\ leaderboardMu = None
  /\ board = {}
  /\ guildUpdates = 0
  /\ hubQuerying = FALSE
  /\ unseen = FALSE
  /\ outcome = [s \in Subs |-> None]
  /\ superseded = {}
  /\ lingering = {}
  /\ overdue = {"rank", "board"}
  /\ faults = 0
  /\ crashes = 0

(***************************************************************************)
(* The HTTP handlers.  The sends of JoinRoomHandler block until the        *)
(* channel has room; SubmitSolutionInRoomHandler answers 503 instead.      *)
(***************************************************************************)
Join(c) ==
  /\ conn[c] = "new"
  /\ Send(PlayerJoined(Owner[c]))
  /\ conn' = [conn EXCEPT ![c] = "open"]
  /\ UNCHANGED <<tableVars, loopVars, workVars, guildVars, logVars>>

\* Mutant: the deferred function of JoinRoomHandler does not send PlayerLeft.
DisconnectSilently(c) ==
  /\ conn[c] = "open"
  /\ conn' = [conn EXCEPT ![c] = "gone"]
  /\ UNCHANGED <<queue, tableVars, loopVars, workVars, guildVars, logVars>>

Disconnect(c) ==
  /\ conn[c] = "open"
  /\ conn' = [conn EXCEPT ![c] = "closing"]
  /\ UNCHANGED <<queue, tableVars, loopVars, workVars, guildVars, logVars>>

Leave(c) ==
  /\ conn[c] = "closing"
  /\ Send(PlayerLeft(Owner[c]))
  /\ conn' = [conn EXCEPT ![c] = "gone"]
  /\ UNCHANGED <<tableVars, loopVars, workVars, guildVars, logVars>>

Submit(s) ==
  /\ status[s] = "unsent"
  /\ Send(SolutionSubmitted(s))
  /\ status' = [status EXCEPT ![s] = "queued"]
  /\ UNCHANGED <<conn, rosterVars, loopVars, workVars, guildVars, logVars>>

RefuseSubmission(s) ==
  /\ status[s] = "unsent"
  /\ ~HasRoom
  /\ status' = [status EXCEPT ![s] = "refused"]
  /\ UNCHANGED <<inputVars, rosterVars, loopVars, workVars, guildVars, logVars>>

(***************************************************************************)
(* RoomHub.Start.                                                          *)
(***************************************************************************)
Receive(l) ==
  /\ pc[l] = "receive"
  /\ queue # <<>>
  /\ msg' = [msg EXCEPT ![l] = Head(queue)]
  /\ pc' = [pc EXCEPT ![l] = Entry(Head(queue))]
  /\ queue' = Tail(queue)
  /\ UNCHANGED <<conn, tableVars, workVars, guildVars, logVars>>

(***************************************************************************)
(* processPlayerJoined: look the player up, insert the row if it is absent.*)
(***************************************************************************)
FindPlayer(l) ==
  /\ \/ Step(l, "find", "rank") /\ Present(standing, msg[l].player)
     \/ Step(l, "find", "insert") /\ ~Present(standing, msg[l].player)
  /\ UNCHANGED <<inputVars, tableVars, workVars, guildVars, logVars>>

\* playerInRoom answers "no" for an error as well.
FindPlayerFails(l) ==
  /\ Fail
  /\ Step(l, "find", "insert")
  /\ UNCHANGED <<inputVars, tableVars, workVars, guildVars, pastVars, overdue, crashes>>

\* addPlayerToRoom leaves State unset: the insert carries the zero value "".
Insertable(p) == "" \in RoomPlayerState /\ ~Present(standing, p)

InsertPlayer(l) ==
  /\ Step(l, "insert", "rank")
  /\ Insertable(msg[l].player)
  /\ AddPlayer(msg[l].player)
  /\ UNCHANGED <<inputVars, status, workVars, guildVars, logVars>>

InsertPlayerRefused(l) ==
  /\ Return(l, "insert")
  /\ ~Insertable(msg[l].player)
  /\ UNCHANGED <<inputVars, tableVars, workVars, guildVars, logVars>>

InsertPlayerFails(l) ==
  /\ Fail
  /\ Return(l, "insert")
  /\ \/ UNCHANGED <<rosterVars, overdue>>
     \/ /\ Insertable(msg[l].player)
        /\ AddPlayer(msg[l].player)
        /\ Skip({"rank", "board"})
  /\ UNCHANGED <<inputVars, status, workVars, guildVars, pastVars, crashes>>

(***************************************************************************)
(* processPlayerLeft: an error of the delete is logged and ignored.        *)
(***************************************************************************)
\* p is being joined by a loop that may still insert the row.
Entering(p) == \E m \in Loops : pc[m] \in {"find", "insert"} /\ msg[m].player = p

NoteRemoval(p) ==
  /\ lingering' = IF Entering(p) THEN lingering \cup {p} ELSE lingering \ {p}
  /\ UNCHANGED <<outcome, superseded>>

\* Mutant: the handler returns once the row is gone.
RemovePlayerAndReturn(l) ==
  /\ Return(l, "remove")
  /\ DropPlayer(msg[l].player)
  /\ NoteRemoval(msg[l].player)
  /\ UNCHANGED <<inputVars, status, workVars, guildVars, overdue, faults, crashes>>

RemovePlayer(l) ==
  /\ Step(l, "remove", "rank")
  /\ DropPlayer(msg[l].player)
  /\ NoteRemoval(msg[l].player)
  /\ UNCHANGED <<inputVars, status, workVars, guildVars, overdue, faults, crashes>>

RemovePlayerFails(l) ==
  /\ Fail
  /\ Step(l, "remove", "rank")
  /\ lingering' = lingering \cup {msg[l].player}
  /\ UNCHANGED <<inputVars, tableVars, workVars, guildVars, outcome, superseded, overdue, crashes>>

(***************************************************************************)
(* processSolutionSubmitted.                                               *)
(***************************************************************************)
PrepareSubmission(l) ==
  /\ Step(l, "prepare", "execute")
  /\ Store(l, "pending")
  /\ UNCHANGED <<inputVars, rosterVars, workVars, guildVars, logVars>>

\* The language is unknown, and nothing is stored; or the code does not build
\* once the row is stored, and the row stays pending.
AbandonSubmission(l) ==
  /\ Return(l, "prepare")
  /\ \E o \in Outcomes \cap {"language", "build"} :
       /\ outcome' = [outcome EXCEPT ![msg[l].sub] = o]
       /\ Store(l, IF o = "language" THEN "unstored" ELSE "pending")
  /\ UNCHANGED <<inputVars, rosterVars, workVars, guildVars,
                 superseded, lingering, overdue, faults, crashes>>

\* A query fails before, while or after the row is stored.
PrepareSubmissionFails(l) ==
  /\ Fail
  /\ Return(l, "prepare")
  /\ \E st \in {"unstored", "pending"} : Store(l, st)
  /\ UNCHANGED <<inputVars, rosterVars, workVars, guildVars, pastVars, overdue, crashes>>

\* WorkerPool.ExecuteJob answers.  "rejected" is the zero Result of a full job
\* queue, "setup" a failure to prepare the container.
ExecuteJob(l) ==
  /\ pc[l] = "execute"
  /\ pc' = [pc EXCEPT ![l] = "reply"]
  /\ \E o \in Outcomes \ {"language", "build"} :
       /\ outcome' = [outcome EXCEPT ![msg[l].sub] = o]
       /\ msg' = [msg EXCEPT ![l].status = Status(o)]
  /\ UNCHANGED <<inputVars, tableVars, workVars, guildVars,
                 superseded, lingering, overdue, faults, crashes>>

\* r.Events <- solutionResult: the loop sends to the channel it drains.
SendResult(l) ==
  /\ Return(l, "reply")
  /\ Send([msg[l] EXCEPT !.kind = "SolutionResult"])
  /\ UNCHANGED <<conn, tableVars, workVars, guildVars, logVars>>

(***************************************************************************)
(* processSolutionResult.                                                  *)
(***************************************************************************)
\* Mutant: no return after a wrong solution is recorded.
RejectSolutionAndGoOn(l) ==
  /\ Step(l, "reject", "credit")
  /\ Store(l, "wrong_answer")
  /\ UNCHANGED <<inputVars, rosterVars, workVars, guildVars, logVars>>

RejectSolution(l) ==
  /\ Return(l, "reject")
  /\ Store(l, "wrong_answer")
  /\ UNCHANGED <<inputVars, rosterVars, workVars, guildVars, logVars>>

RejectSolutionFails(l) ==
  /\ Fail
  /\ Return(l, "reject")
  /\ UNCHANGED <<inputVars, tableVars, workVars, guildVars, pastVars, overdue, crashes>>

AddScore(l) ==
  /\ Step(l, "credit", "notify")
  /\ AddRoomPlayerScore(msg[l].player)
  /\ UNCHANGED <<inputVars, status, workVars, guildUpdates, hubQuerying, logVars>>

\* Mutant: the error is logged and the handler goes on.
AddScoreFailsAndGoesOn(l) ==
  /\ Fail
  /\ Step(l, "credit", "notify")
  /\ UNCHANGED <<inputVars, tableVars, workVars, guildVars, pastVars, overdue, crashes>>

AddScoreFails(l) ==
  /\ Fail
  /\ Return(l, "credit")
  /\ \/ UNCHANGED <<rosterVars, unseen, overdue>>
     \/ AddRoomPlayerScore(msg[l].player) /\ Skip({"rank", "board", "guild"})
  /\ UNCHANGED <<inputVars, status, workVars, guildUpdates, hubQuerying, pastVars, crashes>>

\* Mutant: the notification is dropped one place too early.
NotifyGuildEarlyDrop(l) ==
  /\ Step(l, "notify", "rank")
  /\ guildUpdates' = IF guildUpdates + 1 < GuildCapacity THEN guildUpdates + 1 ELSE guildUpdates
  /\ UNCHANGED <<inputVars, tableVars, workVars, hubQuerying, unseen, logVars>>

\* A full GuildUpdateChan drops the notification.
NotifyGuild(l) ==
  /\ Step(l, "notify", "rank")
  /\ guildUpdates' = IF guildUpdates < GuildCapacity THEN guildUpdates + 1 ELSE guildUpdates
  /\ UNCHANGED <<inputVars, tableVars, workVars, hubQuerying, unseen, logVars>>

MarkAccepted(l) ==
  /\ Return(l, "accept")
  /\ Store(l, "accepted")
  /\ UNCHANGED <<inputVars, rosterVars, workVars, guildVars, logVars>>

MarkAcceptedFails(l) ==
  /\ Fail
  /\ Return(l, "accept")
  /\ UNCHANGED <<inputVars, tableVars, workVars, guildVars, pastVars, overdue, crashes>>

(***************************************************************************)
(* calculateLeaderboard, and the announcement of the new entries.          *)
(***************************************************************************)
\* Mutant: the ranking runs without the mutex.
ReadScoresUnlocked(l) ==
  /\ Step(l, "rank", "write")
  /\ leaderboardMu' = l
  /\ snapshot' = [snapshot EXCEPT ![l] = standing]
  /\ overdue' = overdue \ {"rank"}
  /\ UNCHANGED <<inputVars, tableVars, fetched, board, guildVars, pastVars, faults, crashes>>

ReadScores(l) ==
  /\ leaderboardMu = None
  /\ Step(l, "rank", "write")
  /\ leaderboardMu' = l
  /\ snapshot' = [snapshot EXCEPT ![l] = standing]
  /\ overdue' = overdue \ {"rank"}
  /\ UNCHANGED <<inputVars, tableVars, fetched, board, guildVars, pastVars, faults, crashes>>

Unlock(l) ==
  /\ leaderboardMu' = None
  /\ snapshot' = [snapshot EXCEPT ![l] = [p \in Players |-> NoRow]]
  /\ UNCHANGED fetched

\* Mutants: the mutex is not released, always or only when the query fails.
UpdatePlacesKeepsLock(l) ==
  /\ Step(l, "write", "fetch")
  /\ WritePlaces(l)
  /\ UNCHANGED <<inputVars, status, workVars, guildVars, logVars>>

UpdatePlacesFailsKeepsLock(l) ==
  /\ Fail
  /\ Step(l, "write", "fetch")
  /\ Skip({"rank"})
  /\ UNCHANGED <<inputVars, tableVars, workVars, guildVars, pastVars, crashes>>

UpdatePlaces(l) ==
  /\ Step(l, "write", "fetch")
  /\ WritePlaces(l)
  /\ Unlock(l)
  /\ UNCHANGED <<inputVars, status, board, guildVars, logVars>>

\* "non-fatal, but should be monitored": the handler goes on.
UpdatePlacesFails(l) ==
  /\ Fail
  /\ Step(l, "write", "fetch")
  /\ WritePlaces(l) \/ UNCHANGED rosterVars
  /\ Unlock(l)
  /\ Skip({"rank"})
  /\ UNCHANGED <<inputVars, status, board, guildVars, pastVars, crashes>>

FetchEntries(l) ==
  /\ Step(l, "fetch", "announce")
  /\ fetched' = [fetched EXCEPT ![l] = Entries]
  /\ overdue' = overdue \ {"board"}
  /\ superseded' = {m \in Loops \ {l} : pc[m] = "announce"}
  /\ UNCHANGED <<inputVars, tableVars, snapshot, leaderboardMu, board, guildVars,
                 outcome, lingering, faults, crashes>>

\* processPlayerLeft announces the nil entries; the other two handlers return.
FetchEntriesFails(l) ==
  /\ Fail
  /\ \/ Step(l, "fetch", "announce") /\ msg[l].kind = "PlayerLeft"
     \/ Return(l, "fetch") /\ msg[l].kind # "PlayerLeft"
  /\ Skip({"board"})
  /\ UNCHANGED <<inputVars, tableVars, workVars, guildVars, pastVars, crashes>>

Announce(l) ==
  /\ \/ Step(l, "announce", "accept") /\ msg[l].kind = "SolutionResult"
     \/ Return(l, "announce") /\ msg[l].kind # "SolutionResult"
  /\ board' = fetched[l]
  /\ fetched' = [fetched EXCEPT ![l] = {}]
  /\ superseded' = superseded \ {l}
  /\ overdue' = IF l \in superseded THEN overdue \cup {"order"} ELSE overdue \ {"order"}
  /\ UNCHANGED <<inputVars, tableVars, snapshot, leaderboardMu, guildVars,
                 outcome, lingering, faults, crashes>>

(***************************************************************************)
(* EventHub.Start, the only consumer of GuildUpdateChan.                   *)
(***************************************************************************)
ReceiveGuildUpdate ==
  /\ ~hubQuerying
  /\ guildUpdates > 0
  /\ guildUpdates' = guildUpdates - 1
  /\ hubQuerying' = TRUE
  /\ UNCHANGED <<inputVars, tableVars, loopVars, workVars, unseen, logVars>>

QueryGuilds ==
  /\ hubQuerying
  /\ hubQuerying' = FALSE
  /\ unseen' = FALSE
  /\ overdue' = overdue \ {"guild"}
  /\ UNCHANGED <<inputVars, tableVars, loopVars, workVars, guildUpdates, pastVars, faults, crashes>>

QueryGuildsFails ==
  /\ Fail
  /\ hubQuerying
  /\ hubQuerying' = FALSE
  /\ Skip({"guild"})
  /\ UNCHANGED <<inputVars, tableVars, loopVars, workVars, guildUpdates, unseen, pastVars, crashes>>

(***************************************************************************)
(* The process stops and starts again: only the tables survive, and no     *)
(* PlayerLeft is sent for the connections that broke.                      *)
(***************************************************************************)
Crash ==
  /\ crashes < MaxCrashes
  /\ crashes' = crashes + 1
  /\ queue' = <<>>
  /\ conn' = [c \in Conns |-> IF conn[c] = "new" THEN "new" ELSE "gone"]
  /\ status' = [s \in Subs |-> IF status[s] = "queued" THEN "lost" ELSE status[s]]
  /\ pc' = [l \in Loops |-> "receive"]
  /\ msg' = [l \in Loops |-> None]
  /\ snapshot' = [l \in Loops |-> [p \in Players |-> NoRow]]
  /\ fetched' = [l \in Loops |-> {}]
  /\ leaderboardMu' = None
  /\ guildUpdates' = 0
  /\ hubQuerying' = FALSE
  /\ overdue' = {"rank", "board", "guild"}
  /\ superseded' = {}
  /\ lingering' = {p \in Players : Present(standing, p)}
  /\ UNCHANGED <<rosterVars, board, unseen, outcome, faults>>

Handlers == \/ \E c \in Conns : Join(c) \/ Disconnect(c) \/ Leave(c)
            \/ \E s \in Subs : Submit(s) \/ RefuseSubmission(s)

\* The steps of loop l when no statement fails.
Serve(l) ==
  \/ Receive(l)
  \/ FindPlayer(l) \/ InsertPlayer(l) \/ InsertPlayerRefused(l)
  \/ RemovePlayer(l)
  \/ PrepareSubmission(l) \/ AbandonSubmission(l) \/ ExecuteJob(l) \/ SendResult(l)
  \/ RejectSolution(l)
  \/ AddScore(l) \/ NotifyGuild(l) \/ MarkAccepted(l)
  \/ ReadScores(l) \/ UpdatePlaces(l)
  \/ FetchEntries(l) \/ Announce(l)

Fault(l) ==
  \/ FindPlayerFails(l) \/ InsertPlayerFails(l)
  \/ RemovePlayerFails(l)
  \/ PrepareSubmissionFails(l)
  \/ RejectSolutionFails(l)
  \/ AddScoreFails(l) \/ MarkAcceptedFails(l)
  \/ UpdatePlacesFails(l)
  \/ FetchEntriesFails(l)

Next ==
  \/ Handlers
  \/ \E l \in Loops : Serve(l) \/ Fault(l)
  \/ ReceiveGuildUpdate \/ QueryGuilds \/ QueryGuildsFails
  \/ Crash

Spec == Init /\ [][Next]_vars

(***************************************************************************)
(* The runtime runs every goroutine that can run, and serves a goroutine   *)
(* blocked on a channel or on the mutex in its turn, whence strong         *)
(* fairness for those two steps.  ExecuteJob is assumed to answer.         *)
(***************************************************************************)
Fairness ==
  /\ \A l \in Loops : WF_vars(Serve(l)) /\ SF_vars(SendResult(l)) /\ SF_vars(ReadScores(l))
  /\ \A c \in Conns : SF_vars(Leave(c))
  /\ WF_vars(ReceiveGuildUpdate) /\ WF_vars(QueryGuilds)

FairSpec == Spec /\ Fairness

----------------------------------------------------------------------------
(* Properties. *)

\* Every variable keeps the values the code can give it; a loop holds an event
\* exactly while it serves one.
TypeOK ==
  /\ queue \in Seq(Event) /\ Len(queue) <= Capacity
  /\ conn \in [Conns -> {"new", "open", "closing", "gone"}]
  /\ standing \in [Players -> Row]
  /\ place \in [Players -> Nat]
  /\ clock \in Nat
  /\ status \in [Subs -> {"unsent", "refused", "queued", "lost", "unstored",
                          "pending", "accepted", "wrong_answer"}]
  /\ pc \in [Loops -> Labels]
  /\ msg \in [Loops -> Event \cup {None}]
  /\ \A l \in Loops : pc[l] # "receive" => msg[l] \in Event
  /\ snapshot \in [Loops -> [Players -> Row]]
  /\ fetched \in [Loops -> SUBSET [player : Players, score : Nat, place : Nat]]
  /\ leaderboardMu \in Loops \cup {None}
  /\ board \in SUBSET [player : Players, score : Nat, place : Nat]
  /\ guildUpdates \in 0..GuildCapacity
  /\ hubQuerying \in BOOLEAN /\ unseen \in BOOLEAN
  /\ outcome \in [Subs -> Outcomes \cup {None}]
  /\ superseded \subseteq Loops /\ lingering \subseteq Players
  /\ overdue \in SUBSET {"rank", "board", "guild", "order"}
  /\ faults \in Nat /\ crashes \in Nat

Busy(labels) == \E l \in Loops : pc[l] \in labels

\* calculateLeaderboard (event_hub.go:530): whatever scores, joins and departures
\* two loops interleave, once no handler is on its way to a ranking the places in
\* the table are the ranks of the scores in the table, unless a ranking that
\* should have run has failed and none has run since.
LeaderboardSettled ==
  "rank" \notin overdue /\ ~Busy({"notify", "rank", "write"})
    => place = Ranking(standing)

\* The inductive strengthening of LeaderboardSettled.  A loop writes places only
\* while it holds the mutex, and then the rows it has read are the ones in the
\* table, or another loop has changed the table and will rank after it.
LeaderboardInv ==
  /\ \A l \in Loops : pc[l] = "write" <=> leaderboardMu = l
  /\ \A p \in Players : ~Present(standing, p) => place[p] = 0
  /\ \A l \in Loops : pc[l] = "write" =>
       \/ snapshot[l] = standing
       \/ "rank" \in overdue
       \/ \E m \in Loops \ {l} : pc[m] \in {"notify", "rank"}
  /\ LeaderboardSettled

\* query.sql.go:55-67, calculateRoomLeaderboard: what the places mean to a player.  Once
\* no ranking is under way or overdue, the player with more points is placed before the
\* one with fewer, of two with as many the one who joined first, players whom neither
\* tells apart share a place, and somebody is first.
PlacesFollowScores ==
  "rank" \notin overdue /\ ~Busy({"notify", "rank", "write"}) =>
    LET ranked == {p \in Players : Present(standing, p)}
    IN  /\ \A p, q \in ranked :
             place[p] < place[q] <=>
               \/ standing[p].score > standing[q].score
               \/ /\ standing[p].score = standing[q].score
                  /\ standing[p].joined < standing[q].joined
        /\ \A p \in ranked : place[p] \in 1..Cardinality(ranked)
        /\ ranked # {} => \E p \in ranked : place[p] = 1

Announcing == Busy({"notify", "rank", "write", "fetch", "announce"})

\* event_hub.go:24-26 and room.html:385: a change of the leaderboard is followed by its
\* announcement, so once no handler is on its way to announce another, the last
\* leaderboard handed to the listeners is the one in the table.
BoardCurrent == "board" \notin overdue /\ ~Announcing => board = Entries

\* event_hub.go:455-465: what holds of any number of loops.  Every change of the table is
\* followed by an announcement made of it, whatever the loops interleave; the board that
\* was announced last differs from the table only if a loop has announced entries that
\* another had read anew in between, or the entries could not be read, and no
\* announcement has made up for it since.
BoardSettled == "order" \notin overdue => BoardCurrent

By(p, statuses) == {s \in Subs : Author[s] = p /\ status[s] \in statuses}

\* processSolutionResult adds the points before it marks the submission and does
\* the two in separate statements: in a row that was never deleted, every accepted
\* submission has its points and no point comes from anything but a submission
\* that is accepted or, after a failure or a crash, still pending.
PointsMatchVerdicts ==
  \A p \in Seeded : standing[p].joined = 1 =>
    /\ Points * Cardinality(By(p, {"accepted"})) <= standing[p].score
    /\ standing[p].score <= Points * Cardinality(By(p, {"accepted", "pending"}))

\* The select of processSolutionResult may drop a notification: a score the guild
\* board has not seen still has a notification, or a query, to come.
GuildRefreshNotLost ==
  unseen /\ "guild" \notin overdue
    => guildUpdates > 0 \/ hubQuerying \/ Busy({"notify"})

\* submission.go:164: an unknown failure is never taken for a success.
AcceptedMeansPassed ==
  \A s \in Subs : status[s] = "accepted" => outcome[s] = "passed"

Quiet == queue = <<>> /\ \A l \in Loops : pc[l] = "receive"

\* The player has opened connections, and all of them are over.
Departed(p) ==
  LET own == {c \in Conns : Owner[c] = p}
  IN  own # {} /\ \A c \in own : conn[c] = "gone"

\* event_hub.go:619-631: what holds of any number of loops, however the joins and
\* departures of a player's connections overlap: the row of a departed player is gone,
\* unless the delete that came last failed or met a join of the same player that another
\* loop had begun before, or the departure was lost in a crash.
DepartedAreRemoved ==
  Quiet => \A p \in Players : Departed(p) /\ p \notin lingering => ~Present(standing, p)

\* The steps at which a loop may have to wait: an empty channel, a full one, or the
\* mutex.
Waits(l) ==
  \/ pc[l] = "receive" /\ queue = <<>>
  \/ pc[l] = "reply" /\ ~HasRoom
  \/ pc[l] = "rank" /\ leaderboardMu # None

\* The channel and the loops hold all events that can be under way at once: one for
\* each solution, and the join and the departure of each connection.
Ample ==
  /\ IsFiniteSet(Subs) /\ IsFiniteSet(Conns) /\ IsFiniteSet(Loops)
  /\ Cardinality(Subs) + 2 * Cardinality(Conns) < Capacity + Cardinality(Loops)

\* event_hub.go:357: the loops send to the channel they drain, and two of them share a
\* mutex.  All of them wait for ever only when each has a result that the full channel
\* does not take, and never when it is ample: otherwise they wait for something to do.
OnlyResultsJam ==
  (\A l \in Loops : Waits(l)) => Quiet \/ (~Ample /\ \A l \in Loops : pc[l] = "reply")

\* To those who post, the room is a service as the pool is one to the room: a solution
\* is refused, or taken and judged at most once, and then keeps its verdict.
Judged == {"accepted", "wrong_answer"}
Judging == INSTANCE JobService
  WITH Jobs    <- Subs,
       Answers <- [s \in Subs |-> Judged],
       call    <- [s \in Subs |-> CASE status[s] = "unsent"  -> "new"
                                    [] status[s] = "refused" -> "refused"
                                    [] status[s] \in Judged  -> "returned"
                                    [] OTHER                 -> "waiting"],
       reply   <- [s \in Subs |-> IF status[s] \in Judged THEN status[s] ELSE None]

\* event_hub.go:393-480: the verdict that processSolutionResult stores is the first and
\* the last one, whatever fails, and only of a solution the room has taken.
JudgedOnce == Judging!Safety

\* submission.go:252: a submission answered with 202 "is being processed": it gets a
\* verdict.
SubmissionsJudged == \A s \in Subs : status[s] = "queued" ~> status[s] \in Judged

\* The ends of a submission when no statement fails.
Settled(s) ==
  \/ outcome[s] = "language" /\ status[s] = "unstored"
  \/ outcome[s] = "build" /\ status[s] = "pending"
  \/ outcome[s] \notin {"language", "build"} /\ status[s] \in Judged

\* event_hub.go:302-360: a submission that was taken and builds gets a verdict.  What is
\* in an unknown language leaves no row, and what does not build stays pending; no other
\* submission is left behind as long as the channel is ample and no statement fails.
SubmissionsSettled == \A s \in Subs : status[s] = "queued" ~> Settled(s)
=============================================================================
