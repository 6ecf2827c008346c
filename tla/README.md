# TLA+ models of RogueLearn.CodeBattle

Code Battle is a Go server for programming contests. Players open a
server-sent-events (SSE) connection to a *room*, post solutions, and see the room's
leaderboard move; spectators watch the leaderboard of the guilds of an *event*; admins
turn the requests of guilds into events; solutions are compiled and run in Docker
containers by a pool of workers. This directory models the server, checks it with TLC
and proves its safety properties with TLAPS.

Paths below are relative to `src/`; a bare file name is under `internal/`.

## 1. Inventory

| Component | State | Operations | Talks to | Modelled in |
|---|---|---|---|---|
| **RoomHub**, the loop of a room (`hub/event_hub.go:19-57, 97-126, 183-691`) | channel `Events` (10), map of listeners, `leaderboardMu` | `Start` and the handlers of `SolutionSubmitted`, `SolutionResult`, `PlayerJoined`, `PlayerLeft`; `dispatchEvent` | tables `room_players`, `submissions`; worker pool; `GuildUpdateChan`; listeners | `RoomHub`, `RoomFeed` |
| **EventHub** (`hub/event_hub.go:19-95, 128-181`) | listeners of every event, `GuildUpdateChan` (100) | `NewEventHub`, `CreateRoom`, `Start`, `dispatchEventToEvent` | database, spectators | `GuildFeed` |
| **SSE handlers** (`handlers/sse.go`) | one listener channel per request | `JoinRoomHandler`, `SpectateEventHandler` | `Events`, the listener maps | `RoomFeed`, `GuildFeed` |
| **Submission handlers** (`handlers/submission.go`) | rows of `submissions` | `SubmitSolutionInRoomHandler` (through the room), `SubmitSolutionHandler` (within the request) | `Events`, worker pool, database | `RoomHub`, `SubmitRequest` |
| **Worker pool and container manager** (`executor/worker_pool.go`, `executor/container_manager.go`) | channel `jobs` (3), a result channel per job, state of every container | `ExecuteJob`, `worker`, `executeJob`, `GetAvailableContainer`, `SetContainerState`, `InitializePool`, `balanceWorker` | Docker | `WorkerPool`, `ContainerPool` |
| **Event request handlers** (`handlers/events.go`) | tables `event_requests`, `events`, `rooms`, `event_guild_participants` | file, list, approve (in a transaction), decline, rooms of an event | database | `EventRequests` |
| **Server** (`cmd/api`, `cmd/main`) | - | start, graceful stop with a limit of 30 seconds | all handlers | `Server` |
| **Code builder and analyzers** (`executor/code_builder.go`, `languages.go`, `sanitize.go`, `package_analyzer.go`) | none | `NormalizeLanguage`, `Sanitize`, `Build`, `Analyze` | - | `CodeBuilder` |
| Problem handlers, gRPC service, helpers, generated code, pages | none of their own | queries, parsing, formatting | database | not modelled, see 7 |

How a solution travels. `SubmitSolutionInRoomHandler` puts `SolutionSubmitted` on the
room's `Events` channel and answers 202 (or 503 when the channel is full). A loop of
the room takes it, stores a pending submission, builds the code, calls
`WorkerPool.ExecuteJob` and waits, then sends a `SolutionResult` *to the channel it
drains itself*. When that is taken, points, ranking, leaderboard and verdict are
written by separate statements, the guild loop is notified, and the entries are handed
to the listeners, by one goroutine per announcement and one per listener.
`SubmitSolutionHandler` does the same within one request: checks, build, pending row,
`ExecuteJob`, update of the row.

How an event comes to be. A guild files a request; an admin lists the pending requests
and processes one; the handler reads its status, and an approval then creates the event,
its rooms and the entry of the guild in one transaction that ends with the update of the
request. The hub does not learn of these rooms: `NewEventHub` knows two built-in ones.

What is hard here:

* **Two loops per room.** `CreateRoom` starts `room.Start()`, and `NewEventHub`, which
  calls `CreateRoom` for its two built-in rooms, starts it again for each
  (`hub/event_hub.go:89-91`). Handlers of one room therefore interleave between
  statements; only the ranking statement is under a mutex. The block marked "remove on
  production" (`hub/event_hub.go:73-92`) holds the only calls of `CreateRoom` too, so every
  room the code builds has two loops, and so has every instance that is checked; the
  proofs are for any number of them.
* **Statements without transactions.** A failed statement or a crash separates what
  belongs together.
* **Bounded channels** with three different policies when full: refuse (`Submit`,
  `ExecuteJob`), drop (`GuildUpdateChan`, listeners), block (joins, departures, results).
* **Two workers, one container**: who claims which container, who answers which call,
  and that every early return of `executeJob` answers and gives the container back.
* **Connections**: the channel of a listener is closed by its handler while goroutines
  of the hub may still send to it; the map has one entry per player, so that connections
  of one player replace each other; clean-up runs in deferred calls and goroutines.
* **Check-then-act across requests**: the status of an event request is read before the
  transaction that approves it.
* **Contexts and limits**: the row of a submission is updated under a context that began
  before the job was queued; a stop waits for requests that may never end; a start takes
  over whatever containers earlier ones left.

`PROJECT.json` lists each hazard at its line with the properties that cover it.

## 2. Modules

| Module | Models |
|---|---|
| `RoomHub` | a room: HTTP handlers that feed it, its loops, its tables, the guild loop, failing statements, crashes |
| `MCRoomHub`, `RoomHubProofs`, `RoomVerdictProofs`, `RoomServiceProofs` | its instances; theorems on the leaderboard; on verdicts, points and departures; on places, jams and the room as a service |
| `JobService` | abstract: what `ExecuteJob` promises its callers, and a room those who post |
| `WorkerPool` | the pool, its workers and containers; refines `JobService` |
| `MCWorkerPool`, `WorkerPoolProofs` | instances: four jobs that end in four ways; theorems |
| `CodeBuilder` | operators: how a post becomes a program |
| `SubmitRequest` | the synchronous submission, on `CodeBuilder` and composed with `WorkerPool` |
| `MCSubmitRequest`, `SubmitRequestProofs` | instances: ten posts, of which seven fail one check each; theorems |
| `RoomFeed` | `JoinRoomHandler` against the loop's announcements: the map of listeners, dispatch goroutines, channels |
| `GuildFeed` | `SpectateEventHandler` against `EventHub.Start` |
| `Feeds` | both in one process, meeting where a correct solution notifies the hub |
| `MCFeeds`, `FeedsProofs` | instances; theorems |
| `RequestLedger` | abstract: what the handlers of event requests promise guilds and admins |
| `EventRequests` | the handlers of event requests, statement by statement; refines `RequestLedger` |
| `ContainerPool` | the start of the pool of containers, and the process that comes and goes |
| `Server` | both together: handlers run while the process is up, a crash or a stop cuts them off |
| `MCServer`, `ServerProofs` | instances; theorems |

Operators called a *mutant* in a comment are never part of a specification. Each is the
definition below it with a mistake one could make in the code, and shows that a
property would notice the mistake.

### RoomHub

| Variable | Code |
|---|---|
| `queue` | `RoomHub.Events` |
| `conn[c]` | where the request of `JoinRoomHandler` for connection `c` is: `closing` while the deferred goroutine still has to send `PlayerLeft` |
| `standing`, `place`, `clock` | rows of `room_players` (score, `joined_at`, place), and the database's clock |
| `status[s]` | `submissions.status`, or where the submission is before its row exists |
| `pc[l]`, `msg[l]` | the statement loop `l` executes next, and the event it serves |
| `snapshot[l]`, `leaderboardMu` | the rows the ranking statement of `l` has read; the mutex around it |
| `fetched[l]`, `board` | entries read and not announced; the last leaderboard handed to `dispatchEvent` |
| `guildUpdates`, `hubQuerying`, `unseen` | `GuildUpdateChan`, the guild loop, and whether a score has changed since its last query |
| `outcome`, `overdue` | history: what became of each code; which refreshes were skipped by a failure, and `"order"` when the board announced last was announced by an overtaken loop |
| `superseded` | history: loops that are about to announce entries which another loop has read anew |
| `lingering` | history: players whose last delete failed or met a join that another loop was serving, or whose row survived a crash |

Every action is one statement, send or receive. An action `XFails` is the failure of the
statement in `X`; where the client cannot know whether the server executed the statement,
both cases are in it. The history variables enter no guard: they let properties name the
cases in which the code gives a promise up. `ReadScores` and `UpdatePlaces` split the one ranking statement
(`UPDATE ... FROM (SELECT RANK() ...)`) into its snapshot and its write, because under
read committed another transaction may commit between them. `Crash` loses everything in
memory.

Two things a reader should know about `RoomPlayerState`, the values the column
`room_players.state` accepts. `addPlayerToRoom` never sets `State`, so the insert carries
`''`, and the enum of `sqlc/schema.sql` has no such label: with the repository's schema
no player is ever inserted by a room (`InsertPlayerRefused`, the only outcome of a join in
`room_scores`). To check the joining and leaving code anyway, `room_faults` gives the
constant a column that takes `''`. It says what the code does once the insert works.

Left out: `RoomDeleted`, which nothing sends; names (`getRoomLeaderboardEntries` gives
every entry the same one); the order of the entries (a set, since each carries its
place); the language and code of a submission, but for whether it builds; the delivery
to listeners (`RoomFeed`). Every verdict that is not `Accepted` is stored as
`wrong_answer`, as in the code. Statements that were running when the process died are
treated as not executed.

### WorkerPool and JobService

| Variable | Code |
|---|---|
| `jobs` | `WorkerPool.jobs` |
| `call[j]`, `reply[j]` | the call of `ExecuteJob` for job `j`, and what it returned |
| `result[j]` | the channel `Job.Result`, capacity 1 |
| `state[c]` | `ContainerInfo.State` |
| `image[c]` | the job whose source was last copied into `c` |
| `step[w]`, `task[w]`, `held[w]`, `tries[w]`, `passed[w]` | a worker inside `executeJob` |

`image` is what lets the model tell a verdict on the caller's code from a verdict on
another job's: a worker runs whatever lies in its container. `GetAvailableContainer`
finds and marks a container under one lock (`Claim`). `SetContainerState` writes without
the lock, a data race. Its two values "idle" and "busy" are strings of the same
length, so a reader sees one or the other, and a reader that sees the older one acts as
if it had come earlier; the write is one step. Docker failures and the 15 second limit
are `CopyFails`, `CompileFails`, `RunFails`.

`Outages` are the sets of containers that may not run at the start: such a container is
registered in state `error`, counts towards `maxWorkers`, and is never used or replaced.
`Init` picks one of these sets. What a killed program may still do inside its container
is not modelled.

In `JobService` a call is refused, or accepted and answered once with a result its code
can have; with fairness, every accepted call is answered. `RoomHub.ExecuteJob` relies on
exactly this. The pool implements the safety part always, and the liveness part if as
many containers run as there are workers (`Equipped`).

### CodeBuilder and SubmitRequest

A text is reduced to what the Go functions see of it: its length, the pattern categories
it matches, whether it parses, its imports, its selectors `x.y`, its placeholders.
Regular expressions themselves are not modelled, and neither is the wording of errors.
Two consequences of the code are visible there. `LanguagePatterns` has the keys
`python`, `go`, `js` and `cpp`, while `Build` passes the names `Python`, `Golang` and
`Javascript`: only the common patterns are ever applied. And the Go analyzer takes every
`x` of an `x.y` for a package, so that a program that selects from a local variable gets
an import that does not exist (the post `LocalGo`), and is judged a compilation error.

| Variable of `SubmitRequest` | Code |
|---|---|
| `post[j]` | the body of the request |
| `handler[j]` | the step of `SubmitSolutionHandler` |
| `row[j]`, `stored[j]` | the row of `submissions`, and whether the handler got its id |
| `answer[j]`, `gone` | what the client is told; clients that have left |
| `lapsed` | history: posts whose insert or update reported an error |

The members of `Jobs` of `WorkerPool` are called by these handlers. The insert runs under
the context of the request, the update under one of ten seconds made at the beginning,
which may be over whenever the update runs: `UpdateFails` is always possible. The error
of the insert is overwritten before it is looked at (`submission.go:116`).

### RoomFeed, GuildFeed, Feeds

| Variable | Code |
|---|---|
| `conn[c]`, `hungup` | the step of `JoinRoomHandler`, from registration to the last deferred call; whether the context of its request is done |
| `Listerners[p]` | the map of listeners (named as in the code): one channel per player |
| `queue`, `leaving` | `Events`; goroutines that wait to send `PlayerLeft` |
| `casts`, `sends` | goroutines of `dispatchEvent`: one per announcement, one per listener |
| `best`, `due`, `missed`, `lastWord` | history: the newest board shown and announced, who was busy when that board was offered, the last coming or going that was queued |
| `visit[s]`, `away`, `listen[s]` | the step of `SpectateEventHandler`; its channel (5) |
| `notified`, `hub`, `entries`, `offers` | `GuildUpdateChan`, `EventHub.Start`, what it has read, its goroutines |
| `up` | the process runs |

What the loop of a room does to the database is abstracted to what it announces: a
notice and a board, a notice, or nothing (an error). Its own send of a result is one step
of a solution (`SendResult`). A handler is `busy` between the send of its `PlayerJoined`, or
the receipt of an event, and its `select`: what is offered then is dropped. The version of the guild leaderboard changes from outside:
this program only reads that table (`TODO` at `hub/event_hub.go:134`). A send on a closed
channel panics: `dispatchEvent` recovers (`Drop`), `dispatchEventToEvent` does not
(`Panic`).

### EventRequests, ContainerPool, Server

| Variable | Code |
|---|---|
| `status`, `filed`, `approved` | rows of `event_requests`, in the order of `created_at` |
| `events`, `rooms`, `participants` | rows of the other tables |
| `step[a]`, `target[a]`, `built[a]` | the handler of admin `a`, the request it processes, rooms its transaction has inserted |
| `lock[r]` | the transaction that has updated the row of `r` and not committed |
| `reply[a]`, `contested` | the last answer; history: requests two handlers processed at the same time |
| `docker[c]`, `pool[c]` | Docker's container, and the entry of the manager's map |
| `phase`, `needed`, `starting` | where main is; containers `balanceWorker` has still to start or remove; the one that is created and not started |
| `streams`, `stops`, `scenario` | an SSE request is open; crashes, failed starts and signals; the instance |

What a transaction writes becomes visible at `Commit`, the database running at read
committed, its default; a rollback is `Answer` without it. `CommitFails` has both cases:
rolled back, or committed and the answer lost. `Look` is what `admin-requests.html` lets an
admin do: pick a pending request from the page, which has twenty rows and no next page.
If all rows of the unfiltered page are decided, the admin changes the filter.

A container that exits matters at the next start only, since nothing looks at the pool in
between; `ContainerExits` is therefore a step of the time when the server is down.
`ReadTimeout` of the server may end the context of a request, which is in the failing
statements; `WriteTimeout` is 0, so that streams are not cut off.

## 3. Properties

`RoomHub`:

* `TypeOK`: types; channels within their capacities; a loop serves an event.
* `LeaderboardSettled`: when no handler is on its way to a ranking, the places in the
  table are the ranks of the scores in it. With two loops this needs the mutex: without
  it an older ranking is written last.
* `LeaderboardInv`: the inductive form of the former, also checked.
* `PlacesFollowScores`: what the ranks mean to the players. Settled places put the player
  with more points, or who joined earlier with as many, before the other; players whom
  neither tells apart share a place; somebody is first. It is stated without `RANK`, and
  so checks the operator that models it as well.
* `BoardCurrent`: once no handler is on its way to announce a leaderboard, the last one
  announced is the one in the table. Two loops break it without any failure (finding 5),
  since entries are read and announced outside the mutex.
* `BoardSettled`: what holds of any number of loops. The board announced last is the
  table's unless the loop that announced it had been overtaken by another's read, or the
  entries could not be read, with no good announcement since. In particular no handler
  forgets to announce its change, and an older board is put right by the next one.
* `PointsMatchVerdicts`: for a player whose row was never deleted, accepted submissions
  have their points, and points come only from accepted submissions or pending ones
  (points are written first).
* `AcceptedMeansPassed`: a submission is accepted only if its code passed.
* `GuildRefreshNotLost`: a score the guild board has not seen has a notification or a
  query to come, although a full channel drops notifications.
* `JudgedOnce` (refinement): to those who post, a room is a `JobService`. A solution is
  refused, or taken and judged at most once; a verdict never changes, whatever fails and
  whichever loop serves the result. A crash may leave a taken solution unanswered.
* `OnlyResultsJam`: loops that all wait (for an event, for room in the channel, for the
  mutex) wait for something to do, or each has a result that the full channel does not
  take. The second is impossible if the channel is `Ample`: if the submissions, and a join
  and a departure for each connection, are fewer than places in the channel and loops
  together. The bound is exact: two submissions and one connection miss it by one on the
  channel of `room_faults`, and reach the jam there; finding 2 is the same jam. With the
  capacity of 10 and two loops of the code, a room of up to 11 such events never jams.
* `DepartedAreRemoved`: once the room is quiet, a player who closed all connections is not
  on the leaderboard, with any number of loops, failures and crashes, and however joins
  and departures of the player's connections overlap, unless the delete that came last
  failed, met a join of the player that another loop was serving, or was lost in a crash.
  The second exception is real: a slow `PlayerJoined` inserts the row after the
  `PlayerLeft` queued behind it has deleted it, and the player stays on the leaderboard.
* `SubmissionsJudged` (liveness): a submission answered with 202 gets its verdict. It is
  violated where the room jams (finding 2), and it does not hold of code that does not build.
* `SubmissionsSettled` (liveness): with an ample channel and no failing statement these are
  all the ways to go without one. Code in an unknown language leaves no row. Code that
  does not build, for instance Go that does not parse, leaves a row that is pending for
  ever, since `processSolutionSubmitted` stores it and returns on the error of `Build`
  (`hub/event_hub.go:346-350`). Every other accepted submission is judged.

The converse of `DepartedAreRemoved`, that nobody else loses the row, is false, and the
model shows why. When a player has two connections, the departure of the first deletes
the row, and the score, while the second is open. Nothing in the repository says which is meant.

`WorkerPool`:

* `TypeOK`.
* `ContainersExclusive`: a container is busy exactly while one worker holds it.
* `ContainerAvailable`: with as many running containers as workers, a lookup never fails.
* `OneResultPerJob`: each job is with one worker and gets one result, sent to a caller
  that still waits; so no send of `executeJob` ever blocks a worker.
* `NoCallLost`: with as many running containers as workers, a call that waits is queued,
  with a worker at a step that leads to an answer, or answered. It is the safety side of
  the liveness of `JobService`: no return of `executeJob` leaves a caller behind.
* `VerdictOfOwnCode`: a call gets the result of its own code, or an error if Docker or
  the clock failed, never a success it does not deserve.
* `ServiceSpec`: the pool implements `JobService`, liveness included where it is equipped.
* `EveryCallReturns` (liveness): an accepted call returns.

`SubmitRequest`:

* `StoredStatusIsVerdict`: a row that has left `pending` holds the verdict on the
  program, an error because Docker failed, or the default of a refused job.
* `PendingExplained`: a handler that has ended leaves its row pending only if a statement
  or the ten seconds failed it, and its client was told so. A client that leaves after
  its row was stored does not keep the row from being judged.

`RoomFeed`, `GuildFeed`, `Feeds`:

* `FeedsTypeOK`.
* `RegisteredIsOpen`: no closed channel is in the map of listeners, although connections
  of one player replace each other there.
* `OnlyRivalsSilence` (action): a connection that is still served leaves the map only by a
  step of another connection of its player. That it *can* leave so, the second tab
  silencing the first, is what the code does.
* `BoardsAccounted`: the newest board announced while a connection was registered, or a
  newer one, is shown, on its way, or was offered while the handler was busy; an earlier
  drop excuses nothing.
* `LeftIsLastWord`: when all connections of a player are over, the last the room hears of
  the player is that the player left.
* `SpectatorCaughtUp`: a served spectator has seen the newest leaderboard announced or it
  is on its way, unless since it was announced the first read failed, or it met a full
  buffer. It needs the order
  "register, then read".
* `HandlersReturn` (liveness): a handler whose client is gone returns, off the map and with
  its `PlayerLeft` sent.
* `ServerSurvives`: no goroutine ends the process.

`EventRequests`, `ContainerPool`, `Server`:

* `ServerTypeOK`.
* `EventsComplete`: an event that can be seen has all its rooms and its guild.
* `DecidedOnce` (action): a request that was approved or declined is not decided again. Two
  admins break it (finding 6); the next four properties say what remains true.
* `OneOutcome`: a request that no two handlers processed at once is approved with exactly
  the event that was made of it, or has no event. For a contested one the code makes two
  events, of which the request names the last; `GuildSeesItsEvent` says what is left:
  the guild is shown one event, complete, exactly if its request is shown as approved.
* `DecidedAtOnce` (refinement): the handlers implement `RequestLedger`. What guilds and
  admins can see of a request and its event (`Shown`) changes in single steps: filed,
  approved together with the event, all its rooms and its guild, or declined; and a
  request is decided again only if two handlers have processed it at once.
* `AnswersHold`: an admin who is told of an approval finds the event; one who is told of a
  refusal finds it, unless another admin processed the request as well.
* `EveryRequestDecided` (liveness): admins who keep processing what the page shows reach
  every request, also those newer ones push off the page.
* `PoolBalanced`: whatever a start finds, it registers exactly `MaxWorkers` containers,
  unless a call of Docker failed. Containers that do not run are among them.
* `NeverOverfull` (action): no start creates a container beyond `MaxWorkers`, however many
  starts were cut short before.
* `StopEnds` (liveness): a server that was told to stop ends, although streams need not.

## 4. Runs

| Run | Instance | Shows |
|---|---|---|
| `room_scores` | 2 loops, 2 submissions of 2 players, 1 connection, channel of 3, the repository's schema, no failure, fairness | places settle and accepted programs have passed; loops with an ample channel never jam, and every submission that builds is judged |
| `room_faults` | 2 loops, 2 submissions, 2 connections of one player, channel of 2, 1 failing statement, 1 crash, a column that takes `''` | what one failure and one crash anywhere cannot break, the refinement of `JobService` by the room among it; loops jam only on results, and here they can; the leaderboard announced last, and the rows of players who have left |
| `room_zero_result` | 1 submission, the pool refuses it or cannot set it up | **violated** `AcceptedMeansPassed` |
| `room_overload` | 2 loops, 3 submissions, channel of 1 | **violated** `SubmissionsJudged` |
| `room_old_board` | 2 loops, 2 submissions, no failure | **violated** `BoardCurrent` |
| `pool_jobs` | 4 jobs (passes, wrong answer, compile error, crash), 2 workers, 2 containers of which both run or only one, channel of 1, 1 Docker failure, fairness | safety, no call left behind, and refinement of `JobService` |
| `pool_scarce` | 3 synchronous submissions with ten different posts on 2 workers, 1 of 2 containers runs, 1 failure of Docker, of the database or of a connection | the rows say what the answers and the verdicts say; the pool when lookups fail and jobs are given up |
| `pool_lost_job` | 2 jobs, one of two containers does not run, no failure | **violated** `EveryCallReturns` |
| `feeds` | two tabs of one player; or one tab and a solution; or a spectator and two solutions; channels of 1, fairness | what registration, clean-up and channels guarantee together |
| `guild_panic` | one spectator, one solution, the real buffer of 5 | **violated** `ServerSurvives` |
| `server` | seven scenarios: three states of Docker at the start, with a stream, 1 failure and 2 stops; four combinations of 3 requests, 2 admins, 1 failure and 1 stop; fairness | starts, approvals, refusals, crashes, stops; refinement of `RequestLedger` |
| `server_two_admins` | 2 admins at one request, no failure | **violated** `DecidedOnce` |

Findings (details and quotations in `PROJECT.json`):

1. `generateSolutionResult` starts from `Accepted` with 50 points; the zero `Result` of a
   full job queue, and a result whose error is not one of three, are stored as accepted.
   The synchronous path has a default case against exactly this
   (`submission.go:164`).
2. The loops send results to the channel they drain. With more accepted submissions than
   channel and loops hold, all loops block and the room stops.
3. `executeJob` returns without an answer when no container becomes idle;
   its caller, for example a loop of a room, waits for ever.
4. A spectator who leaves between the copy of its channel and the send closes a channel
   that is then sent to, outside any `recover`: the server ends.
5. Of the two loops of a room the one that read the leaderboard first may announce it last,
   so that the clients are left with one that lacks a solution.
6. Two admins who process one pending request both pass the check of its status, and it is
   decided twice.

**Bounds.** Capacities are 1 to 3 instead of 10, 100, 5 and 3, so that *full* is met after
a few events; nothing in the code depends on the numbers but through full and empty. Two
loops are what the code starts; two workers, and two admins, are the fewest that compete;
one failure and one crash suffice for every order of one of each with the other steps.
`MaxRetries` is 2 for 10: lookups only count. `MaxFaults`, `MaxLapses` and `MaxCrashes`
bound the environment, and `OneFailure` (a constraint of `pool_scarce`) their sum.
`SmallRoom` (of `room_faults`) keeps the combinations small: with one connection used, both
submissions, the failure and the crash may occur; with both connections used, either the
failure and the crash, or one submission and neither;
submissions, connections, jobs and requests are finite sets of one-shot requests.
`MCWorkerPool` has one job for each way a job ends.

`Crowds` and `Scenarios` replace one large instance by several small ones that are checked
in the same run: each behaviour has one crowd of clients, or one scenario. They are chosen
so that the cases of each property are there: two connections of a player replace each
other; a connection sees the announcements of two events overlap; the spectator's buffer
fills up; a start finds too few containers, too many, or one that does not run; an admin
meets another at one request, a failing statement, a stop within a transaction; a request
is pushed off the page (`PageSize` is 1). `MaxFlight` bounds how many dispatch goroutines
may be left when the room takes its next event: with 1, announcements of two events
overlap where that matters. The proofs of section 5 hold without these bounds.

The loops of a room are interchangeable, and the symmetry is used in the safety runs only.
Deadlock is an error in `server`. In the other runs it is not: when all one-shot requests
are served, the system rests, and in `feeds` the process may die.

**Fairness.** `FairSpec` of `RoomHub` is weak fairness for each loop and the guild loop
(the runtime runs every runnable goroutine and the database answers), and strong fairness
for the steps blocked on a channel or the mutex: Go serves blocked senders in FIFO order,
and a mutex that starves a waiter switches to FIFO hand-over. A job is assumed to
end; `WorkerPool` shows when it does. `FairSpec` of `WorkerPool` is weak fairness for each
worker (Docker answers or the 15 seconds end the call) and for each caller. `FairSpec` of
`Feeds` is weak fairness for each handler, each goroutine and the loops; it assumes that
the loop of the room is not blocked on its own queue, which `room_overload` shows it can
be. `FairSpec` of `Server` is weak fairness for the start, for the handlers, and for the
end of a stop (the timer of `Shutdown` fires); that a server that is down is started again
and that admins go on processing what they are shown are assumptions about operators and
admins, without which `EveryRequestDecided` could not be promised by any code. Clients owe
nothing: joining, leaving, submitting, filing and ending a stream are never fair.

## 5. Proofs

All theorems hold for every value of the constants that satisfies the named assumption
of the module (`RoomAssumption`, `PoolAssumption`, `SubmitAssumption`, `FeedAssumption`,
`FeedsAssumption`, `RequestsAssumption`, `ServerAssumption`): any number of players,
connections, submissions, loops, workers, containers, jobs, test cases, spectators,
requests, admins, failures and crashes, and any capacity.

| Theorem | States | Argument |
|---|---|---|
| `RoomHubProofs!TypeCorrect` | `Spec => []TypeOK` | one case per action, with lemmas on the events, the rows and the control of a loop |
| `RoomHubProofs!LeaderboardInvCorrect`, `LeaderboardCorrect` | `Spec => []LeaderboardInv`, `Spec => []LeaderboardSettled` | `LeaderboardInv` is inductive: see below |
| `RoomHubProofs!GuildRefreshCorrect` | `Spec => []GuildRefreshNotLost` | inductive together with `TypeOK` |
| `RoomHubProofs!BoardCorrect` | `Spec => []BoardSettled` | `BoardInv`: see below |
| `RoomVerdictProofs!PointsCorrect` | `Spec => []PointsMatchVerdicts` | `CarrierInv` and `ScoreInv`: see below |
| `RoomVerdictProofs!AcceptedCorrect` | `ReliableJobs => (Spec => []AcceptedMeansPassed)` | `CarrierInv` and `PassedInv`; without the hypothesis it is finding 1 |
| `RoomVerdictProofs!DepartedCorrect` | `Spec => []DepartedAreRemoved` | `DepartInv`: a player who closed everything has a `PlayerLeft` queued that no join follows, or no join queued and a row that is being removed, known to linger, or gone with no loop about to insert it |
| `RoomServiceProofs!PlacesCorrect` | `Spec => []PlacesFollowScores` | counting: a better row has the rows above it above the other one too, and itself; the smallest place has nobody above it |
| `RoomServiceProofs!JudgedOnceCorrect` | `Spec => JudgedOnce` | every step is a step of `JobService` or a stutter; by `CarrierInv` a loop that stores a verdict finds the row pending |
| `RoomServiceProofs!OnlyResultsJamCorrect` | `Spec => []OnlyResultsJam` | `LeaderboardInv` (the holder of the mutex never waits), `CarrierInv` and `PresenceInv`: see below |
| `WorkerPoolProofs!TypeCorrect` | `Spec => []TypeOK` | one case per action |
| `WorkerPoolProofs!ExclusiveCorrect` | `Spec => []ContainersExclusive` | `HoldInv` adds who holds a container at which step |
| `WorkerPoolProofs!AvailableCorrect` | `Spec => []ContainerAvailable` | from `HoldInv`: if none is idle, running containers inject into the *other* workers |
| `WorkerPoolProofs!OneResultCorrect` | `Spec => []OneResultPerJob` | `JobInv`: a job is in the channel once, or with one worker, or answered |
| `WorkerPoolProofs!VerdictCorrect` | `Spec => []VerdictOfOwnCode` | `VerdictInv`: the code in a worker's container is that of its job, and the test cases counted are passed |
| `WorkerPoolProofs!NoCallLostCorrect` | `Spec => []NoCallLost` | from `JobInv` and `ContainerAvailable`: no step of an equipped pool gives a job up, and every other step hands it on or answers it |
| `WorkerPoolProofs!ServiceImplemented` | `Spec => Service!Safety` | every step of the pool is a step of `JobService` or a stutter |
| `SubmitRequestProofs!PoolImplemented` | `SubmitSpec => Spec` of `WorkerPool` | the handlers call the pool as its callers may, so the pool's theorems hold of the composition |
| `SubmitRequestProofs!StoredStatusCorrect` | `SubmitSpec => []StoredStatusIsVerdict` | from `VerdictOfOwnCode` at the step that stores, and stable afterwards |
| `SubmitRequestProofs!PendingCorrect` | `SubmitSpec => []PendingExplained` | `RequestInv`: which row, call and answer go with each step |
| `FeedsProofs!RoomImplemented` | `FeedsSpec => Spec` of `RoomFeed` | every step of the composition is one of the room or leaves it alone |
| `FeedsProofs!RoomTypeCorrect`, `FeedsTypeCorrect` | types | one case per action |
| `FeedsProofs!RegisteredOpenCorrect` | `Spec => []RegisteredIsOpen` | inductive: a handler that is past its clean-up is not in the map, and nobody puts it back |
| `FeedsProofs!RivalsCorrect` | `Spec => OnlyRivalsSilence` | the steps that write the map |
| `FeedsProofs!LastWordCorrect` | `Spec => []LeftIsLastWord` | `LastWordInv`: after a `joined`, a handler or a goroutine of the player still has its `left` to send |
| `FeedsProofs!BoardsCorrect` | `Spec => []BoardsAccounted` | `BoardInv`: a board at least as new as the one due is with a goroutine, or shown, or was missed |
| `FeedsProofs!CaughtUpCorrect` | `FeedsSpec => []SpectatorCaughtUp` | `GuildInv`: the hub has read nothing newer than the database, and what it handed on reaches whoever has shown less |
| `ServerProofs!ServerTypeCorrect` | `ServerSpec => []ServerTypeOK` | one case per action |
| `ServerProofs!EventsCompleteCorrect`, `GuildSeesItsEventCorrect` | as named | `CompleteInv`: a transaction past its rooms has inserted all of them; a request is approved iff it names an event, which exists and is its own |
| `ServerProofs!OneOutcomeCorrect` | `ServerSpec => []OneOutcome` | `OutcomeInv`: while a handler decides a request nobody contests, it is pending and no other handler decides it |
| `ServerProofs!AnswersHoldCorrect` | `ServerSpec => []AnswersHold` | `AnswerInv`: also for the answer a handler is about to give |
| `ServerProofs!LedgerImplemented` | `ServerSpec => DecidedAtOnce` | every step is a step of `RequestLedger` or a stutter: a commit shows the whole event by `CompleteInv`, and decides an undecided request by `OutcomeInv` |
| `ServerProofs!PoolBalancedCorrect`, `NeverOverfullCorrect` | as named | `PoolInv`: what is registered and what is needed add up to `MaxWorkers`, and only registered containers, and the one being started, exist |

`LeaderboardSettled` alone is not inductive: a loop that is about to write says nothing
about what it will write. `LeaderboardInv` says who holds the mutex (a loop is at `write`
iff it holds it), that absent players have no place, and that the rows a writing loop has
read are those in the table, *or* another loop changed them and is still on its way to a
ranking (or a failure left one overdue). A score, join or departure always leaves its
loop before a ranking, which is why the second alternative is available whenever the
first is lost.

`BoardSettled` needs `BoardInv`. A loop about to announce that was not overtaken has
entries which are the table's, or some loop has changed the table and will read it anew.
And the board announced last is the table's, or a loop that has changed the table, or one
about to announce that was not overtaken, will still announce, or an overtaken loop has
spoken last or the entries could not be read. A read overtakes every other loop that is
about to announce, which keeps the first part when several loops announce at once; the
first part is what the second needs at an announcement. `BoardInv` and `DepartInv` were
checked with TLC, with two connections, a failure and a crash, before they were proved.

Points and verdicts rest on `CarrierInv`: a submission that is queued or being judged
travels in exactly one event, which is in the channel or with one loop, and its row is
`pending` from the insert on. So a verdict is computed once and points are given once. On
top of it, `ScoreInv` squeezes the score of a player between two sets: the submissions
that are accepted or with a loop past the points, and those that are accepted or pending
without an event that has yet to reach the points. Each step leaves both alone, or adds
one submission to both together with its 50 points.

`OnlyResultsJam` is shown by counting. If all loops wait, the mutex is free, since its
holder is at the statement that writes the places. If the channel is empty, nobody waits
for room in it, and the room is quiet. Otherwise every loop holds a result, and the
channel is full. By `CarrierInv` the solutions the loops hold and those on the channel are
all different, which injects loops and events about solutions into the submissions. The
rest of the channel are joins and departures, and `PresenceInv` (inductive, checked with
TLC before it was proved) bounds them: one for each connection that is no longer new, and
one more for each that is gone. Together `Capacity + |Loops| <= |Subs| + 2 |Conns|`.

The pool's invariants are layered. `HoldInv` needs only `TypeOK`; `JobInv` likewise;
`VerdictInv` needs both: exclusiveness so that nobody overwrites a container between copy
and run, and the one worker per job so that a result is sent for the job it belongs to.
Those of the server are layered in the same way, and `ServerProofs!Inductive` joins them.

Only model-checked: all liveness (`SubmissionsSettled`, `EveryCallReturns`, the fairness
part of `ServiceSpec`, `HandlersReturn`, `EveryRequestDecided`, `StopEnds`), which TLAPS
does not handle. Of the first two and of `ServiceSpec`, `OnlyResultsJam` and `NoCallLost`
are the safety part, and proved: nothing is in a state it cannot leave. `CodeBuilder` is used by the proofs through `SubmitAssumption` only,
which ties what a program compiles to, in the pool, to what the builder made of the post;
TLC evaluates it on the posts of `MCSubmitRequest`.

## 6. Running the checks

    tlc -config RoomScores.cfg MCRoomHub.tla      # RoomFaults, RoomZeroResult,
                                                  # RoomOverload, RoomOldBoard
    tlc -config PoolJobs.cfg MCWorkerPool.tla     # PoolLostJob
    tlc -config PoolScarce.cfg MCSubmitRequest.tla
    tlc -config Feeds.cfg MCFeeds.tla             # GuildPanic
    tlc -config Server.cfg MCServer.tla           # ServerTwoAdmins
    tlapm RoomHubProofs.tla                       # RoomVerdictProofs, WorkerPoolProofs,
                                                  # RoomServiceProofs,
                                                  # SubmitRequestProofs, FeedsProofs,
                                                  # ServerProofs

## 7. Not modelled

* Problem handlers (`handlers/problems.go`): read-only queries of tables that nothing in
  this repository writes.
* gRPC service (`service/code_battle.go`): `GetEvents` is one query; `SubmitCodeSolution`
  inserts a pending row that nothing judges. The listener of the gRPC server is not told
  of a stop.
* `GetEventsHandler` (one query) and `RegisterGuildToEventHandler`, which no route
  reaches.
* `MonitorContainers` with `checkHealth`, `ShutDown` and `executeCode` of the container
  manager, which no code calls. (`checkHealth` would lock `mu` and never unlock it.)
* `RoomDeleted`: no code sends it, and its handler is marked TODO. Rooms that are created
  by an approval: the hub does not know them, and answers 404.
* Regular expressions of the sanitizer, the text of programs, and what a program does:
  data the properties do not tell apart.
* Generated code (`store`, `protos`) beyond the statements named in the modules; helpers,
  pages, styles and scripts.

What could be added: an abstract room of joins and departures that both `RoomHub` and
`RoomFeed` implement; `RoomHub` with `JobService` in the place of its action `ExecuteJob`,
to see a lost job stop a room; `RoomHub` and `RoomFeed` joined at the loop, which the
present split abstracts in `RoomFeed`; a pool whose containers stop while it runs, once
the code notices it.
