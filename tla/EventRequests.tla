---------------------------- MODULE EventRequests ----------------------------
(***************************************************************************)
(* How a guild's request becomes an event (handlers/events.go, with the    *)
(* queries of store/query.sql.go that it runs).                            *)
(*                                                                         *)
(* CreateEventHandler files a request.  Admins list the requests and       *)
(* process one: the handler reads its status, and only then opens the      *)
(* transaction that creates the event with its rooms, enters the guild and *)
(* stores the decision; declining is a single statement.  The database     *)
(* runs at READ COMMITTED: what a transaction writes is seen by others     *)
(* when it commits, and its update of the request holds the row until then.*)
(* step[a] names the statement the handler of admin a executes next.       *)
(***************************************************************************)
EXTENDS Naturals, Sequences, FiniteSets

CONSTANTS
  Requests,   \* requests for an event that guilds file
  Form,       \* Form[r]: good, invalid (refused) or unknown (an event type the column
              \* does not take)
  Rooms,      \* Rooms[r]: the number of rooms r asks for
  Guild,      \* Guild[r]: the guild that files r
  Admins,     \* admins, each with one request of theirs under way at a time
  PageSize,   \* requests on a page (20 in the code)
  MaxFaults,  \* bound: failing statements, and posts of an admin that are refused
  None        \* no request, no event

ASSUME RequestsAssumption ==
  /\ IsFiniteSet(Requests) /\ IsFiniteSet(Admins)
  /\ Form \in [Requests -> {"good", "invalid", "unknown"}]
  /\ Rooms \in [Requests -> Nat]
  /\ DOMAIN Guild = Requests
  /\ PageSize \in Nat \ {0}
  /\ MaxFaults \in Nat
  /\ None \notin Requests \cup Admins \cup (Requests \X Admins)

VARIABLES
  status,     \* event_requests.status, or what became of the attempt to file it
  filed,      \* the rows of event_requests in the order of created_at
  approved,   \* event_requests.approved_event_id
  events,     \* rows of events
  rooms,      \* rooms[e]: how many rows of rooms name event e
  participants, \* rows of event_guild_participants: <<event, guild>>
  step,       \* step[a]: what the handler of a does next
  target,     \* target[a]: the request a processes
  built,      \* built[a]: rooms the transaction of a has inserted
  lock,       \* lock[r]: the transaction that has updated the row of r, or None
  reply,      \* reply[a]: the last answer a got
  contested,  \* history: requests two handlers have processed at the same time
  faults      \* failures so far

tableVars == <<status, filed, approved, events, rooms, participants>>
adminVars == <<step, target, built, lock, reply>>
vars == <<tableVars, adminVars, contested, faults>>

\* An approval creates one event, and an admin approves a request at most once: an
\* event is named by the two.
Event(a)  == <<target[a], a>>
EventsOf(r) == {e \in events : e[1] = r}
Guilds == {Guild[r] : r \in Requests}

\* Steps of a handler that has read the request and may still change it.
Deciding == {"decide", "begin", "rooms", "enter", "update", "commit", "decline"}
\* read: the admin has picked a request and the handler not read it yet.
Steps == Deciding \cup {"away", "read", "approved", "declined", "failed"}

Init ==
  /\ status = [r \in Requests |-> "unfiled"]
  /\ filed = <<>>
  /\ approved = [r \in Requests |-> None]
  /\ events = {}
  /\ rooms = [e \in Requests \X Admins |-> 0]
  /\ participants = {}
  /\ step = [a \in Admins |-> "away"]
  /\ target = [a \in Admins |-> None]
  /\ built = [a \in Admins |-> 0]
  /\ lock = [r \in Requests |-> None]
  /\ reply = [a \in Admins |-> "none"]
  /\ contested = {}
  /\ faults = 0

Move(a, from, to) == step[a] = from /\ step' = [step EXCEPT ![a] = to]
Fault == faults < MaxFaults /\ faults' = faults + 1
Own == UNCHANGED <<tableVars, contested>>

(***************************************************************************)
(* CreateEventHandler.                                                     *)
(***************************************************************************)
\* The status of a new row is pending by default.
CreateEventRequest(r) ==
  /\ status' = [status EXCEPT ![r] = "pending"]
  /\ filed' = Append(filed, r)

\* The event type is not validated; the database refuses one it does not know.
File(r) ==
  /\ status[r] = "unfiled"
  /\ CASE Form[r] = "good"    -> CreateEventRequest(r)
       [] Form[r] = "invalid" -> status' = [status EXCEPT ![r] = "400"] /\ UNCHANGED filed
       [] Form[r] = "unknown" -> status' = [status EXCEPT ![r] = "500"] /\ UNCHANGED filed
  /\ UNCHANGED <<approved, events, rooms, participants, adminVars, contested, faults>>

\* The insert fails, with or without its effect.
FileFails(r) ==
  /\ Fault
  /\ status[r] = "unfiled"
  /\ Form[r] = "good"
  /\ \/ CreateEventRequest(r)
     \/ status' = [status EXCEPT ![r] = "500"] /\ UNCHANGED filed
  /\ UNCHANGED <<approved, events, rooms, participants, adminVars, contested>>

(***************************************************************************)
(* The pages that are read: requests, newest first, and rooms of an event. *)
(***************************************************************************)
Rows == {filed[i] : i \in 1..Len(filed)}

FiledAfter(q, r) ==
  \E i, k \in 1..Len(filed) : i < k /\ filed[i] = r /\ filed[k] = q

\* ORDER BY created_at DESC LIMIT PageSize
Page(rows) ==
  {r \in rows : Cardinality({q \in rows : FiledAfter(q, r)}) < PageSize}

ListEventRequests == Page(Rows)

\* Mutant: the condition on the status is left out.
ListEventRequestsOfAnyStatus(st) == Page(Rows)

ListEventRequestsByStatus(st) == Page({r \in Rows : status[r] = st})

ListEventRequestsByGuild(g) == Page({r \in Rows : Guild[r] = g})

toEventRequestResponse(r) == [id |-> r, status |-> status[r], event |-> approved[r]]

\* "" stands for a page that is not filtered.
GetEventRequests(st) ==
  LET rows == IF st = "" THEN ListEventRequests ELSE ListEventRequestsByStatus(st)
  IN  {toEventRequestResponse(r) : r \in rows}

GetMyEventRequests(g) ==
  {toEventRequestResponse(r) : r \in ListEventRequestsByGuild(g)}

\* The length of the list; an event that does not exist has no rooms.
GetEventRooms(e) == IF e \in events THEN rooms[e] ELSE 0

\* admin-requests.html offers to process what is pending on the page it shows; an admin
\* who finds nothing there changes the filter.
Look(a) ==
  /\ Move(a, "away", "read")
  /\ \E filter \in {"", "pending"} : \E x \in GetEventRequests(filter) :
       x.status = "pending" /\ target' = [target EXCEPT ![a] = x.id]
  /\ reply' = [reply EXCEPT ![a] = "none"]
  /\ Own /\ UNCHANGED <<built, lock, faults>>

(***************************************************************************)
(* ProcessEventRequestHandler.  A handler that returns has rolled its      *)
(* transaction back, unless it committed.                                  *)
(***************************************************************************)
Answer(a, from, code) ==
  /\ Move(a, from, "away")
  /\ reply' = [reply EXCEPT ![a] = code]
  /\ built' = [built EXCEPT ![a] = 0]
  /\ lock' = [r \in Requests |-> IF lock[r] = a THEN None ELSE lock[r]]
  /\ Own /\ UNCHANGED target

Rivals(a) == {b \in Admins \ {a} : step[b] \in Deciding /\ target[b] = target[a]}

\* Mutant: the status is not looked at.
ReadAny(a) ==
  /\ Move(a, "read", "decide")
  /\ contested' = IF Rivals(a) = {} THEN contested ELSE contested \cup {target[a]}
  /\ UNCHANGED <<tableVars, target, built, lock, reply, faults>>

Read(a) ==
  /\ Move(a, "read", "decide")
  /\ status[target[a]] = "pending"
  /\ contested' = IF Rivals(a) = {} THEN contested ELSE contested \cup {target[a]}
  /\ UNCHANGED <<tableVars, target, built, lock, reply, faults>>

\* "request has already been processed with status"
ReadProcessed(a) ==
  /\ Answer(a, "read", "400")
  /\ status[target[a]] # "pending"
  /\ UNCHANGED faults

ReadFails(a) == Fault /\ Answer(a, "read", "500")

Choose(a) ==
  /\ Move(a, "decide", "begin") \/ Move(a, "decide", "decline")
  /\ Own /\ UNCHANGED <<target, built, lock, reply, faults>>

\* A decline without a reason, or an action that is neither.
ChooseBadly(a) == Fault /\ Answer(a, "decide", "400")

(***************************************************************************)
(* UpdateEventRequestStatus has no condition on the status that was read.  *)
(***************************************************************************)
\* Mutant: approved_event_id is kept when there is no new event.
UpdateKeepingEvent(r, st, e) ==
  /\ status' = [status EXCEPT ![r] = st]
  /\ approved' = IF e = None THEN approved ELSE [approved EXCEPT ![r] = e]

UpdateEventRequestStatus(r, st, e) ==
  /\ status' = [status EXCEPT ![r] = st]
  /\ approved' = [approved EXCEPT ![r] = e]

(***************************************************************************)
(* approveEventRequest.                                                    *)
(***************************************************************************)
\* What the statements of the transaction add to the tables.
EventRow(a)       == events' = events \cup {Event(a)}
RoomRows(a)       == rooms' = [rooms EXCEPT ![Event(a)] = built[a]]
ParticipantRow(a) == participants' = participants \cup {<<Event(a), Guild[target[a]]>>}

\* Mutant: the event is created outside the transaction.
CreateEventOutside(a) ==
  /\ Move(a, "begin", "rooms")
  /\ EventRow(a)
  /\ UNCHANGED <<status, filed, approved, rooms, participants, target, built, lock, reply,
                 contested, faults>>

CreateEvent(a) ==
  /\ Move(a, "begin", "rooms")
  /\ Own /\ UNCHANGED <<target, built, lock, reply, faults>>

CreateRoom(a) ==
  /\ step[a] = "rooms"
  /\ \/ built[a] < Rooms[target[a]] /\ built' = [built EXCEPT ![a] = @ + 1] /\ UNCHANGED step
     \/ built[a] = Rooms[target[a]] /\ Move(a, "rooms", "enter") /\ UNCHANGED built
  /\ Own /\ UNCHANGED <<target, lock, reply, faults>>

EnterGuild(a) ==
  /\ Move(a, "enter", "update")
  /\ Own /\ UNCHANGED <<target, built, lock, reply, faults>>

\* The update waits for the row.
UpdateRequest(a) ==
  /\ Move(a, "update", "commit")
  /\ lock[target[a]] = None
  /\ lock' = [lock EXCEPT ![target[a]] = a]
  /\ Own /\ UNCHANGED <<target, built, reply, faults>>

Committed(a) ==
  /\ EventRow(a) /\ RoomRows(a) /\ ParticipantRow(a)
  /\ UpdateEventRequestStatus(target[a], "approved", Event(a))
  /\ UNCHANGED filed

Commit(a) ==
  /\ Move(a, "commit", "approved")
  /\ Committed(a)
  /\ built' = [built EXCEPT ![a] = 0]
  /\ lock' = [lock EXCEPT ![target[a]] = None]
  /\ UNCHANGED <<target, reply, contested, faults>>

\* Mutant: the error of the commit is not returned.
CommitFailsUnseen(a) ==
  /\ Fault
  /\ Move(a, "commit", "approved")
  /\ built' = [built EXCEPT ![a] = 0]
  /\ lock' = [lock EXCEPT ![target[a]] = None]
  /\ Committed(a) \/ UNCHANGED tableVars
  /\ UNCHANGED <<target, reply, contested>>

\* The transaction is rolled back; or it is committed and the answer is lost.
CommitFails(a) ==
  /\ Fault
  /\ Move(a, "commit", "failed")
  /\ built' = [built EXCEPT ![a] = 0]
  /\ lock' = [lock EXCEPT ![target[a]] = None]
  /\ Committed(a) \/ UNCHANGED tableVars
  /\ UNCHANGED <<target, reply, contested>>

\* A statement fails, or the client of a is gone and the context of its request done.
StatementFails(a) ==
  /\ \E st \in {"begin", "rooms", "enter", "update"} : Answer(a, st, "500")
  /\ Fault

(***************************************************************************)
(* declineEventRequest, a statement that commits by itself.                *)
(***************************************************************************)
Declined(a) ==
  /\ UpdateEventRequestStatus(target[a], "rejected", None)
  /\ UNCHANGED <<filed, events, rooms, participants>>

Decline(a) ==
  /\ Move(a, "decline", "declined")
  /\ lock[target[a]] = None
  /\ Declined(a)
  /\ UNCHANGED <<target, built, lock, reply, contested, faults>>

DeclineFails(a) ==
  /\ Fault
  /\ Move(a, "decline", "failed")
  /\ \/ lock[target[a]] = None /\ Declined(a)
     \/ UNCHANGED tableVars
  /\ UNCHANGED <<target, built, lock, reply, contested>>

Reply(a) ==
  /\ \/ Answer(a, "approved", "approved")
     \/ Answer(a, "declined", "declined")
     \/ Answer(a, "failed", "500")
  /\ UNCHANGED faults

\* The handlers die with the server, their transactions with their connections.  What
\* was committed stays, answered or not, and so does what an admin has picked.
Abort ==
  /\ step' = [a \in Admins |-> IF step[a] = "read" THEN "read" ELSE "away"]
  /\ built' = [a \in Admins |-> 0]
  /\ lock' = [r \in Requests |-> None]
  /\ UNCHANGED <<tableVars, target, reply, contested, faults>>

----------------------------------------------------------------------------
\* A request that reaches the server, and the rest of its handler.
Receive(a) == Read(a) \/ ReadProcessed(a) \/ ReadFails(a)

Processing(a) ==
  \/ Choose(a) \/ ChooseBadly(a)
  \/ CreateEvent(a) \/ CreateRoom(a) \/ EnterGuild(a) \/ UpdateRequest(a)
  \/ Commit(a) \/ CommitFails(a) \/ StatementFails(a)
  \/ Decline(a) \/ DeclineFails(a)
  \/ Reply(a)

\* Handlers that run.
Open == {a \in Admins : step[a] \notin {"away", "read"}}

----------------------------------------------------------------------------
(* Properties. *)

TypeOK ==
  /\ status \in [Requests -> {"unfiled", "400", "500", "pending", "approved", "rejected"}]
  /\ filed \in Seq(Requests)
  /\ approved \in [Requests -> (Requests \X Admins) \cup {None}]
  /\ events \subseteq Requests \X Admins
  /\ rooms \in [Requests \X Admins -> Nat]
  /\ participants \subseteq (Requests \X Admins) \X Guilds
  /\ step \in [Admins -> Steps]
  /\ target \in [Admins -> Requests \cup {None}]
  /\ built \in [Admins -> Nat]
  /\ lock \in [Requests -> Admins \cup {None}]
  /\ reply \in [Admins -> {"none", "approved", "declined", "400", "500"}]
  /\ contested \subseteq Requests
  /\ faults \in 0..MaxFaults

\* events.go:442-503: an event that can be seen has all the rooms its request asks for
\* and its guild, whatever failed and whenever the server went down.
EventsComplete ==
  \A e \in events : /\ GetEventRooms(e) = Rooms[e[1]]
                    /\ <<e, Guild[e[1]]>> \in participants

\* events.go:398: the status is read outside the transaction.  A request that two
\* handlers never processed at once has one outcome: approved, with the one event that
\* was made of it, or no event at all, also when a commit reported an error.
OneOutcome ==
  \A r \in Requests \ contested :
    EventsOf(r) = IF status[r] = "approved" THEN {approved[r]} ELSE {}

\* events.go:492-512: also of a request that was decided twice, its guild is shown an
\* event exactly if it is shown as approved, and it is an event that the guild takes
\* part in and whose page has the rooms it asked for.
GuildSeesItsEvent ==
  \A g \in Guilds : \A x \in GetMyEventRequests(g) :
    /\ x.status = "approved" <=> x.event # None
    /\ x.event # None => /\ GetEventRooms(x.event) = Rooms[x.id]
                         /\ <<x.event, g>> \in participants

\* events.go:417-429: an admin who is told that a request is approved finds its event,
\* and one who is told that it is declined finds it rejected unless another admin
\* processed it as well.
AnswersHold ==
  \A a \in Admins :
    /\ reply[a] = "approved" => Event(a) \in events
    /\ reply[a] = "declined" => status[target[a]] = "rejected" \/ target[a] \in contested

\* What can be seen of an event, on its pages and in its entries of guilds.
Shown(e) ==
  [event |-> e, rooms |-> GetEventRooms(e),
   guilds |-> {g \in Guilds : <<e, g>> \in participants}]

Ledger == INSTANCE RequestLedger WITH published <- {Shown(e) : e \in events}

\* events.go:442-503 and 398: through the tables, the handlers with their statements,
\* transactions, failures and deaths are a ledger: an approval appears with the whole
\* event or not at all, and only a request that two handlers processed at once is
\* decided again.
DecidedAtOnce == Ledger!Spec

\* events.go:398-400: "request has already been processed with status": a request that was
\* approved or declined is not processed again.
DecidedOnce ==
  [][\A r \in Requests : status[r] \in {"approved", "rejected"} =>
       status'[r] = status[r] /\ approved'[r] = approved[r]]_vars

\* events.go:333-338: admins who keep processing what the page of the pending requests
\* shows reach every request, also those that newer ones push off the page.
EveryRequestDecided ==
  \A r \in Requests : status[r] = "pending" ~> status[r] \in {"approved", "rejected"}
=============================================================================
