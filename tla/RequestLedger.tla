---------------------------- MODULE RequestLedger ----------------------------
(***************************************************************************)
(* What the handlers of event requests promise to guilds and admins: an    *)
(* approval and its event, with all its rooms and its guild, appear in one *)
(* step or not at all, and a request is decided once, unless two admins    *)
(* have processed it at the same time.                                     *)
(***************************************************************************)
CONSTANTS
  Requests,   \* requests for an event that guilds file
  Admins,     \* admins
  Rooms,      \* Rooms[r]: the number of rooms r asks for
  Guild,      \* Guild[r]: the guild that files r
  None        \* no event

VARIABLES
  status,     \* status[r]: what r's guild is told of it
  approved,   \* approved[r]: the event r's guild is shown
  published,  \* the events that can be seen, each with its rooms and its guilds
  contested   \* the requests that two admins have processed at the same time

vars == <<status, approved, published, contested>>

\* The event that admin a makes of request r.
Whole(r, a) == [event |-> <<r, a>>, rooms |-> Rooms[r], guilds |-> {Guild[r]}]

Init ==
  /\ status = [r \in Requests |-> "unfiled"]
  /\ approved = [r \in Requests |-> None]
  /\ published = {}
  /\ contested = {}

File(r) ==
  /\ status[r] = "unfiled"
  /\ \E st \in {"pending", "400", "500"} : status' = [status EXCEPT ![r] = st]
  /\ UNCHANGED <<approved, published, contested>>

Contest(r) ==
  /\ status[r] = "pending"
  /\ contested' = contested \cup {r}
  /\ UNCHANGED <<status, approved, published>>

Undecided(r) == status[r] = "pending" \/ r \in contested

Approve(r, a) ==
  /\ Undecided(r)
  /\ status' = [status EXCEPT ![r] = "approved"]
  /\ approved' = [approved EXCEPT ![r] = <<r, a>>]
  /\ published' = published \cup {Whole(r, a)}
  /\ UNCHANGED contested

Decline(r) ==
  /\ Undecided(r)
  /\ status' = [status EXCEPT ![r] = "rejected"]
  /\ approved' = [approved EXCEPT ![r] = None]
  /\ UNCHANGED <<published, contested>>

Next ==
  \E r \in Requests :
    \/ File(r) \/ Contest(r) \/ Decline(r)
    \/ \E a \in Admins : Approve(r, a)

Spec == Init /\ [][Next]_vars
=============================================================================
