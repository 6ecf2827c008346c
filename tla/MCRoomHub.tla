----------------------------- MODULE MCRoomHub -----------------------------
(* Instances of RoomHub for TLC: who owns each connection and submission.   *)
EXTENDS RoomHub, TLC

CONSTANTS p1, p2, c1, c2, c3, s1, s2, s3

\* p1 has two connections (a reload or a second tab), p2 one.
MCOwner == [c \in Conns |-> IF c = c3 THEN p2 ELSE p1]

\* p1 posts two solutions, p2 one.
MCAuthor == [s \in Subs |-> IF s = s2 THEN p2 ELSE p1]

\* The labels of the enum room_player_state in sqlc/schema.sql.
SchemaStates == {"present", "disconnected", "left", "completed"}

\* A column that also takes the zero value addPlayerToRoom sends.
LenientStates == SchemaStates \cup {""}

\* The loops are interchangeable, and so are the two connections of one player.
LoopSymmetry == Permutations(Loops)
RosterSymmetry == LoopSymmetry \cup Permutations({c1, c2})

\* Once both connections of an instance are used, either one submission is posted and
\* nothing fails, or none is posted and what fails is left to MaxFaults and MaxCrashes.
SmallRoom ==
  (\A c \in Conns : conn[c] # "new") =>
    2 * Cardinality({s \in Subs : status[s] # "unsent"}) + faults + crashes <= 2
=============================================================================
