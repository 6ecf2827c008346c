------------------------------ MODULE MCFeeds -------------------------------
(* Instances of Feeds for TLC: who owns each connection, and who comes.     *)
EXTENDS Feeds

CONSTANTS p1, p2, c1, c2, s1, s2, g1

\* Both connections are of p1 (a reload or a second tab); p2 only posts.
MCOwner  == [c \in Conns |-> p1]
MCAuthor == [s \in Subs |-> p2]

\* Two tabs of one player; a tab while a solution is judged; a spectator while two are.
MCCrowds == {{c1, c2}, {c1, s1}, {s1, s2, g1}}

\* The announcements of two events overlap where one connection is there to hear them.
MCFlight == [k \in Crowds |-> IF k = {c1, s1} THEN 1 ELSE 0]

\* One spectator while one solution is judged.
PanicCrowds == {{s1, g1}}
NoFlight == [k \in Crowds |-> 0]
=============================================================================
