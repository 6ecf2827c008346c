------------------------------- MODULE MCServer -------------------------------
(* Instances of Server for TLC.                                             *)
EXTENDS Server

CONSTANTS r1, r2, r3, g1, g2, a1, a2, d1, d2, d3

\* One room for the first request, none for the others; an event type the column does
\* not take.
MCForm  == [r \in Requests |-> IF r = r3 THEN "unknown" ELSE "good"]
MCRooms == [r \in Requests |-> IF r = r1 THEN 1 ELSE 0]
MCGuild == [r \in Requests |-> IF r = r1 THEN g1 ELSE g2]

Docker(running, exited) ==
  [c \in Containers |->
     IF c \in running THEN "running" ELSE IF c \in exited THEN "exited" ELSE "absent"]
OnlyPool(d) ==
  [docker |-> d, requests |-> {}, streams |-> TRUE, faults |-> 1, stops |-> 2]
Filing(rs, f, n) ==
  [docker |-> Docker({d1, d2}, {}), requests |-> rs, streams |-> FALSE, faults |-> f, stops |-> n]

\* Streams over a Docker that is empty, holds one container too many, or one that does
\* not run; and, over a pool that is there, two guilds and a statement that fails or a
\* stop, one guild and both, and one whose request is refused.
MCScenarios ==
  {OnlyPool(Docker({}, {})), OnlyPool(Docker(Containers, {})), OnlyPool(Docker({}, {d1})),
   Filing({r1, r2}, 1, 0), Filing({r1, r2}, 0, 1), Filing({r1}, 1, 1), Filing({r3}, 0, 0)}

\* Two admins meet at one request, and nothing fails.
MCOneRequest == {Filing({r1}, 0, 0)}
=============================================================================
