----------------------------- MODULE MCRunner ------------------------------
(* TLC instances of Runner.                                                *)
EXTENDS Runner

CONSTANTS d1, d2, h

\* No node has a parent.
Flat == [n \in Nodes |-> n]

\* d1 waits out its limits and escalates to d2; d2 pauses.
LimitPolicy == [d \in Drivers |-> IF d = d1 THEN "wait" ELSE "pause"]
TimeoutPolicy == [d \in Drivers |-> IF d = d1 THEN d2 ELSE "pause"]
\* d1 falls back on d2, which waits out its limits and pauses.
FallbackPolicy == [d \in Drivers |-> IF d = d1 THEN d2 ELSE "wait"]
PauseInTheEnd == [d \in Drivers |-> "pause"]
TwoAtATime == [d \in Drivers |-> 2]
ToFirst == [n \in Nodes |-> d1]
NoBudget == [d \in Drivers |-> 0]
FirstHasBudget == [d \in Drivers |-> IF d = d1 THEN 2 ELSE 0]

\* Hand-driven agents, and another run of d1.
Rivals == [n \in Nodes |-> {h, d1}]
Nobody == [n \in Nodes |-> {}]
NoDeps == [n \in Nodes |-> {}]
=============================================================================
