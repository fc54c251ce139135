------------------------------ MODULE MCMerge ------------------------------
(* TLC instances of Merge.                                                 *)
EXTENDS Merge

\* Node 2 waits for node 1; their work, and a human's, clashes with node 2's.
SecondWaits == [n \in Nodes |-> IF n = 2 THEN {1} ELSE {}]
SecondClashes == {{Work(1), Work(2)}, {Human, Work(2)}}
NoDeps == [n \in Nodes |-> {}]
=============================================================================
