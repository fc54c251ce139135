-------------------------- MODULE MCNodeLifecycle --------------------------
(* TLC instances of NodeLifecycle.                                         *)
EXTENDS NodeLifecycle, TLC

CONSTANTS n1, n2, n3, a1, a2

\* No node has a parent.
Flat == [n \in Nodes |-> n]

\* n1 is the parent of n2, n2 the parent of n3.
Chain == [n \in Nodes |-> CASE n = n2 -> n1 [] n = n3 -> n2 [] OTHER -> n]

AgentSymmetry == Permutations(Agents)
=============================================================================
