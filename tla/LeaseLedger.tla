---------------------------- MODULE LeaseLedger ----------------------------
(***************************************************************************)
(* What the node table promises about work, without the verbs: each item   *)
(* is free, held by one agent, parked with the agent that last held it,    *)
(* done, or failed for good.  Work goes to another agent only by way of    *)
(* `free` or by an explicit transfer; only held work finishes; a failed    *)
(* item never moves again.                                                 *)
(***************************************************************************)
CONSTANTS Items, Agents, Nobody

VARIABLES stage, holder

Stages == {"free", "held", "parked", "done", "failed"}

TypeOK ==
    /\ stage \in [Items -> Stages]
    /\ holder \in [Items -> Agents \cup {Nobody}]

Move(i, s, h) ==
    /\ stage'  = [stage  EXCEPT ![i] = s]
    /\ holder' = [holder EXCEPT ![i] = h]

Claim(i, a)    == stage[i] = "free" /\ Move(i, "held", a)
Park(i)        == stage[i] \in {"held", "done"} /\ Move(i, "parked", holder[i])
Resume(i)      == stage[i] = "parked" /\ Move(i, "held", holder[i])
Transfer(i, a) == stage[i] \in {"held", "parked"} /\ Move(i, "held", a)
Finish(i)      == stage[i] = "held" /\ Move(i, "done", holder[i])
Abandon(i)     == stage[i] \in {"held", "parked"} /\ Move(i, "failed", Nobody)

\* One or several items are given back at once, as a sweep does.
GiveBack(S) ==
    /\ \A i \in S : stage[i] \in {"held", "parked"}
    /\ stage'  = [i \in Items |-> IF i \in S THEN "free" ELSE stage[i]]
    /\ holder' = [i \in Items |-> IF i \in S THEN Nobody ELSE holder[i]]

Init ==
    /\ stage  = [i \in Items |-> "free"]
    /\ holder = [i \in Items |-> Nobody]

Next ==
    \/ \E i \in Items : Park(i) \/ Resume(i) \/ Finish(i) \/ Abandon(i)
    \/ \E i \in Items, a \in Agents : Claim(i, a) \/ Transfer(i, a)
    \/ \E S \in SUBSET Items : GiveBack(S)

Spec == Init /\ [][Next]_<<stage, holder>>
=============================================================================
