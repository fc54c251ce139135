------------------------------- MODULE Merge --------------------------------
(***************************************************************************)
(* Worktrees and merging: core/strict.py and core/merge.py.                *)
(*                                                                         *)
(* A history is the set of commits it contains, so that `is an ancestor    *)
(* of` is inclusion: the work of a node, the merge commit of a node, what  *)
(* a human committed, and what the checkout held at first.                 *)
(*                                                                         *)
(* By the mode of its first start a node is strict (its worktree belongs   *)
(* to the airlock, a bare repository whose `main` muvue advances) or light *)
(* (its worktree belongs to the user's repository and is merged there).    *)
(* A process runs one `start` or one `attempt_merge` at a time; every git  *)
(* command and every transaction is a step, and the process may die        *)
(* between two of them.                                                    *)
(***************************************************************************)
EXTENDS Integers, FiniteSets

CONSTANTS
    Nodes,        \* tasks whose work ends in a merge
    Processes,    \* runner, CLI or API processes
    DependsOn,    \* deps
    Clash,        \* pairs of commits git cannot merge by itself
    NoNode,       \* what an idle process works on
    MaxConflicts, \* bound on the conflicts of a node
    MaxCrashes    \* bound on the number of crashes

ASSUME DepsAssumption   == DependsOn \in [Nodes -> SUBSET Nodes]
ASSUME MergeBounds      == MaxConflicts \in Nat /\ MaxCrashes \in Nat

VARIABLES
    status,     \* nodes.status, as far as merging tells them apart
    bound,      \* the nodes whose worktree column is set
    disk,       \* the nodes whose worktree directory exists
    strict,     \* those whose worktree belongs to the airlock
    branch,     \* the branch node-<id>; {} when there is none
    main,       \* refs/heads/main of the airlock; {} before the first sync
    upstream,   \* refs/muvue/upstream of the airlock
    checkout,   \* HEAD of the user's checkout
    dirty,      \* the checkout has uncommitted changes
    mergeTree,  \* HEAD of the shared worktree _merge_main
    completed,  \* the nodes with a merge.completed event
    conflicts,  \* merge.conflict events, each with its rebase subtask
    proc,       \* what each process is doing
    crashes,    \* how often a process died
    taken       \* history: what the last clean merge of a node merged

gitVars  == <<branch, main, upstream, checkout, dirty, mergeTree, disk, strict>>
rowVars  == <<status, bound, completed, conflicts>>
mVars    == <<gitVars, rowVars, proc, crashes, taken>>

Work(n)    == <<"work", n>>
MergeOf(n) == <<"merge", n>>
Human      == <<"human", NoNode>>
Seed       == <<"seed", NoNode>>
Commits == {Work(n) : n \in Nodes} \cup {MergeOf(n) : n \in Nodes} \cup {Human, Seed}

\* What a process that runs nothing is doing.
Idle == [at |-> "idle", node |-> NoNode, tip |-> {}]

\* Where a node's branch is cut from, and where it is merged.
Base(n) == IF n \in strict THEN main ELSE checkout

-----------------------------------------------------------------------------
(* `start` binds a worktree before its transaction.                        *)

At(p, step) == proc[p].at = step
Node(p) == proc[p].node

Goes(p, step) == proc' = [proc EXCEPT ![p].at = step]
Returns(p) == proc' = [proc EXCEPT ![p] = Idle]

\* A bound node keeps its worktree; for another, bind_worktree syncs the
\* airlock first and bind_light_worktree branches off the checkout.
StartCalled(p, n) ==
    /\ At(p, "idle")
    /\ status[n] = "ready"
    /\ \E step \in IF n \in bound THEN {"starting"} ELSE {"fetch", "add light"} :
           proc' = [proc EXCEPT ![p] = [at |-> step, node |-> n, tip |-> {}]]
    /\ UNCHANGED <<gitVars, rowVars, crashes, taken>>

FetchesUpstream(p) ==
    /\ At(p, "fetch")
    /\ upstream' = checkout
    /\ Goes(p, "compare")
    /\ UNCHANGED <<branch, main, checkout, dirty, mergeTree, disk, strict, rowVars,
                   crashes, taken>>

\* Mutant of FastForwards: `main` follows the checkout, wherever it is.
FollowsAnyway(from, to) == from # to

\* _advance_main_to_upstream moves `main` only forward.
FastForwards(from, to) == from # to /\ from \subseteq to

ComparesMain(p) ==
    /\ At(p, "compare")
    /\ proc' = [proc EXCEPT ![p].at  = IF FastForwards(main, upstream)
                                       THEN "forward" ELSE "add",
                            ![p].tip = upstream]
    /\ UNCHANGED <<gitVars, rowVars, crashes, taken>>

\* update-ref names no old value: `main` may have moved since it was read.
ForwardsMain(p) ==
    /\ At(p, "forward")
    /\ main' = proc[p].tip
    /\ Goes(p, "add")
    /\ UNCHANGED <<branch, upstream, checkout, dirty, mergeTree, disk, strict, rowVars,
                   crashes, taken>>

Adding(p) == At(p, "add") \/ At(p, "add light")

AddsWorktree(p) ==
    LET n == Node(p) IN
    /\ Adding(p)
    /\ n \notin disk
    /\ branch[n] = {}
    /\ disk' = disk \cup {n}
    /\ strict' = IF At(p, "add") THEN strict \cup {n} ELSE strict \ {n}
    /\ branch' = [branch EXCEPT ![n] = IF At(p, "add") THEN main ELSE checkout]
    /\ Goes(p, "setup")
    /\ UNCHANGED <<main, upstream, checkout, dirty, mergeTree, rowVars, crashes,
                   taken>>

\* The path or the branch is there already.
CannotAdd(p) ==
    /\ Adding(p)
    /\ Node(p) \in disk \/ branch[Node(p)] # {}
    /\ Returns(p)
    /\ UNCHANGED <<gitVars, rowVars, crashes, taken>>

\* worktree_setup fails: worktree and branch are torn down.
SetupFails(p) ==
    /\ At(p, "setup")
    /\ disk' = disk \ {Node(p)}
    /\ branch' = [branch EXCEPT ![Node(p)] = {}]
    /\ Returns(p)
    /\ UNCHANGED <<main, upstream, checkout, dirty, mergeTree, strict, rowVars, crashes,
                   taken>>

SetUp(p) ==
    /\ At(p, "setup")
    /\ Goes(p, "starting")
    /\ UNCHANGED <<gitVars, rowVars, crashes, taken>>

\* The transaction of `start`, refused when the node is no longer ready; a
\* worktree just made is then left behind.
Starts(p) ==
    /\ At(p, "starting")
    /\ Returns(p)
    /\ IF status[Node(p)] = "ready"
       THEN /\ status' = [status EXCEPT ![Node(p)] = "in_progress"]
            /\ bound' = bound \cup {Node(p)}
       ELSE UNCHANGED <<status, bound>>
    /\ UNCHANGED <<gitVars, completed, conflicts, crashes, taken>>

-----------------------------------------------------------------------------
(* attempt_merge, as merge_pending and the merge verbs call it.            *)

\* Mutant of PendingDeps: a dependency that never had a worktree is waited for.
PendingWithoutWorktree(n) == {d \in DependsOn[n] : d \notin completed}

\* Mutant of PendingDeps: only finished dependencies are waited for.
PendingOnlyDone(n) == {d \in DependsOn[n] : d \in bound /\ status[d] = "done" /\ d \notin completed}

\* _dependencies_pending.
PendingDeps(n) == {d \in DependsOn[n] : d \in bound /\ d \notin completed}

Mergeable(n) ==
    /\ n \in bound
    /\ status[n] = "done"
    /\ n \notin completed
    /\ PendingDeps(n) = {}

MergeCalled(p, n) ==
    /\ At(p, "idle")
    /\ Mergeable(n)
    /\ n \notin strict => ~dirty
    /\ proc' = [proc EXCEPT ![p] =
           [at |-> IF n \in strict THEN "reset" ELSE "merge",
            node |-> n, tip |-> {}]]
    /\ UNCHANGED <<gitVars, rowVars, crashes, taken>>

\* Mutant of ResetsTree: _merge_main is taken as the last merge left it.
KeepsTree(p) ==
    /\ At(p, "reset")
    /\ Goes(p, "merge")
    /\ UNCHANGED <<gitVars, rowVars, crashes, taken>>

\* _merge_worktree: the shared worktree is put on `main`.
ResetsTree(p) ==
    /\ At(p, "reset")
    /\ mergeTree' = main
    /\ Goes(p, "merge")
    /\ UNCHANGED <<branch, main, upstream, checkout, dirty, disk, strict, rowVars,
                   crashes, taken>>

\* What the merge is made into.
Into(n) == IF n \in strict THEN mergeTree ELSE checkout

Conflicting(n) ==
    \E x \in branch[n] \ Into(n), y \in Into(n) \ branch[n] : {x, y} \in Clash

\* `git merge --no-ff`: nothing to do when all is there already.
Merged(n) == IF branch[n] \subseteq Into(n) THEN Into(n)
                                            ELSE Into(n) \cup branch[n] \cup {MergeOf(n)}

MergesCleanly(p) ==
    LET n == Node(p) IN
    /\ At(p, "merge")
    /\ ~Conflicting(n)
    /\ IF n \in strict
       THEN mergeTree' = Merged(n) /\ UNCHANGED checkout
       ELSE checkout' = Merged(n) /\ UNCHANGED mergeTree
    /\ taken' = [taken EXCEPT ![n] = branch[n]]
    /\ Goes(p, IF n \in strict THEN "read" ELSE "record")
    /\ UNCHANGED <<branch, main, upstream, dirty, disk, strict, rowVars, crashes>>

\* rev-parse HEAD in the shared worktree.
ReadsHead(p) ==
    /\ At(p, "read")
    /\ proc' = [proc EXCEPT ![p].at = "advance", ![p].tip = mergeTree]
    /\ UNCHANGED <<gitVars, rowVars, crashes, taken>>

AdvancesMain(p) ==
    /\ At(p, "advance")
    /\ main' = proc[p].tip
    /\ Goes(p, "record")
    /\ UNCHANGED <<branch, upstream, checkout, dirty, mergeTree, disk, strict, rowVars,
                   crashes, taken>>

\* merge.completed.
RecordsMerge(p) ==
    /\ At(p, "record")
    /\ completed' = completed \cup {Node(p)}
    /\ Returns(p)
    /\ UNCHANGED <<gitVars, status, bound, conflicts, crashes, taken>>

\* git stops, at a conflict or, in the checkout, at changes made since it was
\* found clean; both count as a conflict.
MergeStops(p) ==
    LET n == Node(p) IN
    /\ At(p, "merge")
    /\ Conflicting(n) \/ (n \notin strict /\ dirty)
    /\ dirty' = IF n \in strict THEN dirty ELSE TRUE
    /\ Goes(p, "abort")
    /\ UNCHANGED <<branch, main, upstream, checkout, mergeTree, disk, strict, rowVars,
                   crashes, taken>>

\* merge --abort.
AbortsMerge(p) ==
    /\ At(p, "abort")
    /\ dirty' = IF Node(p) \in strict THEN dirty ELSE FALSE
    /\ Goes(p, "conflict")
    /\ UNCHANGED <<branch, main, upstream, checkout, mergeTree, disk, strict, rowVars,
                   crashes, taken>>

\* _handle_conflict: the block, the attempt and the subtask, in a transaction
\* the table refuses if the node is no longer done.
RecordsConflict(p) ==
    LET n == Node(p) IN
    /\ At(p, "conflict")
    /\ Returns(p)
    /\ IF status[n] = "done"
       THEN /\ status' = [status EXCEPT ![n] = "blocked"]
            /\ conflicts' = [conflicts EXCEPT ![n] = @ + 1]
       ELSE UNCHANGED <<status, conflicts>>
    /\ UNCHANGED <<gitVars, bound, completed, crashes, taken>>

\* A process dies between two of its steps.
Dies(p) ==
    /\ ~At(p, "idle")
    /\ crashes < MaxCrashes
    /\ crashes' = crashes + 1
    /\ Returns(p)
    /\ UNCHANGED <<gitVars, rowVars, taken>>

-----------------------------------------------------------------------------
(* The Agents tab.                                                         *)

\* Mutant of Stage: the checkout is the base of every worktree.
StageOfCheckout(n) ==
    IF /\ branch[n] \subseteq checkout
       /\ ~(checkout \subseteq branch[n]) \/ status[n] = "done"
    THEN "merged" ELSE IF branch[n] \subseteq checkout THEN "worktree" ELSE "commits"

\* worktree_stage: ahead and behind are counted against the base.
Stage(n) ==
    LET ahead == branch[n] \ Base(n)
        behind == Base(n) \ branch[n]
    IN IF ahead = {} /\ (behind # {} \/ status[n] = "done") THEN "merged"
       ELSE IF ahead = {} THEN "worktree" ELSE "commits"

-----------------------------------------------------------------------------
(* Agents and humans.                                                      *)

\* _hook.evaluate_ref_update and the edit hook let a branch move only while
\* its node is being worked on.
AgentCommits(n) ==
    /\ n \in bound \cap disk
    /\ status[n] = "in_progress"
    /\ branch' = [branch EXCEPT ![n] = @ \cup {Work(n)}]
    /\ UNCHANGED <<main, upstream, checkout, dirty, mergeTree, disk, strict, rowVars,
                   proc, crashes, taken>>

\* The work of the rebase subtask.
AgentRebases(n) ==
    /\ n \in bound \cap disk
    /\ conflicts[n] > 0
    /\ status[n] \in {"in_progress", "blocked"}
    /\ branch' = [branch EXCEPT ![n] = Base(n) \cup {Work(n)}]
    /\ UNCHANGED <<main, upstream, checkout, dirty, mergeTree, disk, strict, rowVars,
                   proc, crashes, taken>>

AgentFinishes(n) ==
    /\ status[n] = "in_progress"
    /\ status' = [status EXCEPT ![n] = "done"]
    /\ UNCHANGED <<gitVars, bound, completed, conflicts, proc, crashes, taken>>

\* Its lease lapses, or it fails: a later start finds the worktree bound.
AgentLosesIt(n) ==
    /\ status[n] = "in_progress"
    /\ status' = [status EXCEPT ![n] = "ready"]
    /\ UNCHANGED <<gitVars, bound, completed, conflicts, proc, crashes, taken>>

\* Hand-off is the way out of a conflict.
HandsOff(n) ==
    /\ status[n] = "blocked"
    /\ conflicts[n] < MaxConflicts
    /\ status' = [status EXCEPT ![n] = "in_progress"]
    /\ UNCHANGED <<gitVars, bound, completed, conflicts, proc, crashes, taken>>

\* The checkout moves: a commit of its own, or the airlock's `main` pulled.
HumanCommits ==
    /\ \/ checkout' = checkout \cup {Human}
       \/ checkout' = checkout \cup main
    /\ UNCHANGED <<branch, main, upstream, dirty, mergeTree, disk, strict, rowVars, proc,
                   crashes, taken>>

\* Only the merge of a light node looks.
HumanEdits ==
    /\ bound \ strict # {}
    /\ dirty' = ~dirty
    /\ UNCHANGED <<branch, main, upstream, checkout, mergeTree, disk, strict, rowVars,
                   proc, crashes, taken>>

\* A worktree that no row names, which `doctor` lists, is removed by hand.
OrphanRemoved(n) ==
    /\ n \in disk \ bound
    /\ \A p \in Processes : At(p, "idle")
    /\ disk' = disk \ {n}
    /\ branch' = [branch EXCEPT ![n] = {}]
    /\ UNCHANGED <<main, upstream, checkout, dirty, mergeTree, strict, rowVars, proc,
                   crashes, taken>>

-----------------------------------------------------------------------------
MInit ==
    /\ status = [n \in Nodes |-> "ready"]
    /\ bound = {} /\ disk = {} /\ strict = {} /\ completed = {}
    /\ branch = [n \in Nodes |-> {}]
    /\ main = {} /\ upstream = {} /\ mergeTree = {}
    /\ checkout = {Seed}
    /\ dirty = FALSE
    /\ conflicts = [n \in Nodes |-> 0]
    /\ proc = [p \in Processes |-> Idle]
    /\ crashes = 0
    /\ taken = [n \in Nodes |-> {}]

\* What a process does by itself once it has been called.
Continues(p) ==
    \/ FetchesUpstream(p) \/ ComparesMain(p) \/ ForwardsMain(p)
    \/ AddsWorktree(p) \/ CannotAdd(p) \/ SetupFails(p) \/ SetUp(p)
    \/ Starts(p)
    \/ ResetsTree(p) \/ MergesCleanly(p) \/ ReadsHead(p) \/ AdvancesMain(p)
    \/ RecordsMerge(p) \/ MergeStops(p) \/ AbortsMerge(p) \/ RecordsConflict(p)

Outside ==
    \/ \E n \in Nodes : \/ AgentCommits(n) \/ AgentRebases(n) \/ AgentFinishes(n)
                        \/ AgentLosesIt(n) \/ HandsOff(n)
                        \/ OrphanRemoved(n)
    \/ HumanCommits \/ HumanEdits

MNext ==
    \/ \E p \in Processes : \/ Continues(p) \/ Dies(p)
                            \/ \E n \in Nodes : StartCalled(p, n) \/ MergeCalled(p, n)
    \/ Outside

\* A process that was called goes on.  merge_pending tries every candidate in
\* each of its passes, and is called again and again by the run, so a node it
\* can merge is not passed over for ever.
MFairness ==
    \A p \in Processes :
        /\ WF_mVars(Continues(p))
        /\ \A n \in Nodes : SF_mVars(MergeCalled(p, n))

MSpec == MInit /\ [][MNext]_mVars /\ MFairness

-----------------------------------------------------------------------------
(* Properties.                                                             *)

\* What a recorded merge has merged is, and stays, in the history it was merged
\* into, whatever is started, merged or pulled afterwards and wherever a
\* process died.
MergedIsKept ==
    \A n \in completed :
        taken[n] # {} /\ taken[n] \subseteq (IF n \in strict THEN main ELSE checkout)

\* A merge is recorded only after the merges of the dependencies that have a
\* worktree.
DependencyOrder ==
    [][\A n \in completed' \ completed :
          DependsOn[n] \cap bound \subseteq completed]_mVars

\* The Agents tab shows a merged node as merged and nothing else.
MergedShows == \A n \in completed : status[n] = "done" /\ Stage(n) = "merged"

\* A done node none of whose dependencies has a branch yet to merge is merged,
\* or blocked for its conflict, however often the merging process dies.  One
\* of its dependencies may be started in the meantime, and a light node also
\* waits for a clean checkout.
MergesHappen ==
    \A n \in Nodes :
        (n \in bound /\ status[n] = "done" /\ DependsOn[n] \cap bound \subseteq completed)
        ~> \/ n \in completed \/ status[n] # "done"
           \/ ~(DependsOn[n] \cap bound \subseteq completed)
           \/ (n \notin strict /\ dirty)

\* `main` never loses a commit while one process at a time starts and merges:
\* every update-ref of the code names a history that contains the old one.
MainOnlyGrows == [][main \subseteq main']_mVars

\* "merge commits are never discarded" (_advance_main_to_upstream): the recorded
\* merge of a strict node does not leave `main`, whoever else starts a node.
MergesStay ==
    [][\A n \in completed \cap strict : MergeOf(n) \in main => MergeOf(n) \in main']_mVars
=============================================================================
