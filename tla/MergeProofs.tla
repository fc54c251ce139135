----------------------------- MODULE MergeProofs -----------------------------
(***************************************************************************)
(* Proofs about Merge, for one process that starts and merges at a time.   *)
(*                                                                         *)
(* With two, a git command of one comes between two of the other and a     *)
(* merge is lost, which a run shows.  With one, nothing but the process    *)
(* itself moves main, the shared worktree and the rows it merges by, and   *)
(* what it found out in an earlier step still holds in a later one.        *)
(***************************************************************************)
EXTENDS Merge, TLAPS

OneProcess == \A p, q \in Processes : p = q

StartSteps == {"fetch", "compare", "forward", "add", "add light", "setup", "starting"}
MergeSteps == {"reset", "merge", "read", "advance", "record", "abort", "conflict"}
Doings == [at : {"idle"} \cup StartSteps \cup MergeSteps, node : Nodes \cup {NoNode},
           tip : SUBSET Commits]

MTyped ==
    /\ status \in [Nodes -> {"ready", "in_progress", "done", "blocked"}]
    /\ bound \subseteq Nodes /\ disk \subseteq Nodes /\ strict \subseteq Nodes
    /\ completed \subseteq Nodes
    /\ branch \in [Nodes -> SUBSET Commits] /\ taken \in [Nodes -> SUBSET Commits]
    /\ main \subseteq Commits /\ upstream \subseteq Commits
    /\ checkout \subseteq Commits /\ mergeTree \subseteq Commits
    /\ conflicts \in [Nodes -> Nat]
    /\ proc \in [Processes -> Doings]
    /\ \A p \in Processes : ~At(p, "idle") => Node(p) \in Nodes

\* A node with a worktree has a branch; a merged one stays done, its branch is what
\* was merged, and that is in the history it was merged into.
RowsAreSound ==
    /\ checkout # {}
    /\ completed \subseteq bound
    /\ \A n \in bound : branch[n] # {}
    /\ \A n \in completed : /\ status[n] = "done" /\ taken[n] = branch[n]
                            /\ branch[n] \subseteq Base(n)

\* What a start has found out: the node has no worktree yet, and the branch it
\* makes is not empty.
StartIsSound(p) ==
    /\ proc[p].at \in StartSteps \ {"starting"} => Node(p) \notin bound
    /\ At(p, "compare") => upstream # {}
    /\ At(p, "forward") => proc[p].tip # {} /\ main \subseteq proc[p].tip
    /\ At(p, "add") => main # {}
    /\ At(p, "setup") \/ At(p, "starting") => branch[Node(p)] # {}

\* What a merge has found out: the node still is to be merged, nothing it depends
\* on is to be merged first, and the shared worktree has all of main.
MergeIsSound(p) ==
    LET n == Node(p) IN
    /\ proc[p].at \in MergeSteps =>
          n \in bound /\ status[n] = "done" /\ n \notin completed /\ PendingDeps(n) = {}
    /\ At(p, "merge") /\ n \in strict => main \subseteq mergeTree
    /\ At(p, "read") => /\ n \in strict /\ taken[n] = branch[n]
                        /\ main \subseteq mergeTree /\ branch[n] \subseteq mergeTree
    /\ At(p, "advance") => /\ n \in strict /\ taken[n] = branch[n]
                           /\ main \subseteq proc[p].tip /\ branch[n] \subseteq proc[p].tip
    /\ At(p, "record") => taken[n] = branch[n] /\ branch[n] \subseteq Base(n)

\* Inductive.
MergeInv ==
    /\ OneProcess /\ MTyped /\ RowsAreSound
    /\ \A p \in Processes : StartIsSound(p) /\ MergeIsSound(p)

LEMMA MergeInvInit == OneProcess /\ MInit => MergeInv
<1> SUFFICES ASSUME OneProcess, MInit PROVE MergeInv
  OBVIOUS
<1>1. MTyped
  BY DEF MInit, MTyped, Commits, Seed, Doings, Idle, At
<1>2. RowsAreSound
  BY DEF MInit, RowsAreSound
<1>3. \A p \in Processes : proc[p].at = "idle"
  BY DEF MInit, Idle
<1>4. \A p \in Processes : StartIsSound(p) /\ MergeIsSound(p)
  BY <1>3 DEF StartIsSound, MergeIsSound, At, StartSteps, MergeSteps
<1> QED
  BY <1>1, <1>2, <1>4 DEF MergeInv

\* What there is to show of a step of the one process.
LEMMA ProcessStepInv ==
  ASSUME MergeInv, NEW p \in Processes,
         MTyped', RowsAreSound', StartIsSound(p)', MergeIsSound(p)'
  PROVE  MergeInv'
  BY DEF MergeInv, OneProcess

\* The process after a step of its own.
LEMMA ProcessMoves ==
  ASSUME MTyped, NEW p \in Processes, NEW step \in StartSteps \cup MergeSteps, Goes(p, step),
         ~At(p, "idle")
  PROVE  /\ proc' \in [Processes -> Doings]
         /\ proc'[p].at = step /\ proc'[p].node = proc[p].node /\ proc'[p].tip = proc[p].tip
         /\ (\A q \in Processes : ~At(q, "idle") => Node(q) \in Nodes)'
<1>1. proc[p] \in Doings /\ proc' = [proc EXCEPT ![p] = [proc[p] EXCEPT !.at = step]]
  BY DEF MTyped, Goes
<1>2. /\ [proc[p] EXCEPT !.at = step] \in Doings /\ [proc[p] EXCEPT !.at = step].at = step
      /\ [proc[p] EXCEPT !.at = step].node = proc[p].node
      /\ [proc[p] EXCEPT !.at = step].tip = proc[p].tip
  BY <1>1 DEF Doings
<1> QED
  BY <1>1, <1>2 DEF MTyped, At, Node

LEMMA ProcessReturns ==
  ASSUME MTyped, NEW p \in Processes, Returns(p)
  PROVE  /\ proc' \in [Processes -> Doings] /\ proc'[p].at = "idle"
         /\ (\A q \in Processes : ~At(q, "idle") => Node(q) \in Nodes)'
         /\ StartIsSound(p)' /\ MergeIsSound(p)'
<1>1. Idle \in Doings /\ Idle.at = "idle"
  BY DEF Idle, Doings
<1>2. /\ proc' \in [Processes -> Doings] /\ proc'[p].at = "idle"
      /\ \A q \in Processes : q # p => proc'[q] = proc[q]
  BY <1>1 DEF MTyped, Returns
<1>3. (\A q \in Processes : ~At(q, "idle") => Node(q) \in Nodes)'
  BY <1>2 DEF MTyped, At, Node
<1>4. StartIsSound(p)' /\ MergeIsSound(p)'
  BY <1>2 DEF StartIsSound, MergeIsSound, At, StartSteps, MergeSteps
<1> QED
  BY <1>2, <1>3, <1>4

\* The rows and histories of git, left as they are.
LEMMA RowsStay ==
  ASSUME MTyped, RowsAreSound, UNCHANGED <<gitVars, rowVars, taken>>,
         proc' \in [Processes -> Doings],
         (\A q \in Processes : ~At(q, "idle") => Node(q) \in Nodes)'
  PROVE  MTyped' /\ RowsAreSound'
  BY DEF MTyped, RowsAreSound, gitVars, rowVars, Base, At, Node

\* Steps that leave everything but the process alone.
LEMMA LooksOnly ==
  ASSUME MergeInv, NEW p \in Processes,
         \/ ComparesMain(p) \/ CannotAdd(p) \/ SetUp(p) \/ ReadsHead(p) \/ Dies(p)
         \/ \E n \in Nodes : StartCalled(p, n) \/ MergeCalled(p, n)
  PROVE  MergeInv' /\ UNCHANGED <<main, completed>>
<1>0. /\ MTyped /\ RowsAreSound /\ StartIsSound(p) /\ MergeIsSound(p)
      /\ proc[p] \in Doings /\ proc \in [Processes -> Doings]
  BY DEF MergeInv, MTyped
<1>1. UNCHANGED <<gitVars, rowVars, taken>>
  BY DEF ComparesMain, CannotAdd, SetUp, ReadsHead, Dies, StartCalled, MergeCalled
<1>2. UNCHANGED <<status, bound, completed, branch, main, upstream, checkout, mergeTree, strict, taken>>
  BY <1>1 DEF gitVars, rowVars
<1>a. UNCHANGED <<main, completed>>
  BY <1>2
<1>3. ASSUME proc' \in [Processes -> Doings],
             (\A q \in Processes : ~At(q, "idle") => Node(q) \in Nodes)',
             StartIsSound(p)', MergeIsSound(p)'
      PROVE  MergeInv'
  BY <1>0, <1>1, <1>3, RowsStay, ProcessStepInv
<1>4. CASE CannotAdd(p) \/ Dies(p)
  <2>1. Returns(p)
    BY <1>4 DEF CannotAdd, Dies
  <2> QED
    BY <1>0, <1>3, <1>a, <2>1, ProcessReturns
<1>5. CASE SetUp(p)
  <2>1. Goes(p, "starting") /\ proc[p].at = "setup"
    BY <1>5 DEF SetUp, At
  <2>2. /\ proc' \in [Processes -> Doings]
        /\ proc'[p].at = "starting" /\ proc'[p].node = proc[p].node
        /\ (\A q \in Processes : ~At(q, "idle") => Node(q) \in Nodes)'
    BY <1>0, <2>1, ProcessMoves DEF StartSteps, At
  <2>3. StartIsSound(p)' /\ MergeIsSound(p)'
    BY <1>0, <1>2, <2>1, <2>2 DEF StartIsSound, MergeIsSound, At, Node, StartSteps, MergeSteps
  <2> QED
    BY <1>3, <1>a, <2>2, <2>3
<1>6. ASSUME NEW d \in Doings, d.at # "idle", d.node \in Nodes,
             proc' = [proc EXCEPT ![p] = d]
      PROVE  /\ proc' \in [Processes -> Doings] /\ proc'[p] = d
             /\ (\A q \in Processes : ~At(q, "idle") => Node(q) \in Nodes)'
  BY <1>0, <1>6 DEF MTyped, At, Node
<1>7. CASE ComparesMain(p)
  <2> DEFINE step == IF FastForwards(main, upstream) THEN "forward" ELSE "add"
             d == [proc[p] EXCEPT !.at = step, !.tip = upstream]
  <2>1. proc[p].at = "compare" /\ proc' = [proc EXCEPT ![p] = d]
    BY <1>7 DEF ComparesMain, At
  <2>2. d \in Doings /\ d.at = step /\ d.node = proc[p].node /\ d.tip = upstream
    BY <1>0 DEF Doings, MTyped, StartSteps
  <2>3. d.node \in Nodes /\ d.at # "idle"
    BY <1>0, <2>1, <2>2 DEF MTyped, At, Node
  <2>4. /\ step = "forward" => upstream # {} /\ main \subseteq upstream
        /\ step = "add" => main # {}
        /\ upstream # {} /\ step \in {"forward", "add"}
    BY <1>0, <2>1 DEF StartIsSound, At, FastForwards
  <2> HIDE DEF step, d
  <2>5. proc'[p] = d
    BY <1>6, <2>1, <2>2, <2>3
  <2>6. StartIsSound(p)' /\ MergeIsSound(p)'
    BY <1>0, <1>2, <2>1, <2>2, <2>4, <2>5
       DEF StartIsSound, MergeIsSound, At, Node, StartSteps, MergeSteps
  <2> QED
    BY <1>3, <1>6, <1>a, <2>1, <2>2, <2>3, <2>6
<1>8. CASE ReadsHead(p)
  <2> DEFINE d == [proc[p] EXCEPT !.at = "advance", !.tip = mergeTree]
  <2>1. proc[p].at = "read" /\ proc' = [proc EXCEPT ![p] = d]
    BY <1>8 DEF ReadsHead, At
  <2>2. d \in Doings /\ d.at = "advance" /\ d.node = proc[p].node /\ d.tip = mergeTree
    BY <1>0 DEF Doings, MTyped, MergeSteps
  <2>3. d.node \in Nodes /\ d.at # "idle"
    BY <1>0, <2>1, <2>2 DEF MTyped, At, Node
  <2> HIDE DEF d
  <2>5. proc'[p] = d
    BY <1>6, <2>1, <2>2, <2>3
  <2>6. StartIsSound(p)' /\ MergeIsSound(p)'
    BY <1>0, <1>2, <2>1, <2>2, <2>5
       DEF StartIsSound, MergeIsSound, At, Node, StartSteps, MergeSteps, PendingDeps
  <2> QED
    BY <1>3, <1>6, <1>a, <2>1, <2>2, <2>3, <2>6
<1>9. ASSUME NEW n \in Nodes, StartCalled(p, n) \/ MergeCalled(p, n)
      PROVE  MergeInv'
  <2>1. PICK step : /\ proc' = [proc EXCEPT ![p] = [at |-> step, node |-> n, tip |-> {}]]
                    /\ \/ step = "starting" /\ n \in bound
                       \/ step \in {"fetch", "add light"} /\ n \notin bound
                       \/ step = "reset" /\ Mergeable(n)
                       \/ step = "merge" /\ n \notin strict /\ Mergeable(n)
    BY <1>9, Zenon DEF StartCalled, MergeCalled
  <2> DEFINE d == [at |-> step, node |-> n, tip |-> {}]
  <2>2. d \in Doings /\ d.at = step /\ d.node = n /\ d.at # "idle"
    BY <2>1 DEF Doings, StartSteps, MergeSteps
  <2> HIDE DEF d
  <2>3. proc'[p] = d
    BY <1>6, <2>1, <2>2 DEF d
  <2>4. StartIsSound(p)' /\ MergeIsSound(p)'
    BY <1>0, <1>2, <2>1, <2>2, <2>3
       DEF StartIsSound, MergeIsSound, At, Node, StartSteps, MergeSteps, PendingDeps, Mergeable,
           RowsAreSound
  <2> QED
    BY <1>3, <1>6, <2>1, <2>2, <2>4 DEF d
<1> QED
  BY <1>4, <1>5, <1>7, <1>8, <1>9, <1>a

\* The steps of a start that change something.
LEMMA StartStepInv ==
  ASSUME MergeInv, NEW p \in Processes,
         \/ FetchesUpstream(p) \/ ForwardsMain(p) \/ AddsWorktree(p) \/ SetupFails(p) \/ Starts(p)
  PROVE  MergeInv' /\ main \subseteq main' /\ completed' = completed
<1>0. /\ MTyped /\ RowsAreSound /\ StartIsSound(p) /\ MergeIsSound(p)
      /\ proc[p] \in Doings /\ proc \in [Processes -> Doings]
  BY DEF MergeInv, MTyped
<1>a. ~At(p, "idle") => Node(p) \in Nodes
  BY <1>0 DEF MTyped
<1>b. ASSUME NEW step \in StartSteps \cup MergeSteps, Goes(p, step), ~At(p, "idle")
      PROVE  /\ proc' \in [Processes -> Doings]
             /\ proc'[p].at = step /\ proc'[p].node = proc[p].node /\ proc'[p].tip = proc[p].tip
             /\ (\A q \in Processes : ~At(q, "idle") => Node(q) \in Nodes)'
  BY <1>0, <1>b, ProcessMoves
<1>1. CASE FetchesUpstream(p)
  <2>1. /\ proc[p].at = "fetch" /\ upstream' = checkout /\ Goes(p, "compare")
        /\ UNCHANGED <<branch, main, checkout, dirty, mergeTree, disk, strict, rowVars, taken>>
    BY <1>1 DEF FetchesUpstream, At
  <2>2. UNCHANGED <<status, bound, completed, conflicts>>
    BY <2>1 DEF rowVars
  <2>3. /\ proc' \in [Processes -> Doings] /\ proc'[p].at = "compare"
        /\ proc'[p].node = proc[p].node
        /\ (\A q \in Processes : ~At(q, "idle") => Node(q) \in Nodes)'
    BY <1>b, <2>1 DEF At, StartSteps
  <2>4. MTyped' /\ RowsAreSound'
    BY <1>0, <2>1, <2>2, <2>3 DEF MTyped, RowsAreSound, Base
  <2>5. StartIsSound(p)' /\ MergeIsSound(p)'
    BY <1>0, <2>1, <2>2, <2>3
       DEF StartIsSound, MergeIsSound, At, Node, StartSteps, MergeSteps, RowsAreSound
  <2> QED
    BY <2>1, <2>2, <2>4, <2>5, ProcessStepInv
<1>2. CASE ForwardsMain(p)
  <2>1. /\ proc[p].at = "forward" /\ main' = proc[p].tip /\ Goes(p, "add")
        /\ UNCHANGED <<branch, upstream, checkout, dirty, mergeTree, disk, strict, rowVars, taken>>
    BY <1>2 DEF ForwardsMain, At
  <2>2. UNCHANGED <<status, bound, completed, conflicts>>
    BY <2>1 DEF rowVars
  <2>3. /\ proc' \in [Processes -> Doings] /\ proc'[p].at = "add"
        /\ proc'[p].node = proc[p].node
        /\ (\A q \in Processes : ~At(q, "idle") => Node(q) \in Nodes)'
    BY <1>b, <2>1 DEF At, StartSteps
  <2>4. main \subseteq main' /\ main' # {} /\ main' \subseteq Commits
    BY <1>0, <2>1 DEF StartIsSound, At, Doings
  <2>5. MTyped'
    BY <1>0, <2>1, <2>2, <2>3, <2>4 DEF MTyped
  <2>6. RowsAreSound'
    BY <1>0, <2>1, <2>2, <2>4 DEF RowsAreSound, Base
  <2>7. StartIsSound(p)' /\ MergeIsSound(p)'
    BY <1>0, <2>1, <2>2, <2>3, <2>4
       DEF StartIsSound, MergeIsSound, At, Node, StartSteps, MergeSteps
  <2> QED
    BY <2>2, <2>4, <2>5, <2>6, <2>7, ProcessStepInv
<1>3. CASE AddsWorktree(p)
  <2>1. /\ proc[p].at \in {"add", "add light"} /\ branch[Node(p)] = {} /\ Goes(p, "setup")
        /\ disk' = disk \cup {Node(p)}
        /\ strict' = IF At(p, "add") THEN strict \cup {Node(p)} ELSE strict \ {Node(p)}
        /\ branch' = [branch EXCEPT ![Node(p)] = IF At(p, "add") THEN main ELSE checkout]
        /\ UNCHANGED <<main, upstream, checkout, dirty, mergeTree, rowVars, taken>>
    BY <1>3 DEF AddsWorktree, Adding, At
  <2>2. UNCHANGED <<status, bound, completed, conflicts>>
    BY <2>1 DEF rowVars
  <2>3. /\ proc' \in [Processes -> Doings] /\ proc'[p].at = "setup"
        /\ proc'[p].node = proc[p].node
        /\ (\A q \in Processes : ~At(q, "idle") => Node(q) \in Nodes)'
    BY <1>b, <2>1 DEF At, StartSteps
  <2>4. Node(p) \in Nodes /\ Node(p) \notin bound
    BY <1>0, <1>a, <2>1 DEF StartIsSound, At, StartSteps
  <2>5. /\ branch' \in [Nodes -> SUBSET Commits] /\ branch'[Node(p)] # {}
        /\ \A n \in Nodes : n # Node(p) => branch'[n] = branch[n]
    BY <1>0, <2>1, <2>4 DEF MTyped, StartIsSound, RowsAreSound, At
  <2>6. \A n \in Nodes : n # Node(p) => (n \in strict' <=> n \in strict)
    BY <2>1
  <2>7. MTyped'
    BY <1>0, <2>1, <2>2, <2>3, <2>4, <2>5 DEF MTyped
  <2>8. RowsAreSound'
    <3>1. \A m \in bound : m \in Nodes /\ m # Node(p)
      BY <1>0, <2>4 DEF MTyped
    <3>2. /\ checkout' # {} /\ completed \subseteq bound
          /\ \A m \in bound : branch'[m] # {} /\ branch'[m] = branch[m] /\ Base(m)' = Base(m)
      BY <1>0, <2>1, <2>5, <2>6, <3>1 DEF RowsAreSound, Base
    <3>3. \A m \in completed : /\ status[m] = "done" /\ taken[m] = branch[m]
                               /\ branch[m] \subseteq Base(m)
      BY <1>0 DEF RowsAreSound
    <3> QED
      BY <2>1, <2>2, <3>2, <3>3 DEF RowsAreSound
  <2>9. StartIsSound(p)' /\ MergeIsSound(p)'
    BY <1>0, <2>1, <2>2, <2>3, <2>4, <2>5
       DEF StartIsSound, MergeIsSound, At, Node, StartSteps, MergeSteps
  <2> QED
    BY <2>1, <2>2, <2>7, <2>8, <2>9, ProcessStepInv
<1>4. CASE SetupFails(p)
  <2>1. /\ proc[p].at = "setup" /\ Returns(p)
        /\ disk' = disk \ {Node(p)} /\ branch' = [branch EXCEPT ![Node(p)] = {}]
        /\ UNCHANGED <<main, upstream, checkout, dirty, mergeTree, strict, rowVars, taken>>
    BY <1>4 DEF SetupFails, At
  <2>2. UNCHANGED <<status, bound, completed, conflicts>>
    BY <2>1 DEF rowVars
  <2>3. /\ proc' \in [Processes -> Doings] /\ proc'[p].at = "idle"
        /\ (\A q \in Processes : ~At(q, "idle") => Node(q) \in Nodes)'
        /\ StartIsSound(p)' /\ MergeIsSound(p)'
    BY <1>0, <2>1, ProcessReturns
  <2>4. Node(p) \notin bound
    BY <1>0, <2>1 DEF StartIsSound, StartSteps
  <2>5. MTyped'
    BY <1>0, <2>1, <2>2, <2>3 DEF MTyped
  <2>6. RowsAreSound'
    BY <1>0, <2>1, <2>2, <2>4 DEF RowsAreSound, Base, MTyped
  <2> QED
    BY <2>1, <2>2, <2>3, <2>5, <2>6, ProcessStepInv
<1>5. CASE Starts(p)
  <2>1. /\ proc[p].at = "starting" /\ Returns(p)
        /\ \/ /\ status[Node(p)] = "ready"
              /\ status' = [status EXCEPT ![Node(p)] = "in_progress"]
              /\ bound' = bound \cup {Node(p)}
           \/ UNCHANGED <<status, bound>>
        /\ UNCHANGED <<gitVars, completed, conflicts, taken>>
    BY <1>5 DEF Starts, At
  <2>2. UNCHANGED <<branch, main, upstream, checkout, mergeTree, strict, disk>>
    BY <2>1 DEF gitVars
  <2>3. /\ proc' \in [Processes -> Doings] /\ proc'[p].at = "idle"
        /\ (\A q \in Processes : ~At(q, "idle") => Node(q) \in Nodes)'
        /\ StartIsSound(p)' /\ MergeIsSound(p)'
    BY <1>0, <2>1, ProcessReturns
  <2>4. Node(p) \in Nodes /\ branch[Node(p)] # {}
    BY <1>0, <1>a, <2>1 DEF StartIsSound, At
  <2>5. MTyped'
    BY <1>0, <2>1, <2>2, <2>3, <2>4 DEF MTyped
  <2>6. RowsAreSound'
    BY <1>0, <2>1, <2>2, <2>4 DEF RowsAreSound, Base, MTyped
  <2> QED
    BY <2>1, <2>2, <2>3, <2>5, <2>6, ProcessStepInv
<1> QED
  BY <1>1, <1>2, <1>3, <1>4, <1>5

\* The steps of a merge that change something.
LEMMA MergeStepInv ==
  ASSUME MergeInv, NEW p \in Processes,
         \/ ResetsTree(p) \/ MergesCleanly(p) \/ AdvancesMain(p)
         \/ RecordsMerge(p) \/ MergeStops(p) \/ AbortsMerge(p) \/ RecordsConflict(p)
  PROVE  /\ MergeInv' /\ main \subseteq main'
         /\ \A n \in completed' \ completed : DependsOn[n] \cap bound \subseteq completed
<1>0. /\ MTyped /\ RowsAreSound /\ StartIsSound(p) /\ MergeIsSound(p)
      /\ proc[p] \in Doings /\ proc \in [Processes -> Doings]
  BY DEF MergeInv, MTyped
<1>a. ~At(p, "idle") => Node(p) \in Nodes
  BY <1>0 DEF MTyped
<1>b. ASSUME NEW step \in StartSteps \cup MergeSteps, Goes(p, step), ~At(p, "idle")
      PROVE  /\ proc' \in [Processes -> Doings]
             /\ proc'[p].at = step /\ proc'[p].node = proc[p].node /\ proc'[p].tip = proc[p].tip
             /\ (\A q \in Processes : ~At(q, "idle") => Node(q) \in Nodes)'
  BY <1>0, <1>b, ProcessMoves
<1>1. CASE ResetsTree(p)
  <2>1. /\ proc[p].at = "reset" /\ mergeTree' = main /\ Goes(p, "merge")
        /\ UNCHANGED <<branch, main, upstream, checkout, dirty, disk, strict, rowVars, taken>>
    BY <1>1 DEF ResetsTree, At
  <2>2. UNCHANGED <<status, bound, completed, conflicts>>
    BY <2>1 DEF rowVars
  <2>3. /\ proc' \in [Processes -> Doings] /\ proc'[p].at = "merge"
        /\ proc'[p].node = proc[p].node
        /\ (\A q \in Processes : ~At(q, "idle") => Node(q) \in Nodes)'
    BY <1>b, <2>1 DEF At, MergeSteps
  <2>4. MTyped' /\ RowsAreSound'
    BY <1>0, <2>1, <2>2, <2>3 DEF MTyped, RowsAreSound, Base
  <2>5. StartIsSound(p)' /\ MergeIsSound(p)'
    BY <1>0, <2>1, <2>2, <2>3
       DEF StartIsSound, MergeIsSound, At, Node, StartSteps, MergeSteps, PendingDeps
  <2> QED
    BY <2>1, <2>2, <2>4, <2>5, ProcessStepInv
<1>2. CASE MergesCleanly(p)
  <2>0. PICK n \in Nodes : n = Node(p)
    BY <1>2, <1>a DEF MergesCleanly, At
  <2>s. PICK step \in {"read", "record"} : step = "read" <=> n \in strict
    OBVIOUS
  <2>1. /\ proc[p].at = "merge" /\ Goes(p, step)
        /\ IF n \in strict
           THEN mergeTree' = Merged(n) /\ UNCHANGED checkout
           ELSE checkout' = Merged(n) /\ UNCHANGED mergeTree
        /\ taken' = [taken EXCEPT ![n] = branch[n]]
        /\ UNCHANGED <<branch, main, upstream, dirty, disk, strict, rowVars>>
    BY <1>2, <2>0, <2>s DEF MergesCleanly, At
  <2>2. UNCHANGED <<status, bound, completed, conflicts>>
    BY <2>1 DEF rowVars
  <2>3. /\ proc' \in [Processes -> Doings] /\ proc'[p].at = step
        /\ proc'[p].node = n
        /\ (\A q \in Processes : ~At(q, "idle") => Node(q) \in Nodes)'
    BY <1>b, <2>0, <2>1 DEF At, MergeSteps, Node
  <2>4. /\ n \in Nodes /\ n \in bound /\ status[n] = "done" /\ n \notin completed
        /\ PendingDeps(n) = {} /\ (n \in strict => main \subseteq mergeTree)
    BY <1>0, <2>0, <2>1 DEF MergeIsSound, At, MergeSteps
  <2>5. Into(n) \subseteq Merged(n) /\ branch[n] \subseteq Merged(n) /\ Merged(n) \subseteq Commits
    BY <1>0, <2>4 DEF Merged, Into, MTyped, Commits
  <2>6. MTyped'
    BY <1>0, <2>1, <2>2, <2>3, <2>4, <2>5 DEF MTyped
  <2>7. checkout \subseteq checkout' /\ (n \in strict => main \subseteq mergeTree')
    BY <2>1, <2>4, <2>5 DEF Into
  <2>8. taken'[n] = branch[n] /\ \A m \in Nodes : m # n => taken'[m] = taken[m]
    BY <1>0, <2>1, <2>4 DEF MTyped
  <2>9. RowsAreSound'
    <3>1. completed \subseteq Nodes
      BY <1>0 DEF MTyped
    <3>2. checkout' # {} /\ completed' \subseteq bound' /\ \A m \in bound' : branch'[m] # {}
      BY <1>0, <2>1, <2>2, <2>7 DEF RowsAreSound
    <3>3. \A m \in completed : status'[m] = "done" /\ taken'[m] = branch'[m]
      BY <1>0, <2>1, <2>2, <2>4, <2>8, <3>1 DEF RowsAreSound
    <3>4. \A m \in completed : branch'[m] \subseteq Base(m)'
      BY <1>0, <2>1, <2>7 DEF RowsAreSound, Base
    <3> QED
      BY <2>2, <3>2, <3>3, <3>4 DEF RowsAreSound
  <2>10. StartIsSound(p)' /\ MergeIsSound(p)'
    <3>1. Node(p)' = n /\ step \in {"read", "record"} /\ (step = "read" <=> n \in strict)
      BY <2>3, <2>s DEF Node
    <3>2. PendingDeps(n)' = {}
      BY <2>2, <2>4 DEF PendingDeps
    <3>3. StartIsSound(p)'
      BY <2>3, <3>1 DEF StartIsSound, At, StartSteps
    <3>4. branch'[n] \subseteq (IF n \in strict THEN mergeTree' ELSE checkout')
      BY <2>1, <2>5
    <3>5. MergeIsSound(p)'
      BY <2>1, <2>2, <2>3, <2>4, <2>7, <2>8, <3>1, <3>2, <3>4
         DEF MergeIsSound, At, MergeSteps, Base, Node
    <3> QED
      BY <3>3, <3>5
  <2> QED
    BY <2>1, <2>2, <2>6, <2>9, <2>10, ProcessStepInv
<1>3. CASE AdvancesMain(p)
  <2>1. /\ proc[p].at = "advance" /\ main' = proc[p].tip /\ Goes(p, "record")
        /\ UNCHANGED <<branch, upstream, checkout, dirty, mergeTree, disk, strict, rowVars, taken>>
    BY <1>3 DEF AdvancesMain, At
  <2>2. UNCHANGED <<status, bound, completed, conflicts>>
    BY <2>1 DEF rowVars
  <2>3. /\ proc' \in [Processes -> Doings] /\ proc'[p].at = "record"
        /\ proc'[p].node = proc[p].node
        /\ (\A q \in Processes : ~At(q, "idle") => Node(q) \in Nodes)'
    BY <1>b, <2>1 DEF At, MergeSteps
  <2>4. main \subseteq main' /\ main' \subseteq Commits /\ branch[Node(p)] \subseteq main'
    BY <1>0, <2>1 DEF MergeIsSound, At, Doings
  <2>5. MTyped'
    BY <1>0, <2>1, <2>2, <2>3, <2>4 DEF MTyped
  <2>6. RowsAreSound'
    BY <1>0, <2>1, <2>2, <2>4 DEF RowsAreSound, Base
  <2>7. StartIsSound(p)' /\ MergeIsSound(p)'
    BY <1>0, <2>1, <2>2, <2>3, <2>4
       DEF StartIsSound, MergeIsSound, At, Node, StartSteps, MergeSteps, PendingDeps, Base
  <2> QED
    BY <2>2, <2>4, <2>5, <2>6, <2>7, ProcessStepInv
<1>4. CASE RecordsMerge(p)
  <2>1. /\ proc[p].at = "record" /\ Returns(p) /\ completed' = completed \cup {Node(p)}
        /\ UNCHANGED <<gitVars, status, bound, conflicts, taken>>
    BY <1>4 DEF RecordsMerge, At
  <2>2. UNCHANGED <<branch, main, upstream, checkout, mergeTree, strict, disk>>
    BY <2>1 DEF gitVars
  <2>3. /\ proc' \in [Processes -> Doings] /\ proc'[p].at = "idle"
        /\ (\A q \in Processes : ~At(q, "idle") => Node(q) \in Nodes)'
        /\ StartIsSound(p)' /\ MergeIsSound(p)'
    BY <1>0, <2>1, ProcessReturns
  <2>4. /\ Node(p) \in Nodes /\ Node(p) \in bound /\ status[Node(p)] = "done"
        /\ PendingDeps(Node(p)) = {} /\ taken[Node(p)] = branch[Node(p)]
        /\ branch[Node(p)] \subseteq Base(Node(p))
    BY <1>0, <1>a, <2>1 DEF MergeIsSound, At, MergeSteps
  <2>5. MTyped'
    BY <1>0, <2>1, <2>2, <2>3, <2>4 DEF MTyped
  <2>6. RowsAreSound'
    BY <1>0, <2>1, <2>2, <2>4 DEF RowsAreSound, Base
  <2>7. DependsOn[Node(p)] \cap bound \subseteq completed
    BY <2>4 DEF PendingDeps
  <2> QED
    BY <2>1, <2>2, <2>3, <2>5, <2>6, <2>7, ProcessStepInv
<1>5. CASE MergeStops(p) \/ AbortsMerge(p)
  <2>1. /\ \/ proc[p].at = "merge" /\ Goes(p, "abort")
           \/ proc[p].at = "abort" /\ Goes(p, "conflict")
        /\ UNCHANGED <<branch, main, upstream, checkout, mergeTree, disk, strict, rowVars, taken>>
    BY <1>5 DEF MergeStops, AbortsMerge, At
  <2>2. UNCHANGED <<status, bound, completed, conflicts>>
    BY <2>1 DEF rowVars
  <2>3. /\ proc' \in [Processes -> Doings] /\ proc'[p].at \in {"abort", "conflict"}
        /\ proc'[p].node = proc[p].node
        /\ (\A q \in Processes : ~At(q, "idle") => Node(q) \in Nodes)'
    BY <1>b, <2>1 DEF At, MergeSteps
  <2>4. MTyped' /\ RowsAreSound'
    BY <1>0, <2>1, <2>2, <2>3 DEF MTyped, RowsAreSound, Base
  <2>5. StartIsSound(p)' /\ MergeIsSound(p)'
    BY <1>0, <2>1, <2>2, <2>3
       DEF StartIsSound, MergeIsSound, At, Node, StartSteps, MergeSteps, PendingDeps
  <2> QED
    BY <2>1, <2>2, <2>4, <2>5, ProcessStepInv
<1>6. CASE RecordsConflict(p)
  <2>1. /\ proc[p].at = "conflict" /\ Returns(p)
        /\ \/ /\ status' = [status EXCEPT ![Node(p)] = "blocked"]
              /\ conflicts' = [conflicts EXCEPT ![Node(p)] = @ + 1]
           \/ UNCHANGED <<status, conflicts>>
        /\ UNCHANGED <<gitVars, bound, completed, taken>>
    BY <1>6 DEF RecordsConflict, At
  <2>2. UNCHANGED <<branch, main, upstream, checkout, mergeTree, strict, disk>>
    BY <2>1 DEF gitVars
  <2>3. /\ proc' \in [Processes -> Doings] /\ proc'[p].at = "idle"
        /\ (\A q \in Processes : ~At(q, "idle") => Node(q) \in Nodes)'
        /\ StartIsSound(p)' /\ MergeIsSound(p)'
    BY <1>0, <2>1, ProcessReturns
  <2>4. Node(p) \in Nodes /\ Node(p) \notin completed
    BY <1>0, <1>a, <2>1 DEF MergeIsSound, At, MergeSteps
  <2>5. MTyped'
    BY <1>0, <2>1, <2>2, <2>3, <2>4 DEF MTyped
  <2>6. RowsAreSound'
    BY <1>0, <2>1, <2>2, <2>4 DEF RowsAreSound, Base, MTyped
  <2> QED
    BY <2>1, <2>2, <2>3, <2>5, <2>6, ProcessStepInv
<1> QED
  BY <1>1, <1>2, <1>3, <1>4, <1>5, <1>6

\* What agents and humans do disturbs neither a merged node nor what the process
\* has found out.
LEMMA OutsideInv ==
  ASSUME MergeInv, Outside
  PROVE  MergeInv' /\ UNCHANGED <<main, completed>>
<1>0. /\ MTyped /\ RowsAreSound /\ \A p \in Processes : StartIsSound(p) /\ MergeIsSound(p)
  BY DEF MergeInv
<1>a. /\ status \in [Nodes -> {"ready", "in_progress", "done", "blocked"}]
      /\ branch \in [Nodes -> SUBSET Commits] /\ completed \subseteq Nodes /\ bound \subseteq Nodes
      /\ proc \in [Processes -> Doings] /\ checkout \subseteq Commits /\ main \subseteq Commits
      /\ \A p \in Processes : ~At(p, "idle") => Node(p) \in Nodes
  BY <1>0 DEF MTyped
\* A step that moves one node's status, which is neither done nor merged.
<1>1. ASSUME NEW n \in Nodes, NEW s \in {"ready", "in_progress", "done"}, status[n] # "done",
             status' = [status EXCEPT ![n] = s],
             UNCHANGED <<gitVars, bound, completed, conflicts, proc, taken>>
      PROVE  MergeInv'
  <2>1. UNCHANGED <<branch, main, upstream, checkout, mergeTree, strict, disk>>
    BY <1>1 DEF gitVars
  <2>2. status' \in [Nodes -> {"ready", "in_progress", "done", "blocked"}]
        /\ \A m \in Nodes : status[m] = "done" => status'[m] = "done"
    BY <1>a, <1>1
  <2>3. MTyped'
    BY <1>0, <1>1, <2>1, <2>2 DEF MTyped, At, Node
  <2>4. RowsAreSound'
    BY <1>0, <1>a, <1>1, <2>1, <2>2 DEF RowsAreSound, Base
  <2>5. ASSUME NEW p \in Processes
        PROVE  StartIsSound(p)' /\ MergeIsSound(p)'
    BY <1>0, <1>a, <1>1, <2>1, <2>2
       DEF StartIsSound, MergeIsSound, At, Node, StartSteps, MergeSteps, PendingDeps, Base
  <2> QED
    BY <2>3, <2>4, <2>5 DEF MergeInv
\* A step that moves the branch of a node that is not done.
<1>2. ASSUME NEW n \in Nodes, NEW b \in SUBSET Commits, b # {}, status[n] # "done",
             branch' = [branch EXCEPT ![n] = b],
             UNCHANGED <<main, upstream, checkout, mergeTree, disk, strict, rowVars, proc, taken>>
      PROVE  MergeInv'
  <2>1. UNCHANGED <<status, bound, completed, conflicts>>
    BY <1>2 DEF rowVars
  <2>2. branch' \in [Nodes -> SUBSET Commits] /\ branch'[n] # {}
        /\ \A m \in Nodes : m # n => branch'[m] = branch[m]
    BY <1>a, <1>2
  <2>3. MTyped'
    BY <1>0, <1>2, <2>1, <2>2 DEF MTyped, At, Node
  <2>4. RowsAreSound'
    BY <1>0, <1>a, <1>2, <2>1, <2>2 DEF RowsAreSound, Base
  <2>5. ASSUME NEW p \in Processes
        PROVE  StartIsSound(p)' /\ MergeIsSound(p)'
    <3>1. proc[p].at \in MergeSteps => Node(p) # n /\ Node(p) \in Nodes
      BY <1>0, <1>a, <1>2 DEF MergeIsSound
    <3>2. UNCHANGED <<proc, main, upstream, checkout, mergeTree, strict, taken>>
      BY <1>2
    <3>3. StartIsSound(p)'
      BY <1>0, <1>a, <2>1, <2>2, <3>2 DEF StartIsSound, At, Node, StartSteps
    <3>4. MergeIsSound(p)'
      BY <1>0, <2>1, <2>2, <3>1, <3>2
         DEF MergeIsSound, At, Node, MergeSteps, PendingDeps, Base
    <3> QED
      BY <3>3, <3>4
  <2> QED
    BY <2>1, <2>3, <2>4, <2>5 DEF MergeInv
<1>3. ASSUME NEW n \in Nodes, AgentCommits(n) \/ AgentRebases(n)
      PROVE  MergeInv'
  <2>1. PICK b : /\ branch' = [branch EXCEPT ![n] = b]
                 /\ b = branch[n] \cup {Work(n)} \/ b = Base(n) \cup {Work(n)}
    BY <1>3 DEF AgentCommits, AgentRebases
  <2>2. b \in SUBSET Commits /\ b # {}
    BY <1>a, <2>1 DEF Commits, Base
  <2>3. /\ status[n] # "done"
        /\ UNCHANGED <<main, upstream, checkout, mergeTree, disk, strict, rowVars, proc, taken>>
    BY <1>3 DEF AgentCommits, AgentRebases
  <2> QED
    BY <1>2, <2>1, <2>2, <2>3
<1>4. ASSUME NEW n \in Nodes, AgentFinishes(n) \/ AgentLosesIt(n) \/ HandsOff(n)
      PROVE  MergeInv'
  BY <1>1, <1>4 DEF AgentFinishes, AgentLosesIt, HandsOff
<1>5. ASSUME NEW n \in Nodes, OrphanRemoved(n)
      PROVE  MergeInv'
  <2>1. /\ n \notin bound /\ disk' = disk \ {n} /\ branch' = [branch EXCEPT ![n] = {}]
        /\ \A p \in Processes : proc[p].at = "idle"
        /\ UNCHANGED <<main, upstream, checkout, mergeTree, strict, rowVars, proc, taken>>
    BY <1>5 DEF OrphanRemoved, At
  <2>2. UNCHANGED <<status, bound, completed, conflicts>>
    BY <2>1 DEF rowVars
  <2>3. MTyped'
    BY <1>0, <2>1, <2>2 DEF MTyped, At, Node
  <2>4. RowsAreSound'
    BY <1>0, <1>a, <2>1, <2>2 DEF RowsAreSound, Base
  <2>5. \A p \in Processes : StartIsSound(p)' /\ MergeIsSound(p)'
    BY <2>1 DEF StartIsSound, MergeIsSound, At, StartSteps, MergeSteps
  <2> QED
    BY <2>2, <2>3, <2>4, <2>5 DEF MergeInv
<1>6. CASE HumanCommits \/ HumanEdits
  <2>1. /\ checkout' \in {checkout, checkout \cup {Human}, checkout \cup main}
        /\ UNCHANGED <<branch, main, upstream, mergeTree, disk, strict, rowVars, proc, taken>>
    BY <1>6 DEF HumanCommits, HumanEdits
  <2>2. UNCHANGED <<status, bound, completed, conflicts>>
    BY <2>1 DEF rowVars
  <2>3. checkout \subseteq checkout' /\ checkout' \subseteq Commits
    BY <1>a, <2>1 DEF Commits
  <2>4. MTyped'
    BY <1>0, <2>1, <2>2, <2>3 DEF MTyped, At, Node
  <2>5. RowsAreSound'
    BY <1>0, <2>1, <2>2, <2>3 DEF RowsAreSound, Base
  <2>6. ASSUME NEW p \in Processes
        PROVE  StartIsSound(p)' /\ MergeIsSound(p)'
    BY <1>0, <2>1, <2>2, <2>3
       DEF StartIsSound, MergeIsSound, At, Node, StartSteps, MergeSteps, PendingDeps, Base
  <2> QED
    BY <2>1, <2>2, <2>4, <2>5, <2>6 DEF MergeInv
<1>7. UNCHANGED <<main, completed>>
  BY DEF Outside, AgentCommits, AgentRebases, AgentFinishes, AgentLosesIt, HandsOff, OrphanRemoved,
         HumanCommits, HumanEdits, gitVars, rowVars
<1> QED
  BY <1>3, <1>4, <1>5, <1>6, <1>7 DEF Outside

LEMMA MergeInvStep ==
  ASSUME MergeInv, [MNext]_mVars
  PROVE  /\ MergeInv' /\ main \subseteq main'
         /\ \A n \in completed' \ completed : DependsOn[n] \cap bound \subseteq completed
<1>1. ASSUME NEW p \in Processes, Continues(p) \/ Dies(p)
      PROVE  /\ MergeInv' /\ main \subseteq main'
             /\ \A n \in completed' \ completed : DependsOn[n] \cap bound \subseteq completed
  BY <1>1, LooksOnly, StartStepInv, MergeStepInv DEF Continues
<1>2. ASSUME NEW p \in Processes, NEW n \in Nodes, StartCalled(p, n) \/ MergeCalled(p, n)
      PROVE  MergeInv' /\ UNCHANGED <<main, completed>>
  BY <1>2, LooksOnly
<1>3. CASE Outside
  BY <1>3, OutsideInv
<1>4. CASE UNCHANGED mVars
  <2>1. UNCHANGED <<gitVars, rowVars, taken, proc>>
    BY <1>4 DEF mVars
  <2>2. UNCHANGED <<status, bound, completed, branch, main, upstream, checkout, mergeTree, strict>>
    BY <2>1 DEF gitVars, rowVars
  <2>3. MTyped' /\ RowsAreSound'
    BY <2>1, <2>2 DEF MergeInv, MTyped, RowsAreSound, Base, At, Node, gitVars, rowVars
  <2>4. ASSUME NEW p \in Processes
        PROVE  StartIsSound(p)' /\ MergeIsSound(p)'
    BY <2>1, <2>2 DEF MergeInv, StartIsSound, MergeIsSound, At, Node, PendingDeps, Base
  <2> QED
    BY <2>2, <2>3, <2>4 DEF MergeInv
<1> QED
  BY <1>1, <1>2, <1>3, <1>4 DEF MNext

\* With one process that starts and merges at a time, the work that a recorded
\* merge took is in the history it was merged into for ever, whatever is started,
\* merged or pulled afterwards and wherever the process died.
THEOREM MergedWorkIsKept == OneProcess /\ MSpec => []MergedIsKept
<1>1. OneProcess /\ MInit => MergeInv
  BY MergeInvInit
<1>2. MergeInv /\ [MNext]_mVars => MergeInv'
  BY MergeInvStep
<1>3. MergeInv => MergedIsKept
  BY DEF MergeInv, RowsAreSound, MergedIsKept, Base
<1> QED
  BY <1>1, <1>2, <1>3, PTL DEF MSpec

\* With one process, a merged node is done and is shown as merged.
THEOREM MergedIsShown == OneProcess /\ MSpec => []MergedShows
<1>1. OneProcess /\ MInit => MergeInv
  BY MergeInvInit
<1>2. MergeInv /\ [MNext]_mVars => MergeInv'
  BY MergeInvStep
<1>3. MergeInv => MergedShows
  BY DEF MergeInv, RowsAreSound, MergedShows, Stage, Base
<1> QED
  BY <1>1, <1>2, <1>3, PTL DEF MSpec

\* With one process, a merge is recorded only after those of the dependencies that
\* have a worktree, from the check to the record.
THEOREM MergesInOrder == OneProcess /\ MSpec => DependencyOrder
<1>1. OneProcess /\ MInit => MergeInv
  BY MergeInvInit
<1>2. MergeInv /\ [MNext]_mVars => MergeInv'
  BY MergeInvStep
<1>3. MergeInv /\ [MNext]_mVars
        => [\A n \in completed' \ completed : DependsOn[n] \cap bound \subseteq completed]_mVars
  BY MergeInvStep
<1> QED
  BY <1>1, <1>2, <1>3, PTL DEF MSpec, DependencyOrder

\* With one process, no update-ref drops a commit of `main`.
THEOREM MainNeverShrinks == OneProcess /\ MSpec => MainOnlyGrows
<1>1. OneProcess /\ MInit => MergeInv
  BY MergeInvInit
<1>2. MergeInv /\ [MNext]_mVars => MergeInv'
  BY MergeInvStep
<1>3. MergeInv /\ [MNext]_mVars => [main \subseteq main']_mVars
  BY MergeInvStep
<1> QED
  BY <1>1, <1>2, <1>3, PTL DEF MSpec, MainOnlyGrows

=============================================================================
