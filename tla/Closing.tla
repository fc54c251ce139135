------------------------------- MODULE Closing -------------------------------
(***************************************************************************)
(* Closing a project: core/close.py, by several calls at once, in a        *)
(* checkout the user works in.                                             *)
(*                                                                         *)
(* A close previews what the project leaves behind, writes it to the       *)
(* tables in transactions of their own, commits the tables to              *)
(* muvue/structure, tries to fast-forward main, and only then closes the   *)
(* project.  It may fail or die after each of these.                       *)
(***************************************************************************)
EXTENDS Integers, Sequences, FiniteSets

CONSTANTS
    Closers,     \* calls of close --confirm
    Closes,      \* the project each of them closes
    NoRef,       \* a ref that does not exist
    MaxDisturbed \* bound on the user's commits and checkouts, and the
                 \* closes that die

ASSUME ClosingAssumption == MaxDisturbed \in Nat /\ NoRef \notin Nat

Checkouts == {[branch |-> "main", dirty |-> FALSE], [branch |-> "main", dirty |-> TRUE],
              [branch |-> "other", dirty |-> FALSE]}

VARIABLES
    tables,    \* projects whose components and decisions are in the tables
    closed,    \* projects whose phase is closed
    graph,     \* commits: what they descend from, themselves included, and the
               \* projects whose decisions their decisions.json holds
    structure, \* the tip of muvue/structure
    tip,       \* the tips of the user's branches
    checkout,  \* the branch checked out, and whether the working tree is dirty
    closer,    \* what each close is doing
    inbox,     \* commits of inbox.structure_update_ready
    archived,  \* projects whose history is exported
    disturbed

closingVars == <<tables, closed, graph, structure, tip, checkout, closer,
                 inbox, archived, disturbed>>

gitVars  == <<graph, structure, tip, checkout>>
rowVars  == <<tables, closed, inbox, archived>>

Inactive == [at |-> "idle", content |-> {}, base |-> 0, old |-> NoRef, sha |-> 0]

At(k, step) == closer[k].at = step
GoesTo(k, step) == closer' = [closer EXCEPT ![k].at = step]
Gives(k) == closer' = [closer EXCEPT ![k] = Inactive]

Commit(parents, holds) ==
    [past |-> (UNION {graph[p].past : p \in parents}) \cup {Len(graph) + 1},
     holds |-> holds]

-----------------------------------------------------------------------------
(* close_project.                                                          *)

\* Without a write: a project with a task that is not done is refused here.
Previews(k) ==
    /\ At(k, "idle")
    /\ GoesTo(k, "rows")
    /\ UNCHANGED <<rowVars, gitVars, disturbed>>

\* The components, each in a transaction, and the decisions in one.
WritesRows(k) ==
    /\ At(k, "rows")
    /\ tables' = tables \cup {Closes[k]}
    /\ GoesTo(k, "contents")
    /\ UNCHANGED <<closed, inbox, archived, gitVars, disturbed>>

\* _structure_file_contents.
ReadsTables(k) ==
    /\ At(k, "contents")
    /\ closer' = [closer EXCEPT ![k].at = "base",
                                ![k].content = tables]
    /\ UNCHANGED <<rowVars, gitVars, disturbed>>

\* The parent: the tip of muvue/structure, or HEAD.
ReadsTip(k) ==
    /\ At(k, "base")
    /\ closer' = [closer EXCEPT ![k].at = "commit", ![k].old = structure,
                  ![k].base = IF structure = NoRef THEN tip[checkout.branch] ELSE structure]
    /\ UNCHANGED <<rowVars, gitVars, disturbed>>

\* Mutant of UpdateRefTakes: update-ref without the old value.
UpdateRefTakesAny(k) == TRUE

\* update-ref compares and swaps.
UpdateRefTakes(k) == structure = closer[k].old

\* The commit is made; when the ref has moved meanwhile, the close fails.
CommitsStructure(k) ==
    /\ At(k, "commit")
    /\ graph' = Append(graph, Commit({closer[k].base}, closer[k].content))
    /\ IF UpdateRefTakes(k)
       THEN /\ structure' = Len(graph')
            /\ closer' = [closer EXCEPT ![k].at = "checkout", ![k].sha = Len(graph')]
       ELSE Gives(k) /\ UNCHANGED structure
    /\ UNCHANGED <<rowVars, tip, checkout, disturbed>>

\* _maybe_fast_forward_main looks at the checkout,
ChecksCheckout(k) ==
    /\ At(k, "checkout")
    /\ GoesTo(k, IF checkout = [branch |-> "main", dirty |-> FALSE] THEN "merge" ELSE "announce")
    /\ UNCHANGED <<rowVars, gitVars, disturbed>>

Past(c) == graph[c].past

\* Mutant of MergeFails: the return code of the merge is not looked at.
MergeFailsNever == FALSE

\* Neither a fast-forward nor up to date.
MergeFails == tip[checkout.branch] \notin Past(structure) /\ structure \notin Past(tip[checkout.branch])

\* and merges what muvue/structure is by then into what is checked out by then.
MergesFastForward(k) ==
    /\ At(k, "merge")
    /\ GoesTo(k, IF MergeFails THEN "announce" ELSE "close")
    /\ tip' = IF tip[checkout.branch] \in Past(structure)
              THEN [tip EXCEPT ![checkout.branch] = structure] ELSE tip
    /\ UNCHANGED <<rowVars, graph, structure, checkout, disturbed>>

\* The inbox item, with or without a PR.
Announces(k) ==
    /\ At(k, "announce")
    /\ inbox' = inbox \cup {closer[k].sha}
    /\ GoesTo(k, "close")
    /\ UNCHANGED <<tables, closed, archived, gitVars, disturbed>>

\* set_phase, whatever the project's tasks and phase are by now.
ClosesProject(k) ==
    /\ At(k, "close")
    /\ closed' = closed \cup {Closes[k]}
    /\ GoesTo(k, "export")
    /\ UNCHANGED <<tables, inbox, archived, gitVars, disturbed>>

Exports(k) ==
    /\ At(k, "export")
    /\ archived' = archived \cup {Closes[k]}
    /\ GoesTo(k, "ended")
    /\ UNCHANGED <<tables, closed, inbox, gitVars, disturbed>>

\* The process dies, or a step raises; the command may be given again.
CloseFails(k) ==
    /\ ~At(k, "idle") /\ ~At(k, "ended")
    /\ disturbed < MaxDisturbed
    /\ disturbed' = disturbed + 1
    /\ Gives(k)
    /\ UNCHANGED <<rowVars, gitVars>>

-----------------------------------------------------------------------------
(* The user, and the other processes.                                      *)

UserCommits ==
    /\ disturbed < MaxDisturbed
    /\ disturbed' = disturbed + 1
    /\ graph' = Append(graph, Commit({tip[checkout.branch]}, graph[tip[checkout.branch]].holds))
    /\ tip' = [tip EXCEPT ![checkout.branch] = Len(graph')]
    /\ checkout' = [checkout EXCEPT !.dirty = FALSE]
    /\ UNCHANGED <<rowVars, structure, closer>>

ChecksOut ==
    /\ disturbed < MaxDisturbed
    /\ disturbed' = disturbed + 1
    /\ checkout' \in Checkouts \ {checkout}
    /\ UNCHANGED <<rowVars, graph, structure, tip, closer>>

-----------------------------------------------------------------------------
ClosingInit ==
    /\ tables = {} /\ closed = {} /\ inbox = {} /\ archived = {}
    /\ graph = <<[past |-> {1}, holds |-> {}]>>
    /\ structure = NoRef
    /\ tip = [main |-> 1, other |-> 1]
    /\ checkout = [branch |-> "main", dirty |-> FALSE]
    /\ closer = [k \in Closers |-> Inactive]
    /\ disturbed = 0

ClosingNext ==
    \/ \E k \in Closers :
           \/ Previews(k) \/ WritesRows(k)
           \/ ReadsTables(k) \/ ReadsTip(k) \/ CommitsStructure(k)
           \/ ChecksCheckout(k) \/ MergesFastForward(k) \/ Announces(k)
           \/ ClosesProject(k) \/ Exports(k) \/ CloseFails(k)
    \/ UserCommits \/ ChecksOut

ClosingSpec == ClosingInit /\ [][ClosingNext]_closingVars

-----------------------------------------------------------------------------
(* Properties.                                                             *)

\* The decisions of a closed project are in the history of muvue/structure, for
\* all that other closes did to the branch between the steps of this one.
ClosedIsOnStructure ==
    \A p \in closed :
        structure # NoRef /\ \E c \in Past(structure) : p \in graph[c].holds

\* A closed project's structure commit is on a branch of the user or the inbox
\* names it: none of them waits on muvue/structure with nobody told.
ClosedIsToldOf ==
    \A p \in closed :
        \E c \in DOMAIN graph :
            /\ p \in graph[c].holds
            /\ c \in inbox \cup Past(tip["main"]) \cup Past(tip["other"])
=============================================================================
