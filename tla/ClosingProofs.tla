---------------------------- MODULE ClosingProofs ----------------------------
(***************************************************************************)
(* A closed project's decisions are on muvue/structure, and somebody was   *)
(* told of them.  Both rest on what git guarantees of a commit graph: new  *)
(* commits leave the old ones alone, a commit's past holds its parents'    *)
(* past, and update-ref moves a branch only from the commit it names.      *)
(***************************************************************************)
EXTENDS Closing, TLAPS

\* The commit graph.
GraphTyped ==
    /\ graph \in Seq([past : SUBSET Nat, holds : SUBSET {Closes[k] : k \in Closers}])
    /\ tip \in [{"main", "other"} -> DOMAIN graph]
    /\ checkout \in Checkouts
    /\ structure \in DOMAIN graph \cup {NoRef}
    /\ tables \subseteq {Closes[k] : k \in Closers}

PastIsClosed ==
    \A d \in DOMAIN graph :
        /\ d \in Past(d) /\ Past(d) \subseteq DOMAIN graph
        /\ \A c \in Past(d) : Past(c) \subseteq Past(d)

\* What a close holds in its hands before it commits.
Committing == {"base", "commit"}

\* And the steps after its commit is on the branch, and after it told of it.
Committed == {"checkout", "merge", "announce", "close", "export", "ended"}
Told      == {"close", "export", "ended"}

CloserTyped ==
    closer \in [Closers -> [at : {"idle", "rows", "contents"} \cup Committing \cup Committed,
                            content : SUBSET {Closes[k] : k \in Closers},
                            base : Nat, old : Nat \cup {NoRef}, sha : Nat]]

\* A close commits its own rows, on top of the tip it has read.
Ready(k) ==
    /\ closer[k].at = "contents" => Closes[k] \in tables
    /\ closer[k].at \in Committing => Closes[k] \in closer[k].content
    /\ closer[k].at = "commit" =>
           /\ closer[k].base \in DOMAIN graph
           /\ closer[k].old # NoRef => closer[k].base = closer[k].old

OnStructure(c) == structure # NoRef /\ c \in Past(structure)
ToldOf(c) == c \in inbox \cup Past(tip["main"]) \cup Past(tip["other"])

\* Once it is there, it stays in the branch's past, and those who were told of
\* it still find it.
Kept(k) ==
    closer[k].at \in Committed =>
        /\ closer[k].sha \in DOMAIN graph
        /\ Closes[k] \in graph[closer[k].sha].holds
        /\ OnStructure(closer[k].sha)
        /\ closer[k].at \in Told => ToldOf(closer[k].sha)

EveryClose == \A k \in Closers : Ready(k) /\ Kept(k)

\* A closed project has such a commit, whatever became of the close.
ClosedIsKept ==
    \A p \in closed :
        \E c \in DOMAIN graph : p \in graph[c].holds /\ OnStructure(c) /\ ToldOf(c)

\* Inductive.
ClosingInv ==
    /\ GraphTyped /\ PastIsClosed
    /\ CloserTyped /\ EveryClose
    /\ ClosedIsKept

LEMMA ClosingInitInv == ClosingInit => ClosingInv
<1> SUFFICES ASSUME ClosingInit PROVE ClosingInv
  OBVIOUS
<1>1. DOMAIN graph = {1} /\ graph[1].past = {1}
  BY DEF ClosingInit
<1>2. GraphTyped
  BY <1>1 DEF ClosingInit, GraphTyped, Checkouts
<1>3. PastIsClosed
  BY <1>1 DEF PastIsClosed, Past
<1>4. CloserTyped
  BY DEF ClosingInit, CloserTyped, Inactive
<1> QED
  BY <1>2, <1>3, <1>4 DEF ClosingInit, ClosingInv, EveryClose, Ready, Kept, ClosedIsKept,
     Inactive, Committing, Committed

\* A commit with one parent.
LEMMA CommitOnParent ==
  ASSUME NEW base, NEW holds
  PROVE  Commit({base}, holds) = [past |-> Past(base) \cup {Len(graph) + 1}, holds |-> holds]
<1>1. UNION {graph[p].past : p \in {base}} = Past(base)
  BY DEF Past
<1>2. Commit({base}, holds).past = Past(base) \cup {Len(graph) + 1}
  BY <1>1 DEF Commit
<1>3. Commit({base}, holds) = [past |-> Commit({base}, holds).past, holds |-> holds]
  BY Zenon DEF Commit
<1> QED
  BY <1>2, <1>3

\* What appending it does to the graph.
LEMMA AppendKeepsGraph ==
  ASSUME ClosingInv, NEW base \in DOMAIN graph,
         NEW holds \in SUBSET {Closes[k] : k \in Closers},
         graph' = Append(graph, Commit({base}, holds))
  PROVE  /\ Len(graph') = Len(graph) + 1
         /\ DOMAIN graph' = DOMAIN graph \cup {Len(graph')}
         /\ Len(graph') \notin DOMAIN graph
         /\ graph' \in Seq([past : SUBSET Nat, holds : SUBSET {Closes[k] : k \in Closers}])
         /\ \A c \in DOMAIN graph : graph'[c] = graph[c]
         /\ graph'[Len(graph')].past = Past(base) \cup {Len(graph')}
         /\ graph'[Len(graph')].holds = holds
         /\ PastIsClosed'
<1> DEFINE new == Commit({base}, holds)
<1>1. /\ graph \in Seq([past : SUBSET Nat, holds : SUBSET {Closes[k] : k \in Closers}])
      /\ Len(graph) \in Nat /\ DOMAIN graph = 1 .. Len(graph)
  BY DEF ClosingInv, GraphTyped
<1>2. new = [past |-> Past(base) \cup {Len(graph) + 1}, holds |-> holds]
  BY CommitOnParent
<1> HIDE DEF new
<1>3. new \in [past : SUBSET Nat, holds : SUBSET {Closes[k] : k \in Closers}]
  <2>1. Past(base) \subseteq Nat
    BY <1>1 DEF ClosingInv, PastIsClosed
  <2>2. Past(base) \cup {Len(graph) + 1} \subseteq Nat
    BY <1>1, <2>1
  <2> QED
    BY <1>2, <2>2
<1>4. /\ graph' \in Seq([past : SUBSET Nat, holds : SUBSET {Closes[k] : k \in Closers}])
      /\ Len(graph') = Len(graph) + 1
      /\ DOMAIN graph' = 1 .. Len(graph) + 1
      /\ graph'[Len(graph) + 1] = new
      /\ \A c \in 1 .. Len(graph) : graph'[c] = graph[c]
  <2> DEFINE C == [past : SUBSET Nat, holds : SUBSET {Closes[k] : k \in Closers}]
  <2>1. graph' = Append(graph, new) /\ graph \in Seq(C) /\ new \in C
    BY <1>1, <1>3 DEF new
  <2> HIDE DEF C
  <2>2. /\ graph' \in Seq(C) /\ Len(graph') = Len(graph) + 1
        /\ DOMAIN graph' = 1 .. Len(graph) + 1
        /\ graph'[Len(graph) + 1] = new
        /\ \A c \in 1 .. Len(graph) : graph'[c] = graph[c]
    BY <2>1
  <2> QED
    BY <2>2 DEF C
<1>5. DOMAIN graph' = DOMAIN graph \cup {Len(graph')} /\ Len(graph') \notin DOMAIN graph
  BY <1>1, <1>4
<1>6. PastIsClosed'
  <2> SUFFICES ASSUME NEW d \in DOMAIN graph'
               PROVE  /\ d \in graph'[d].past /\ graph'[d].past \subseteq DOMAIN graph'
                      /\ \A c \in graph'[d].past : graph'[c].past \subseteq graph'[d].past
    BY DEF PastIsClosed, Past
  <2>1. CASE d \in DOMAIN graph
    BY <1>1, <1>4, <1>5, <2>1 DEF ClosingInv, PastIsClosed, Past
  <2>2. CASE d = Len(graph')
    <3>1. graph'[d].past = Past(base) \cup {d}
      BY <1>2, <1>4, <2>2
    <3>2. \A c \in Past(base) : c \in DOMAIN graph /\ graph'[c].past \subseteq Past(base)
      BY <1>1, <1>4 DEF ClosingInv, PastIsClosed, Past
    <3> QED
      BY <1>5, <2>2, <3>1, <3>2
  <2> QED
    BY <1>5, <2>1, <2>2
<1>7. graph'[Len(graph')] = [past |-> Past(base) \cup {Len(graph')}, holds |-> holds]
  BY <1>1, <1>2, <1>4
<1>8. /\ graph'[Len(graph')].past = Past(base) \cup {Len(graph')}
      /\ graph'[Len(graph')].holds = holds
  BY <1>7
<1>9. \A c \in DOMAIN graph : graph'[c] = graph[c]
  BY <1>1, <1>4
<1> QED
  BY <1>4, <1>5, <1>6, <1>8, <1>9, Zenon

\* Whoever has been told of a commit still is, as long as the tips keep theirs.
PastsGrow ==
    /\ \A c \in DOMAIN graph : c \in DOMAIN graph' /\ graph'[c] = graph[c]
    /\ \A c \in DOMAIN graph : OnStructure(c) => OnStructure(c)'
    /\ \A c \in DOMAIN graph : ToldOf(c) => ToldOf(c)'

\* A closed project stays kept by every step that closes no other.
LEMMA ClosedStaysKept ==
  ASSUME ClosingInv, PastsGrow, UNCHANGED closed
  PROVE  ClosedIsKept'
BY DEF ClosingInv, PastsGrow, ClosedIsKept

\* And a close that does not move is as it was.
LEMMA OthersStay ==
  ASSUME ClosingInv, PastsGrow, tables \subseteq tables',
         NEW k \in Closers, closer'[k] = closer[k]
  PROVE  Ready(k)' /\ Kept(k)'
<1>1. Ready(k)'
  BY DEF ClosingInv, EveryClose, Ready, PastsGrow
<1>2. ASSUME closer[k].at \in Committed
      PROVE  Kept(k)'
  <2> DEFINE c == closer[k].sha
  <2>1. /\ c \in DOMAIN graph /\ Closes[k] \in graph[c].holds /\ OnStructure(c)
        /\ closer[k].at \in Told => ToldOf(c)
    BY <1>2 DEF ClosingInv, EveryClose, Kept
  <2>2. /\ c \in DOMAIN graph' /\ graph'[c] = graph[c]
        /\ OnStructure(c)' /\ (ToldOf(c) => ToldOf(c)')
    BY <2>1 DEF PastsGrow
  <2> QED
    BY <2>1, <2>2 DEF Kept
<1> QED
  BY <1>1, <1>2 DEF Kept

\* A step of a close that leaves git and the closed projects alone.
Quiet(k) ==
    \/ Previews(k) \/ WritesRows(k) \/ ReadsTables(k) \/ ReadsTip(k)
    \/ ChecksCheckout(k) \/ Announces(k) \/ Exports(k) \/ CloseFails(k)

LEMMA QuietStepInv ==
  ASSUME ClosingInv, NEW k \in Closers, Quiet(k)
  PROVE  ClosingInv'
<1> USE DEF At, GoesTo, Gives, Committing, Committed, Told, gitVars, rowVars, Inactive
<1>1. /\ UNCHANGED <<graph, structure, tip, checkout, closed>> /\ inbox \subseteq inbox'
      /\ tables \subseteq tables'
  BY DEF Quiet, Previews, WritesRows, ReadsTables, ReadsTip, ChecksCheckout, Announces,
         Exports, CloseFails
<1>2. tables' \subseteq {Closes[j] : j \in Closers}
  BY DEF Quiet, Previews, WritesRows, ReadsTables, ReadsTip, ChecksCheckout, Announces,
         Exports, CloseFails, ClosingInv, GraphTyped
<1>3. CloserTyped'
  <2>1. CASE ReadsTables(k)
    BY <2>1 DEF ReadsTables, ClosingInv, GraphTyped, CloserTyped
  <2>2. CASE ReadsTip(k)
    <3>1. tip[checkout.branch] \in Nat /\ structure \in Nat \cup {NoRef}
      BY DEF ClosingInv, GraphTyped, Checkouts
    <3>2. \E b \in Nat, o \in Nat \cup {NoRef} :
             closer' = [closer EXCEPT ![k] = [@ EXCEPT !.at = "commit", !.old = o, !.base = b]]
      <4>1. CASE structure = NoRef
        BY <2>2, <3>1, <4>1 DEF ReadsTip
      <4>2. CASE structure # NoRef
        BY <2>2, <3>1, <4>2 DEF ReadsTip
      <4> QED
        BY <4>1, <4>2
    <3>3. PICK b \in Nat, o \in Nat \cup {NoRef} :
             closer' = [closer EXCEPT ![k] = [@ EXCEPT !.at = "commit", !.old = o, !.base = b]]
      BY <3>2
    <3>4. closer[k] \in [at : {"idle", "rows", "contents"} \cup Committing \cup Committed,
                         content : SUBSET {Closes[j] : j \in Closers},
                         base : Nat, old : Nat \cup {NoRef}, sha : Nat]
      BY DEF ClosingInv, CloserTyped
    <3>5. [closer[k] EXCEPT !.at = "commit", !.old = o, !.base = b]
             \in [at : {"idle", "rows", "contents"} \cup Committing \cup Committed,
                  content : SUBSET {Closes[j] : j \in Closers},
                  base : Nat, old : Nat \cup {NoRef}, sha : Nat]
      BY <3>4
    <3> QED
      BY <3>3, <3>5 DEF ClosingInv, CloserTyped
  <2>3. CASE CloseFails(k)
    BY <2>3 DEF CloseFails, ClosingInv, CloserTyped
  <2>4. CASE Previews(k) \/ WritesRows(k) \/ ChecksCheckout(k) \/ Announces(k) \/ Exports(k)
    BY <2>4 DEF Previews, WritesRows, ChecksCheckout, Announces, Exports, ClosingInv, CloserTyped
  <2> QED
    BY <2>1, <2>2, <2>3, <2>4 DEF Quiet
<1>4. \A j \in Closers \ {k} : closer'[j] = closer[j]
  BY DEF Quiet, Previews, WritesRows, ReadsTables, ReadsTip, ChecksCheckout, Announces,
         Exports, CloseFails, ClosingInv, CloserTyped
<1>5. GraphTyped' /\ PastIsClosed'
  BY <1>1, <1>2 DEF ClosingInv, GraphTyped, PastIsClosed, Past
<1>6. PastsGrow
  BY <1>1 DEF PastsGrow, OnStructure, ToldOf, Past
<1>7. Ready(k)'
  <2>1. CASE WritesRows(k)
    BY <2>1 DEF WritesRows, Ready, ClosingInv, CloserTyped
  <2>2. CASE ReadsTables(k)
    BY <2>2 DEF ReadsTables, Ready, ClosingInv, EveryClose, CloserTyped
  <2>3. CASE ReadsTip(k)
    <3>1. tip[checkout.branch] \in DOMAIN graph /\ structure \in DOMAIN graph \cup {NoRef}
      BY DEF ClosingInv, GraphTyped, Checkouts
    <3> QED
      BY <1>1, <2>3, <3>1 DEF ReadsTip, Ready, ClosingInv, EveryClose, CloserTyped
  <2>4. CASE Previews(k) \/ ChecksCheckout(k) \/ Announces(k) \/ Exports(k) \/ CloseFails(k)
    BY <2>4 DEF Previews, ChecksCheckout, Announces, Exports, CloseFails, Ready,
                ClosingInv, CloserTyped
  <2> QED
    BY <2>1, <2>2, <2>3, <2>4 DEF Quiet
<1>8. Kept(k)'
  <2>1. CASE ChecksCheckout(k) \/ Announces(k) \/ Exports(k)
    <3>1. /\ closer[k].at \in Committed /\ closer'[k].sha = closer[k].sha
          /\ closer'[k].at \in Told => closer[k].at \in Told \/ closer[k].sha \in inbox'
      BY <2>1 DEF ChecksCheckout, Announces, Exports, ClosingInv, CloserTyped
    <3>2. Kept(k)
      BY DEF ClosingInv, EveryClose
    <3> QED
      BY <1>1, <3>1, <3>2 DEF Kept, OnStructure, ToldOf, Past
  <2>2. CASE \/ Previews(k) \/ WritesRows(k) \/ ReadsTables(k) \/ ReadsTip(k)
             \/ CloseFails(k)
    BY <2>2 DEF Previews, WritesRows, ReadsTables, ReadsTip, CloseFails, Kept,
                ClosingInv, CloserTyped
  <2> QED
    BY <2>1, <2>2 DEF Quiet
<1> QED
  BY <1>1, <1>3, <1>4, <1>5, <1>6, <1>7, <1>8, ClosedStaysKept, OthersStay
     DEF ClosingInv, EveryClose

\* The commit: it takes the branch, or the close fails.
LEMMA CommitStepInv ==
  ASSUME ClosingInv, NEW k \in Closers, CommitsStructure(k)
  PROVE  ClosingInv'
<1> USE DEF At, GoesTo, Gives, Committing, Committed, Told, gitVars, rowVars, Inactive
<1> DEFINE base == closer[k].base
           holds == closer[k].content
           new == Len(graph')
<1>1. /\ base \in DOMAIN graph /\ holds \in SUBSET {Closes[j] : j \in Closers}
      /\ closer[k].old # NoRef => base = closer[k].old
      /\ Closes[k] \in holds
      /\ graph' = Append(graph, Commit({base}, holds))
      /\ UNCHANGED <<tables, closed, inbox, tip, checkout>>
  BY DEF CommitsStructure, ClosingInv, EveryClose, Ready, CloserTyped
<1>2. /\ new = Len(graph) + 1 /\ new \in DOMAIN graph'
      /\ DOMAIN graph' = DOMAIN graph \cup {new}
      /\ graph' \in Seq([past : SUBSET Nat, holds : SUBSET {Closes[j] : j \in Closers}])
      /\ \A c \in DOMAIN graph : graph'[c] = graph[c]
      /\ graph'[new].past = Past(base) \cup {new} /\ graph'[new].holds = holds
      /\ PastIsClosed'
  BY <1>1, AppendKeepsGraph
<1>3. \/ structure = closer[k].old /\ structure' = new
         /\ closer' = [closer EXCEPT ![k].at = "checkout", ![k].sha = new]
      \/ structure' = structure /\ closer' = [closer EXCEPT ![k] = Inactive]
  BY DEF CommitsStructure, UpdateRefTakes
<1>4. new \in Nat
  BY <1>2 DEF ClosingInv, GraphTyped
<1> HIDE DEF base, holds, new
<1>5. GraphTyped'
  BY <1>1, <1>2, <1>3 DEF ClosingInv, GraphTyped
<1>6. CloserTyped'
  BY <1>3, <1>4, ClosingAssumption DEF ClosingInv, CloserTyped
<1>7. PastsGrow
  <2>1. \A c \in DOMAIN graph : OnStructure(c) => OnStructure(c)'
    <3> SUFFICES ASSUME NEW c \in DOMAIN graph, OnStructure(c)
                 PROVE  OnStructure(c)'
      OBVIOUS
    <3>1. structure \in DOMAIN graph /\ structure # NoRef /\ c \in graph[structure].past
      BY DEF OnStructure, Past, ClosingInv, GraphTyped
    <3>2. CASE structure' = structure
      BY <1>2, <3>1, <3>2 DEF OnStructure, Past
    <3>3. CASE structure = closer[k].old /\ structure' = new
      BY <1>1, <1>2, <1>4, <3>1, <3>3, ClosingAssumption DEF OnStructure, Past
    <3> QED
      BY <1>3, <3>2, <3>3
  <2>2. tip["main"] \in DOMAIN graph /\ tip["other"] \in DOMAIN graph
    BY DEF ClosingInv, GraphTyped
  <2> QED
    BY <1>1, <1>2, <2>1, <2>2 DEF PastsGrow, ToldOf, Past
<1>8. Ready(k)' /\ Kept(k)'
  <2>1. CASE structure' = structure /\ closer' = [closer EXCEPT ![k] = Inactive]
    BY <2>1 DEF Ready, Kept, ClosingInv, CloserTyped
  <2>2. CASE structure' = new /\ closer' = [closer EXCEPT ![k].at = "checkout", ![k].sha = new]
    <3>1. closer'[k].at = "checkout" /\ closer'[k].sha = new
      BY <2>2 DEF ClosingInv, CloserTyped
    <3>2. new # NoRef
      BY <1>4, ClosingAssumption
    <3> QED
      BY <1>1, <1>2, <2>2, <3>1, <3>2 DEF Ready, Kept, OnStructure, Past
  <2> QED
    BY <1>3, <2>1, <2>2
<1>9. \A j \in Closers \ {k} : closer'[j] = closer[j]
  BY <1>3 DEF ClosingInv, CloserTyped
<1> QED
  BY <1>1, <1>2, <1>5, <1>6, <1>7, <1>8, <1>9, ClosedStaysKept, OthersStay
     DEF ClosingInv, EveryClose

\* A branch of the user moves to a commit whose past holds the old tip's.
LEMMA TipsGrow ==
  ASSUME ClosingInv, UNCHANGED <<structure, inbox>>,
         \A c \in DOMAIN graph : c \in DOMAIN graph' /\ graph'[c] = graph[c],
         \A b \in {"main", "other"} : Past(tip[b]) \subseteq graph'[tip'[b]].past
  PROVE  PastsGrow
<1>1. structure \in DOMAIN graph \cup {NoRef}
  BY DEF ClosingInv, GraphTyped
<1> QED
  BY <1>1 DEF PastsGrow, OnStructure, ToldOf, Past

LEMMA FastForwardInv ==
  ASSUME ClosingInv, NEW k \in Closers, MergesFastForward(k)
  PROVE  ClosingInv'
<1> USE DEF At, GoesTo, Gives, Committing, Committed, Told, gitVars, rowVars
<1> DEFINE b == checkout.branch
<1>1. /\ UNCHANGED <<graph, structure, checkout, tables, closed, inbox>>
      /\ b \in {"main", "other"} /\ tip[b] \in DOMAIN graph
      /\ closer[k].at = "merge"
      /\ closer' = [closer EXCEPT ![k].at = IF MergeFails THEN "announce" ELSE "close"]
      /\ tip' = IF tip[b] \in Past(structure) THEN [tip EXCEPT ![b] = structure] ELSE tip
  BY DEF MergesFastForward, ClosingInv, GraphTyped, Checkouts
<1>2. Kept(k) /\ Ready(k)
  BY DEF ClosingInv, EveryClose
<1>3. structure \in DOMAIN graph /\ closer[k].sha \in Past(structure)
  BY <1>1, <1>2 DEF Kept, OnStructure, ClosingInv, GraphTyped
<1>4. /\ \A c \in Past(structure) : Past(c) \subseteq Past(structure)
      /\ \A c \in Past(tip[b]) : Past(c) \subseteq Past(tip[b])
  BY <1>1, <1>3 DEF ClosingInv, PastIsClosed
<1>5. GraphTyped'
  BY <1>1, <1>3 DEF ClosingInv, GraphTyped
<1>6. PastIsClosed'
  BY <1>1 DEF ClosingInv, PastIsClosed, Past
<1>7. PastsGrow
  <2>1. \A d \in {"main", "other"} : Past(tip[d]) \subseteq graph'[tip'[d]].past
    BY <1>1, <1>4 DEF Past, ClosingInv, GraphTyped
  <2> QED
    BY <1>1, <2>1, TipsGrow
<1>8. CloserTyped'
  BY <1>1 DEF ClosingInv, CloserTyped
<1>9. /\ closer'[k].sha = closer[k].sha
      /\ closer'[k].at = IF MergeFails THEN "announce" ELSE "close"
      /\ \A j \in Closers \ {k} : closer'[j] = closer[j]
  BY <1>1 DEF ClosingInv, CloserTyped
\* Where git took the merge, the tip's past has the commit.
<1>10. ~MergeFails => closer[k].sha \in Past(tip'[b])
  BY <1>1, <1>3, <1>4 DEF MergeFails, ClosingInv, GraphTyped
<1>11. Kept(k)' /\ Ready(k)'
  <2>1. Ready(k)'
    BY <1>9 DEF Ready
  <2>2. ~MergeFails => ToldOf(closer[k].sha)'
    BY <1>1, <1>10 DEF ToldOf, Past
  <2> QED
    BY <1>1, <1>2, <1>9, <2>1, <2>2 DEF Kept, OnStructure, Past
<1> QED
  BY <1>1, <1>5, <1>6, <1>7, <1>8, <1>9, <1>11, ClosedStaysKept, OthersStay
     DEF ClosingInv, EveryClose

\* set_phase: the close has told of its commit.
LEMMA ClosesProjectInv ==
  ASSUME ClosingInv, NEW k \in Closers, ClosesProject(k)
  PROVE  ClosingInv'
<1> USE DEF At, GoesTo, Committing, Committed, Told, gitVars
<1> DEFINE c == closer[k].sha
<1>1. /\ UNCHANGED <<graph, structure, tip, checkout, tables, inbox>>
      /\ closed' = closed \cup {Closes[k]}
      /\ closer[k].at = "close" /\ closer' = [closer EXCEPT ![k].at = "export"]
  BY DEF ClosesProject
<1>2. /\ c \in DOMAIN graph /\ Closes[k] \in graph[c].holds
      /\ OnStructure(c) /\ ToldOf(c)
  BY <1>1 DEF ClosingInv, EveryClose, Kept
<1>3. PastsGrow
  BY <1>1 DEF PastsGrow, OnStructure, ToldOf, Past
<1>4. GraphTyped' /\ PastIsClosed' /\ CloserTyped'
  BY <1>1 DEF ClosingInv, GraphTyped, PastIsClosed, Past, CloserTyped
<1>5. /\ closer'[k].sha = c /\ closer'[k].at = "export"
      /\ \A j \in Closers \ {k} : closer'[j] = closer[j]
  BY <1>1 DEF ClosingInv, CloserTyped
<1>6. Ready(k)' /\ Kept(k)'
  BY <1>1, <1>2, <1>5 DEF Ready, Kept, OnStructure, ToldOf, Past
<1>7. ClosedIsKept'
  <2> SUFFICES ASSUME NEW p \in closed'
               PROVE  \E d \in DOMAIN graph' :
                          p \in graph'[d].holds /\ OnStructure(d)' /\ ToldOf(d)'
    BY DEF ClosedIsKept
  <2>1. CASE p = Closes[k]
    <3>1. PICK d \in DOMAIN graph : d = c
      BY <1>2
    <3>2. d \in DOMAIN graph' /\ p \in graph'[d].holds /\ OnStructure(d)' /\ ToldOf(d)'
      BY <1>1, <1>2, <2>1, <3>1 DEF OnStructure, ToldOf, Past
    <3> QED
      BY <3>2
  <2>2. CASE p \in closed
    <3>1. PICK d \in DOMAIN graph : p \in graph[d].holds /\ OnStructure(d) /\ ToldOf(d)
      BY <2>2 DEF ClosingInv, ClosedIsKept
    <3> QED
      BY <1>3, <3>1 DEF PastsGrow
  <2> QED
    BY <1>1, <2>1, <2>2
<1> QED
  BY <1>1, <1>3, <1>4, <1>5, <1>6, <1>7, OthersStay DEF ClosingInv, EveryClose

LEMMA UserStepInv ==
  ASSUME ClosingInv, UserCommits \/ ChecksOut
  PROVE  ClosingInv'
<1> USE DEF gitVars, rowVars
<1> DEFINE b == checkout.branch
           new == Len(graph')
<1>1. CASE ChecksOut
  <2>1. /\ UNCHANGED <<graph, structure, tip, tables, closed, inbox, closer>>
        /\ checkout' \in Checkouts
    BY <1>1 DEF ChecksOut
  <2>2. PastsGrow
    BY <2>1 DEF PastsGrow, OnStructure, ToldOf, Past
  <2>3. GraphTyped' /\ PastIsClosed' /\ CloserTyped'
    BY <2>1 DEF ClosingInv, GraphTyped, PastIsClosed, Past, CloserTyped
  <2> QED
    BY <2>1, <2>2, <2>3, ClosedStaysKept, OthersStay DEF ClosingInv, EveryClose
<1>2. CASE UserCommits
  <2>1. b \in {"main", "other"} /\ tip[b] \in DOMAIN graph
    BY DEF ClosingInv, GraphTyped, Checkouts
  <2>2. graph[tip[b]].holds \in SUBSET {Closes[j] : j \in Closers}
    <3> DEFINE C == [past : SUBSET Nat, holds : SUBSET {Closes[j] : j \in Closers}]
    <3>1. graph \in Seq(C)
      BY DEF ClosingInv, GraphTyped
    <3>2. graph[tip[b]] \in C
      <4> HIDE DEF C
      <4> QED
        BY <2>1, <3>1
    <3> QED
      BY <3>2
  <2>3. /\ graph' = Append(graph, Commit({tip[b]}, graph[tip[b]].holds))
        /\ tip' = [tip EXCEPT ![b] = new]
        /\ checkout' = [checkout EXCEPT !.dirty = FALSE]
        /\ UNCHANGED <<structure, tables, closed, inbox, closer>>
    BY <1>2 DEF UserCommits
  <2>4. /\ new \in DOMAIN graph' /\ DOMAIN graph' = DOMAIN graph \cup {new}
        /\ graph' \in Seq([past : SUBSET Nat, holds : SUBSET {Closes[j] : j \in Closers}])
        /\ \A c \in DOMAIN graph : graph'[c] = graph[c]
        /\ graph'[new].past = Past(tip[b]) \cup {new}
        /\ PastIsClosed'
    BY <2>1, <2>2, <2>3, AppendKeepsGraph
  <2> HIDE DEF new
  <2>5. \A d \in {"main", "other"} : Past(tip[d]) \subseteq graph'[tip'[d]].past
    BY <2>1, <2>3, <2>4 DEF Past, ClosingInv, GraphTyped
  <2>6. PastsGrow
    BY <2>3, <2>4, <2>5, TipsGrow
  <2>7. checkout' \in Checkouts
    <3>1. CASE checkout = [branch |-> "other", dirty |-> FALSE]
      BY <2>3, <3>1 DEF Checkouts
    <3>2. CASE checkout = [branch |-> "main", dirty |-> FALSE]
      BY <2>3, <3>2 DEF Checkouts
    <3>3. CASE checkout = [branch |-> "main", dirty |-> TRUE]
      BY <2>3, <3>3 DEF Checkouts
    <3> QED
      BY <3>1, <3>2, <3>3 DEF ClosingInv, GraphTyped, Checkouts
  <2>8. GraphTyped' /\ CloserTyped'
    BY <2>1, <2>3, <2>4, <2>7 DEF ClosingInv, GraphTyped, CloserTyped
  <2> QED
    BY <2>3, <2>4, <2>6, <2>8, ClosedStaysKept, OthersStay DEF ClosingInv, EveryClose
<1> QED
  BY <1>1, <1>2

LEMMA ClosingStepInv == ClosingInv /\ [ClosingNext]_closingVars => ClosingInv'
<1> SUFFICES ASSUME ClosingInv, [ClosingNext]_closingVars
             PROVE  ClosingInv'
  OBVIOUS
<1>1. CASE UNCHANGED closingVars
  <2>1. UNCHANGED <<graph, structure, tip, checkout, tables, closed, inbox, closer>>
    BY <1>1 DEF closingVars
  <2>2. PastsGrow
    BY <2>1 DEF PastsGrow, OnStructure, ToldOf, Past
  <2>3. GraphTyped' /\ PastIsClosed' /\ CloserTyped'
    BY <2>1 DEF ClosingInv, GraphTyped, PastIsClosed, Past, CloserTyped
  <2> QED
    BY <2>1, <2>2, <2>3, ClosedStaysKept, OthersStay DEF ClosingInv, EveryClose
<1> QED
  BY <1>1, QuietStepInv, CommitStepInv, FastForwardInv, ClosesProjectInv, UserStepInv
     DEF ClosingNext, Quiet

\* For any number of closes, failures and commits of the user: a closed
\* project's decisions are in the past of muvue/structure.
THEOREM ClosedStaysOnStructure == ClosingSpec => []ClosedIsOnStructure
<1>1. ClosingInv => ClosedIsOnStructure
  <2> SUFFICES ASSUME ClosingInv, NEW p \in closed
               PROVE  structure # NoRef /\ \E c \in Past(structure) : p \in graph[c].holds
    BY DEF ClosedIsOnStructure
  <2> QED
    BY DEF ClosingInv, ClosedIsKept, OnStructure
<1> QED
  BY <1>1, ClosingInitInv, ClosingStepInv, PTL DEF ClosingSpec

\* ... and on a branch of the user, or the inbox names the commit.
THEOREM ClosedWasToldOf == ClosingSpec => []ClosedIsToldOf
<1>1. ClosingInv => ClosedIsToldOf
  BY DEF ClosingInv, ClosedIsKept, ClosedIsToldOf, ToldOf
<1> QED
  BY <1>1, ClosingInitInv, ClosingStepInv, PTL DEF ClosingSpec
=============================================================================
