---------------------------- MODULE ReplayProofs ----------------------------
(* The log replays to the tables, for every log: a fold is a function of   *)
(* the positions of the log, and a verb adds one turn to it.               *)
EXTENDS Replay, FiniteSetTheorems, SequenceTheorems, WellFoundedInduction, TLAPS

\* A non-empty set of numbers has a least member.
LEMMA SmallestNumber ==
    ASSUME NEW T, T \subseteq Nat, T # {}
    PROVE  \E x \in T : \A y \in T : x <= y
<1>1. \E x \in T : \A y \in T : ~(<<y, x>> \in OpToRel(<, Nat))
  BY NatLessThanWellFounded, WFMin
<1>2. PICK x \in T : \A y \in T : ~(y < x)
  BY <1>1 DEF OpToRel
<1>3. QED
  BY <1>2

-----------------------------------------------------------------------------
(* The fold.                                                               *)

\* One turn of the loop, at a position of a log.
Turn(rows, history, events, i) == IF i \in events THEN Folded(rows, history[i]) ELSE rows

\* A function that holds the rows after each event.
Replays(f, history, events, n) ==
    /\ f[0] = Empty
    /\ \A i \in 1 .. n : f[i] = Turn(f[i - 1], history, events, i)

\* The loop runs to the end of every log.
LEMMA ReplayExists ==
    ASSUME NEW history, NEW events, NEW n \in Nat
    PROVE  \E f : Replays(f, history, events, n)
<1> DEFINE T == {k \in Nat : ~\E f : Replays(f, history, events, k)}
<1>1. 0 \notin T
  <2>1. Replays([i \in {0} |-> Empty], history, events, 0)
    BY DEF Replays
  <2>2. QED
    BY <2>1
<1>2. T = {}
  <2>1. SUFFICES ASSUME T # {} PROVE FALSE
    OBVIOUS
  <2>2. PICK k \in T : \A y \in T : k <= y
    <3>1. T \subseteq Nat
      OBVIOUS
    <3>2. QED
      BY <2>1, <3>1, SmallestNumber
  <2>3. PICK m \in Nat : k = m + 1
    <3>1. k \in Nat /\ k # 0
      BY <1>1, <2>2
    <3>2. k - 1 \in Nat
      BY <3>1
    <3>3. QED
      BY <3>1, <3>2
  <2>4. PICK f : Replays(f, history, events, m)
    BY <2>2, <2>3
  <2>5. PICK last : last = Turn(f[m], history, events, m + 1)
    OBVIOUS
  <2>6. PICK g : g = [i \in 0 .. m + 1 |-> IF i = m + 1 THEN last ELSE f[i]]
    OBVIOUS
  <2>7. g[0] = Empty /\ g[m + 1] = last /\ \A i \in 0 .. m : g[i] = f[i]
    BY <2>4, <2>6 DEF Replays
  <2>8. ASSUME NEW i \in 1 .. m + 1
        PROVE  g[i] = Turn(g[i - 1], history, events, i)
    <3>1. CASE i = m + 1
      <4>1. i - 1 = m /\ g[m] = f[m]
        BY <2>7, <3>1
      <4>2. QED
        BY <2>5, <2>7, <3>1, <4>1
    <3>2. CASE i # m + 1
      <4>1. i \in 1 .. m /\ i - 1 \in 0 .. m /\ i \in 0 .. m
        BY <3>2
      <4>2. QED
        BY <2>4, <2>7, <4>1 DEF Replays
    <3>3. QED
      BY <3>1, <3>2
  <2>9. Replays(g, history, events, m + 1)
    BY <2>7, <2>8 DEF Replays
  <2>10. QED
    BY <2>2, <2>3, <2>9
<1>3. QED
  BY <1>2

SameEvents(history, events, history2, events2, n) ==
    \A i \in 1 .. n : history[i] = history2[i] /\ (i \in events <=> i \in events2)

\* What is replayed depends on the events alone.
LEMMA ReplayIsUnique ==
    ASSUME NEW history, NEW events, NEW history2, NEW events2, NEW n \in Nat,
           NEW f, NEW g,
           Replays(f, history, events, n), Replays(g, history2, events2, n),
           SameEvents(history, events, history2, events2, n)
    PROVE  \A i \in 0 .. n : f[i] = g[i]
<1> DEFINE T == {k \in Nat : k <= n /\ f[k] # g[k]}
<1>1. SUFFICES ASSUME T # {} PROVE FALSE
  OBVIOUS
<1>2. PICK k \in T : \A y \in T : k <= y
  <2>1. T \subseteq Nat
    OBVIOUS
  <2>2. QED
    BY <1>1, <2>1, SmallestNumber
<1>3. k # 0
  BY <1>2 DEF Replays
<1>4. k \in 1 .. n /\ k - 1 \in Nat /\ k - 1 <= n /\ ~(k <= k - 1)
  BY <1>2, <1>3
<1>5. f[k - 1] = g[k - 1]
  BY <1>2, <1>4
<1>6. f[k] = Turn(f[k - 1], history, events, k) /\ g[k] = Turn(g[k - 1], history2, events2, k)
  BY <1>4 DEF Replays
<1>7. Turn(f[k - 1], history, events, k) = Turn(g[k - 1], history2, events2, k)
  BY <1>4, <1>5 DEF Turn, SameEvents
<1>8. QED
  BY <1>2, <1>6, <1>7

\* RowsAfter, for any log.
RowsOf(history, events) ==
    LET rows[i \in 0 .. Len(history)] ==
            IF i = 0 THEN Empty
            ELSE IF i \in events THEN Folded(rows[i - 1], history[i])
            ELSE rows[i - 1]
    IN  rows

LEMMA RowsReplay ==
    ASSUME NEW history, NEW events, Len(history) \in Nat
    PROVE  Replays(RowsOf(history, events), history, events, Len(history))
<1>1. PICK n \in Nat : n = Len(history)
  OBVIOUS
<1>2. PICK f : Replays(f, history, events, n)
  BY ReplayExists
<1> DEFINE IsRows(rows) ==
        rows = [i \in 0 .. n |-> IF i = 0 THEN Empty
                                 ELSE IF i \in events THEN Folded(rows[i - 1], history[i])
                                 ELSE rows[i - 1]]
<1>3. PICK g : g = [i \in 0 .. n |-> f[i]]
  OBVIOUS
<1>4. IsRows(g)
  <2>1. ASSUME NEW i \in 0 .. n
        PROVE  f[i] = IF i = 0 THEN Empty
                      ELSE IF i \in events THEN Folded(g[i - 1], history[i])
                      ELSE g[i - 1]
    <3>1. CASE i = 0
      BY <1>2, <3>1 DEF Replays
    <3>2. CASE i # 0
      <4>1. i \in 1 .. n /\ i - 1 \in 0 .. n
        BY <3>2
      <4>2. f[i] = Turn(f[i - 1], history, events, i) /\ g[i - 1] = f[i - 1]
        BY <1>2, <1>3, <4>1 DEF Replays
      <4>3. QED
        BY <3>2, <4>2 DEF Turn
    <3>3. QED
      BY <3>1, <3>2
  <2>2. QED
    BY <1>3, <2>1
<1>5. RowsOf(history, events) = CHOOSE rows : IsRows(rows)
  BY <1>1 DEF RowsOf
<1>6. IsRows(RowsOf(history, events))
  BY <1>4, <1>5
<1>7. PICK h : h = RowsOf(history, events)
  OBVIOUS
<1>8. IsRows(h)
  BY <1>6, <1>7
<1>9. h[0] = Empty
  BY <1>8
<1>10. ASSUME NEW i \in 1 .. n PROVE h[i] = Turn(h[i - 1], history, events, i)
  BY <1>8, <1>10 DEF Turn
<1>11. QED
  BY <1>1, <1>7, <1>9, <1>10 DEF Replays

-----------------------------------------------------------------------------
(* Keys, rows and events.                                                  *)

LogEvents == [key : Keys \cup {<<"rebuild", 0>>}, project : Projects \cup {0},
              shape : {"row", "nested", "bare"}, value : Nat \cup BOOLEAN \cup {Absent}]

IsTable(rows) == rows = [k \in Keys |-> rows[k]]

LEMMA KeysAre ==
    ASSUME NEW k
    PROVE  k \in Keys
           <=> \/ \E p \in Projects : k \in {ProjectKey(p), RevisionKey(p), SpendKey(p)}
               \/ \E n \in Tasks : k \in {NodeKey(n), NoteKey(n), DepKey(n),
                                         CommitKey(n), TouchKey(n)}
               \/ k = ComponentKey
BY DEF Keys

LEMMA ProjectKeys ==
    ASSUME NEW p \in Projects
    PROVE  /\ ProjectKey(p) \in Keys /\ ProjectKey(p)[1] = "projects" /\ ProjectKey(p)[2] = p
           /\ RevisionKey(p) \in Keys /\ RevisionKey(p)[1] = "plan_revisions"
           /\ RevisionKey(p)[2] = p
           /\ SpendKey(p) \in Keys /\ SpendKey(p)[1] = "agent_spend" /\ SpendKey(p)[2] = p
<1>1. ProjectKey(p) \in Keys
  BY KeysAre
<1>2. RevisionKey(p) \in Keys
  BY KeysAre
<1>3. SpendKey(p) \in Keys
  BY KeysAre
<1>4. QED
  BY <1>1, <1>2, <1>3 DEF ProjectKey, RevisionKey, SpendKey

LEMMA TaskKeys ==
    ASSUME NEW n \in Tasks
    PROVE  /\ NodeKey(n) \in Keys /\ NodeKey(n)[1] = "nodes" /\ NodeKey(n)[2] = n
           /\ NoteKey(n) \in Keys /\ NoteKey(n)[1] = "notes" /\ NoteKey(n)[2] = n
           /\ DepKey(n) \in Keys /\ DepKey(n)[1] = "deps" /\ DepKey(n)[2] = n
           /\ CommitKey(n) \in Keys /\ CommitKey(n)[1] = "node_commits" /\ CommitKey(n)[2] = n
           /\ TouchKey(n) \in Keys /\ TouchKey(n)[1] = "actual_touches" /\ TouchKey(n)[2] = n
           /\ ProjectOf[n] \in Projects
<1>1. NodeKey(n) \in Keys /\ NoteKey(n) \in Keys /\ DepKey(n) \in Keys
  BY KeysAre
<1>2. CommitKey(n) \in Keys /\ TouchKey(n) \in Keys
  BY KeysAre
<1>3. QED
  BY <1>1, <1>2 DEF NodeKey, NoteKey, DepKey, CommitKey, TouchKey, Projects

LEMMA KeyKinds ==
    ASSUME NEW k \in Keys
    PROVE  /\ k[1] # "rebuild"
           /\ k[1] = "projects" => \E p \in Projects : k = ProjectKey(p)
           /\ k[1] = "nodes" => \E n \in Tasks : k = NodeKey(n)
           /\ k[1] = "node_commits" => \E n \in Tasks : k = CommitKey(n)
           /\ k[1] = "plan_revisions" => \E p \in Projects : k = RevisionKey(p)
<1> USE DEF ProjectKey, RevisionKey, SpendKey, NodeKey, NoteKey, DepKey, CommitKey, TouchKey,
            ComponentKey
<1>1. CASE \E p \in Projects : k \in {ProjectKey(p), RevisionKey(p), SpendKey(p)}
  BY <1>1
<1>2. CASE \E n \in Tasks : k \in {NodeKey(n), NoteKey(n), DepKey(n), CommitKey(n), TouchKey(n)}
  BY <1>2
<1>3. CASE k = ComponentKey
  BY <1>3
<1>4. QED
  BY <1>1, <1>2, <1>3, KeysAre

\* What a turn does to one row.
LEMMA PlainTurn ==
    ASSUME NEW rows, IsTable(rows), NEW e, NEW k \in Keys, e.key \in Keys,
           e.key[1] \notin {"agent_spend", "node_commits"}
    PROVE  Folded(rows, e)[k] = IF k = e.key THEN e.value ELSE rows[k]
<1>1. Folded(rows, e) = [rows EXCEPT ![e.key] = e.value]
  BY KeyKinds DEF Folded
<1>2. QED
  BY <1>1 DEF IsTable

LEMMA SpendTurn ==
    ASSUME NEW rows, IsTable(rows), NEW e, NEW k \in Keys, e.key \in Keys,
           e.key[1] = "agent_spend"
    PROVE  Folded(rows, e)[k] = IF k = e.key THEN Summed(rows[k], e.value) ELSE rows[k]
<1>1. Folded(rows, e) = [rows EXCEPT ![e.key] = Summed(rows[e.key], e.value)]
  BY DEF Folded
<1>2. QED
  BY <1>1 DEF IsTable

LEMMA CommitTurn ==
    ASSUME NEW rows, IsTable(rows), NEW e, NEW k \in Keys, NEW n \in Tasks,
           e.key = CommitKey(n)
    PROVE  Folded(rows, e)[k] =
             IF k = TouchKey(n) THEN 1
             ELSE IF k = CommitKey(n) /\ rows[k] = Absent THEN e.value ELSE rows[k]
<1>1. PICK c, m : c = CommitKey(n) /\ m = TouchKey(n)
  OBVIOUS
<1>2. c \in Keys /\ m \in Keys /\ c # m /\ c[1] = "node_commits" /\ TouchKey(c[2]) = m
  BY <1>1, TaskKeys
<1>3. PICK v : v = IF rows[c] = Absent THEN e.value ELSE rows[c]
  OBVIOUS
<1>4. Folded(rows, e) = [[rows EXCEPT ![c] = v] EXCEPT ![m] = 1]
  BY <1>1, <1>2, <1>3 DEF Folded
<1>5. rows = [x \in Keys |-> rows[x]]
  BY DEF IsTable
<1>6. Folded(rows, e)[k] = IF k = m THEN 1 ELSE IF k = c THEN v ELSE rows[k]
  BY <1>2, <1>4, <1>5
<1>7. QED
  BY <1>1, <1>3, <1>6

\* Every turn leaves a table, and what it makes of a row depends on that row.
LEMMA TurnsAlike ==
    ASSUME NEW e \in LogEvents
    PROVE  /\ \A rows : IsTable(rows) => IsTable(Folded(rows, e))
           /\ \A rows, rows2, k : /\ IsTable(rows) /\ IsTable(rows2) /\ k \in Keys
                                /\ rows[k] = rows2[k]
                => Folded(rows, e)[k] = Folded(rows2, e)[k]
           /\ \A rows, k : /\ IsTable(rows) /\ k \in Keys /\ k # e.key
                         /\ k[1] # "actual_touches"
                => Folded(rows, e)[k] = rows[k]
<1>1. CASE e.key = <<"rebuild", 0>>
  <2>1. \A rows : Folded(rows, e) = rows
    BY <1>1 DEF Folded
  <2>2. QED
    BY <2>1
<1>2. CASE e.key \in Keys /\ e.key[1] \notin {"agent_spend", "node_commits"}
  <2>1. \A rows : Folded(rows, e) = [rows EXCEPT ![e.key] = e.value]
    BY <1>2, KeyKinds DEF Folded
  <2>2. ASSUME NEW rows, IsTable(rows) PROVE IsTable(Folded(rows, e))
    BY <2>1, <2>2 DEF IsTable
  <2>3. QED
    BY <1>2, <2>2, PlainTurn
<1>3. CASE e.key \in Keys /\ e.key[1] = "agent_spend"
  <2>1. \A rows : Folded(rows, e) = [rows EXCEPT ![e.key] = Summed(rows[e.key], e.value)]
    BY <1>3, KeyKinds DEF Folded
  <2>2. ASSUME NEW rows, IsTable(rows) PROVE IsTable(Folded(rows, e))
    BY <2>1, <2>2 DEF IsTable
  <2>3. QED
    BY <1>3, <2>2, SpendTurn
<1>4. CASE e.key \in Keys /\ e.key[1] = "node_commits"
  <2>1. PICK n \in Tasks : e.key = CommitKey(n)
    BY <1>4, KeyKinds
  <2>2. ASSUME NEW rows, IsTable(rows) PROVE IsTable(Folded(rows, e))
    <3>1. PICK c, m : c = e.key /\ m = TouchKey(e.key[2])
      OBVIOUS
    <3>2. PICK v : v = IF rows[c] = Absent THEN e.value ELSE rows[c]
      OBVIOUS
    <3>3. Folded(rows, e) = [[rows EXCEPT ![c] = v] EXCEPT ![m] = 1]
      BY <1>4, <3>1, <3>2 DEF Folded
    <3>4. QED
      BY <2>2, <3>3 DEF IsTable
  <2>3. TouchKey(n)[1] = "actual_touches"
    BY TaskKeys
  <2>4. QED
    BY <2>1, <2>2, <2>3, CommitTurn
<1>5. QED
  BY <1>1, <1>2, <1>3, <1>4 DEF LogEvents

-----------------------------------------------------------------------------
(* What replaying the log gives.                                           *)

\* The replay of the log, and of an archive, as a fold over any log.
LEMMA ReplayedIs ==
    /\ Replayed(Events) = RowsOf(log, Events)[Len(log)]
    /\ Replayed(Events)' = RowsOf(log', Events')[Len(log')]
    /\ \A p \in Projects : /\ Replayed(Archive(p)) = RowsOf(log, Archive(p))[Len(log)]
                          /\ Replayed(Archive(p))' = RowsOf(log', Archive(p)')[Len(log')]
BY DEF Replayed, RowsAfter, RowsOf

\* An event more is a turn more, or none.
LEMMA RowsOfAppend ==
    ASSUME NEW X, NEW history \in Seq(X), NEW e \in X, NEW S, NEW S2,
           \A i \in 1 .. Len(history) : i \in S <=> i \in S2
    PROVE  RowsOf(Append(history, e), S2)[Len(Append(history, e))]
             = IF Len(history) + 1 \in S2 THEN Folded(RowsOf(history, S)[Len(history)], e)
                                         ELSE RowsOf(history, S)[Len(history)]
<1>1. PICK n \in Nat : n = Len(history)
  BY LenProperties
<1>2. PICK longer : longer = Append(history, e)
  OBVIOUS
<1>3. /\ Len(longer) = n + 1 /\ longer[n + 1] = e
      /\ \A i \in 1 .. n : longer[i] = history[i]
  BY <1>1, <1>2, AppendProperties
<1>4. PICK f, g : f = RowsOf(history, S) /\ g = RowsOf(longer, S2)
  OBVIOUS
<1>5. Replays(f, history, S, n) /\ Replays(g, longer, S2, n + 1)
  <2>1. Replays(RowsOf(history, S), history, S, Len(history))
    BY <1>1, RowsReplay
  <2>2. Len(longer) \in Nat
    BY <1>3
  <2>3. Replays(RowsOf(longer, S2), longer, S2, Len(longer))
    BY <2>2, RowsReplay
  <2>4. QED
    BY <1>1, <1>2, <1>3, <1>4, <2>1, <2>3
<1>6. Replays(g, longer, S2, n)
  BY <1>5 DEF Replays
<1>7. \A i \in 0 .. n : f[i] = g[i]
  <2>1. SameEvents(history, S, longer, S2, n)
    BY <1>1, <1>2, <1>3 DEF SameEvents
  <2>2. Replays(f, history, S, n)
    BY <1>5
  <2>3. QED
    BY <1>6, <2>1, <2>2, ReplayIsUnique
<1>8. f[n] = g[n]
  BY <1>1, <1>7
<1>9. g[n + 1] = Turn(g[n], longer, S2, n + 1)
  <2>1. n + 1 \in 1 .. n + 1 /\ (n + 1) - 1 = n
    OBVIOUS
  <2>2. QED
    BY <1>5, <2>1 DEF Replays
<1>10. QED
  BY <1>1, <1>2, <1>3, <1>4, <1>8, <1>9 DEF Turn

LEMMA EventFolds ==
    ASSUME log \in Seq(LogEvents), NEW e \in LogEvents, log' = Append(log, e)
    PROVE  /\ log' \in Seq(LogEvents)
           /\ Replayed(Events)' = Folded(Replayed(Events), e)
           /\ Raises(Events)' <=> (Raises(Events) \/ e.shape = "bare")
           /\ \A p \in Projects :
                 /\ Replayed(Archive(p))' = IF e.project = p THEN Folded(Replayed(Archive(p)), e)
                                            ELSE Replayed(Archive(p))
                 /\ Raises(Archive(p))'
                       <=> (Raises(Archive(p)) \/ (e.project = p /\ e.shape = "bare"))
<1>1. PICK h, h2, n : h = log /\ h2 = log' /\ n = Len(log)
  OBVIOUS
<1>2. /\ h \in Seq(LogEvents) /\ h2 = Append(h, e) /\ n = Len(h) /\ n \in Nat
      /\ h2 \in Seq(LogEvents) /\ Len(h2) = n + 1 /\ h2[n + 1] = e
      /\ \A i \in 1 .. n : h2[i] = h[i]
  BY <1>1, AppendProperties, LenProperties
<1>3. DOMAIN h = 1 .. n /\ DOMAIN h2 = 1 .. n + 1
  BY <1>2, LenProperties
<1>4. PICK E, E2 : E = Events /\ E2 = Events'
  OBVIOUS
<1>5. E = 1 .. n /\ E2 = 1 .. n + 1
  BY <1>1, <1>3, <1>4 DEF Events
<1>6. Replayed(Events)' = Folded(Replayed(Events), e)
  <2>1. \A i \in 1 .. n : i \in E <=> i \in E2
    BY <1>2, <1>5
  <2>2. n + 1 \in E2
    BY <1>2, <1>5
  <2>3. RowsOf(h2, E2)[Len(h2)] = Folded(RowsOf(h, E)[Len(h)], e)
    BY <1>2, <2>1, <2>2, RowsOfAppend
  <2>4. QED
    BY <1>1, <1>4, <2>3, ReplayedIs
<1>7. Raises(Events)' <=> (Raises(Events) \/ e.shape = "bare")
  <2>1. Raises(Events) <=> \E i \in 1 .. n : h[i].shape = "bare"
    BY <1>1, <1>4, <1>5 DEF Raises
  <2>2. Raises(Events)' <=> \E i \in 1 .. n + 1 : h2[i].shape = "bare"
    BY <1>1, <1>4, <1>5 DEF Raises
  <2>3. \A i \in 1 .. n + 1 : i \in 1 .. n \/ i = n + 1
    BY <1>2
  <2>4. QED
    BY <1>2, <2>1, <2>2, <2>3
<1>8. ASSUME NEW p \in Projects
      PROVE  /\ Replayed(Archive(p))' = IF e.project = p THEN Folded(Replayed(Archive(p)), e)
                                        ELSE Replayed(Archive(p))
             /\ Raises(Archive(p))' <=> (Raises(Archive(p)) \/ (e.project = p /\ e.shape = "bare"))
  <2>1. PICK A, A2 : A = Archive(p) /\ A2 = Archive(p)'
    OBVIOUS
  <2>2. /\ A = {i \in 1 .. n : h[i].project = p}
        /\ A2 = {i \in 1 .. n + 1 : h2[i].project = p}
    BY <1>1, <1>4, <1>5, <2>1 DEF Archive
  <2>3. \A i \in 1 .. n : i \in A <=> i \in A2
    BY <1>2, <2>2
  <2>4. n + 1 \in A2 <=> e.project = p
    BY <1>2, <2>2
  <2>5. RowsOf(h2, A2)[Len(h2)] = IF e.project = p THEN Folded(RowsOf(h, A)[Len(h)], e)
                                  ELSE RowsOf(h, A)[Len(h)]
    BY <1>2, <2>3, <2>4, RowsOfAppend
  <2>6. Raises(Archive(p)) <=> \E i \in A : h[i].shape = "bare"
    BY <1>1, <2>1 DEF Raises
  <2>7. Raises(Archive(p))' <=> \E i \in A2 : h2[i].shape = "bare"
    BY <1>1, <2>1 DEF Raises
  <2>8. Raises(Archive(p))' <=> (Raises(Archive(p)) \/ (e.project = p /\ e.shape = "bare"))
    <3>1. \A i \in A2 : i \in A \/ i = n + 1
      BY <1>2, <2>2
    <3>2. \A i \in A : i \in A2 /\ h2[i] = h[i]
      BY <1>2, <2>2, <2>3
    <3>3. \A i \in A2 : i # n + 1 => h2[i] = h[i]
      BY <3>1, <3>2
    <3>4. QED
      BY <1>2, <2>4, <2>6, <2>7, <3>1, <3>2, <3>3
  <2>9. QED
    BY <1>1, <2>1, <2>5, <2>8, ReplayedIs
<1>9. QED
  BY <1>1, <1>2, <1>6, <1>7, <1>8

-----------------------------------------------------------------------------
(* The inductive invariant, and what a verb does.                          *)

\* What a project's archive must bring back.
OwnKeys(p) == {ProjectKey(p)} \cup {NodeKey(n) : n \in {m \in Tasks : ProjectOf[m] = p}}

ReplayTyped ==
    /\ log \in Seq(LogEvents)
    /\ IsTable(live) /\ IsTable(Replayed(Events))
    /\ \A p \in Projects : IsTable(Replayed(Archive(p)))

\* A repair keeps the revisions the log does not know: there is none.
RevisionsAreLogged ==
    \A p \in Projects :
        live[RevisionKey(p)] # Absent => Replayed(Events)[RevisionKey(p)] # Absent

\* Nothing in the other projects' events touches a project's own rows.
ArchivesAgree ==
    \A p \in Projects : \A k \in OwnKeys(p) :
        Replayed(Archive(p))[k] = Replayed(Events)[k]

ReplayInv ==
    ReplayTyped /\ RevisionsAreLogged /\ ArchivesAgree /\ ReplayIsLive /\ ArchiveIsLive

\* The event of a verb: its turn makes of the rows what the verb made of them; it
\* is of the project whose rows it changes; and no revision goes unrecorded.
VerbStep(e) ==
    /\ e \in LogEvents /\ log' = Append(log, e) /\ IsTable(live') /\ damaged' = damaged
    /\ \A rows, k :
          IsTable(rows) /\ k \in Keys /\ k[1] # "deps" /\ e.shape # "bare" /\ rows[k] = live[k]
              => Folded(rows, e)[k] = live'[k]
    /\ \A p \in Projects : \A k \in OwnKeys(p) :
          e.project # p => e.key # k /\ live'[k] = live[k]
    /\ \A p \in Projects :
          \/ e.key # RevisionKey(p) /\ live'[RevisionKey(p)] = live[RevisionKey(p)]
          \/ e.key = RevisionKey(p) /\ e.value # Absent

LEMMA OwnKeysAre ==
    ASSUME NEW p \in Projects, NEW k \in OwnKeys(p)
    PROVE  /\ k \in Keys /\ k[1] \in {"projects", "nodes"}
           /\ \A q \in Projects : k = ProjectKey(q) => q = p
           /\ \A n \in Tasks : k = NodeKey(n) => ProjectOf[n] = p
<1>1. CASE k = ProjectKey(p)
  BY <1>1, ProjectKeys, TaskKeys
<1>2. CASE \E n \in Tasks : ProjectOf[n] = p /\ k = NodeKey(n)
  BY <1>2, ProjectKeys, TaskKeys
<1>3. QED
  BY <1>1, <1>2 DEF OwnKeys

\* A row that is put, and an event with that row.
LEMMA PutStep ==
    ASSUME ReplayTyped, NEW key \in Keys, NEW project \in Projects \cup {0},
           NEW shape \in {"row", "nested"}, NEW value \in Nat \cup BOOLEAN,
           key[1] \notin {"agent_spend", "node_commits"},
           key[1] = "plan_revisions" => value \in BOOLEAN,
           \A p \in Projects : key \in OwnKeys(p) => project = p,
           Verb(key, project, shape, value, Put(key, value))
    PROVE  \E e : VerbStep(e)
<1>1. PICK e : e = [key |-> key, project |-> project, shape |-> shape, value |-> value]
  OBVIOUS
<1>2. /\ log' = Append(log, e) /\ live' = [live EXCEPT ![key] = value] /\ damaged' = damaged
  BY <1>1 DEF Verb, Records, Event, Put
<1>3. e \in LogEvents /\ e.key = key /\ e.value = value /\ e.project = project
  BY <1>1 DEF LogEvents
<1>4. /\ IsTable(live')
      /\ \A k \in Keys : live'[k] = IF k = key THEN value ELSE live[k]
  BY <1>2 DEF ReplayTyped, IsTable
<1>5. \A rows, k : IsTable(rows) /\ k \in Keys /\ rows[k] = live[k] => Folded(rows, e)[k] = live'[k]
  BY <1>3, <1>4, PlainTurn
<1>6. \A p \in Projects : \A k \in OwnKeys(p) :
        e.project # p => e.key # k /\ live'[k] = live[k]
  BY <1>3, <1>4, OwnKeysAre
<1>7. \A p \in Projects :
        \/ e.key # RevisionKey(p) /\ live'[RevisionKey(p)] = live[RevisionKey(p)]
        \/ e.key = RevisionKey(p) /\ e.value # Absent
  BY <1>3, <1>4, ProjectKeys, ReplayAssumption
<1>8. QED
  BY <1>2, <1>3, <1>4, <1>5, <1>6, <1>7 DEF VerbStep

LEMMA VerbsStep ==
    ASSUME ReplayTyped,
           \/ \E p \in Projects : \/ ProjectChanges(p) \/ ProjectLinked(p)
                                  \/ RevisionProposed(p) \/ RevisionApproved(p)
                                  \/ SpendRecorded(p, 1)
           \/ \E n \in Tasks : \/ CommitLinked(n) \/ AgentRequested(n) \/ NoteChanges(n)
                               \/ \E s \in {"row", "nested"} : NodeChanges(n, s)
                               \/ \E carries \in {0, 1} : DepAdded(n, carries)
           \/ ComponentChanges
    PROVE  \E e : VerbStep(e)
<1>1. ASSUME NEW key \in Keys, NEW project \in Projects \cup {0},
             NEW shape \in {"row", "nested"}, key[1] \in Snapshots,
             \A p \in Projects : key \in OwnKeys(p) => project = p,
             RowChanges(key, project, shape)
      PROVE  \E e : VerbStep(e)
  <2>1. PICK v \in {0, 1} : Verb(key, project, shape, v, Put(key, v))
    BY <1>1 DEF RowChanges
  <2>2. key[1] \notin {"agent_spend", "node_commits", "plan_revisions"}
    BY <1>1 DEF Snapshots
  <2>3. QED
    BY <1>1, <2>1, <2>2, PutStep
<1>2. ASSUME NEW p \in Projects, ProjectChanges(p) PROVE \E e : VerbStep(e)
  <2>1. /\ ProjectKey(p) \in Keys /\ ProjectKey(p)[1] \in Snapshots
        /\ \A q \in Projects : ProjectKey(p) \in OwnKeys(q) => p = q
    BY ProjectKeys, OwnKeysAre DEF Snapshots
  <2>2. QED
    BY <1>1, <1>2, <2>1 DEF ProjectChanges
<1>3. ASSUME NEW n \in Tasks, NEW s \in {"row", "nested"}, NodeChanges(n, s)
      PROVE  \E e : VerbStep(e)
  <2>1. /\ NodeKey(n) \in Keys /\ NodeKey(n)[1] \in Snapshots /\ ProjectOf[n] \in Projects
        /\ \A q \in Projects : NodeKey(n) \in OwnKeys(q) => ProjectOf[n] = q
    BY TaskKeys, OwnKeysAre DEF Snapshots
  <2>2. QED
    BY <1>1, <1>3, <2>1 DEF NodeChanges
<1>4. ASSUME NEW n \in Tasks, NoteChanges(n) PROVE \E e : VerbStep(e)
  <2>1. /\ NoteKey(n) \in Keys /\ NoteKey(n)[1] \in Snapshots /\ ProjectOf[n] \in Projects
        /\ \A q \in Projects : NoteKey(n) \in OwnKeys(q) => ProjectOf[n] = q
    BY TaskKeys, OwnKeysAre DEF Snapshots
  <2>2. QED
    BY <1>1, <1>4, <2>1 DEF NoteChanges
<1>5. CASE ComponentChanges
  <2>1. /\ ComponentKey \in Keys /\ ComponentKey[1] = "components"
        /\ \A q \in Projects : ComponentKey \in OwnKeys(q) => 0 = q
    BY KeysAre, OwnKeysAre DEF ComponentKey
  <2>2. QED
    BY <1>1, <1>5, <2>1 DEF ComponentChanges, Snapshots
<1>6. ASSUME NEW p \in Projects, RevisionProposed(p) \/ RevisionApproved(p)
      PROVE  \E e : VerbStep(e)
  <2>1. /\ RevisionKey(p) \in Keys /\ RevisionKey(p)[1] = "plan_revisions"
        /\ \A q \in Projects : RevisionKey(p) \in OwnKeys(q) => p = q
    BY ProjectKeys, OwnKeysAre
  <2>2. PICK v \in BOOLEAN : Verb(RevisionKey(p), p, "row", v, Put(RevisionKey(p), v))
    BY <1>6 DEF RevisionProposed, RevisionApproved
  <2>3. QED
    BY <2>1, <2>2, PutStep
<1>7. ASSUME NEW key \in Keys, NEW project \in Projects, key[1] \in {"projects", "nodes"},
             Verb(key, project, "bare", Absent, live),
             \A p \in Projects : key \in OwnKeys(p) => project = p
      PROVE  \E e : VerbStep(e)
  <2>1. PICK e : e = [key |-> key, project |-> project, shape |-> "bare", value |-> Absent]
    OBVIOUS
  <2>2. log' = Append(log, e) /\ live' = live /\ damaged' = damaged
    BY <1>7, <2>1 DEF Verb, Records, Event
  <2>3. e \in LogEvents /\ e.key = key /\ e.shape = "bare" /\ e.project = project
    BY <2>1 DEF LogEvents
  <2>4. \A p \in Projects : e.key # RevisionKey(p)
    BY <1>7, <2>3, ProjectKeys
  <2>5. QED
    BY <1>7, <2>2, <2>3, <2>4 DEF VerbStep, ReplayTyped
<1>8. ASSUME NEW p \in Projects, ProjectLinked(p) PROVE \E e : VerbStep(e)
  <2>1. /\ ProjectKey(p) \in Keys /\ ProjectKey(p)[1] = "projects"
        /\ \A q \in Projects : ProjectKey(p) \in OwnKeys(q) => p = q
    BY ProjectKeys, OwnKeysAre
  <2>2. QED
    BY <1>7, <1>8, <2>1 DEF ProjectLinked
<1>9. ASSUME NEW n \in Tasks, AgentRequested(n) PROVE \E e : VerbStep(e)
  <2>1. /\ NodeKey(n) \in Keys /\ NodeKey(n)[1] = "nodes" /\ ProjectOf[n] \in Projects
        /\ \A q \in Projects : NodeKey(n) \in OwnKeys(q) => ProjectOf[n] = q
    BY TaskKeys, OwnKeysAre
  <2>2. QED
    BY <1>7, <1>9, <2>1 DEF AgentRequested
<1>10. ASSUME NEW n \in Tasks, NEW carries \in {0, 1}, DepAdded(n, carries)
       PROVE  \E e : VerbStep(e)
  <2>1. PICK key, project : key = DepKey(n) /\ project = ProjectOf[n]
    OBVIOUS
  <2>2. /\ key \in Keys /\ key[1] = "deps" /\ project \in Projects
        /\ \A q \in Projects : key \notin OwnKeys(q)
        /\ \A q \in Projects : key # RevisionKey(q)
    BY <2>1, TaskKeys, ProjectKeys, OwnKeysAre
  <2>3. PICK e : e = [key |-> key, project |-> project, shape |-> "row", value |-> carries]
    OBVIOUS
  <2>4. /\ log' = Append(log, e) /\ damaged' = damaged
        /\ live' = live \/ live' = [live EXCEPT ![key] = carries]
    BY <1>10, <2>1, <2>3 DEF DepAdded, Verb, Records, Event, Ignored, Put
  <2>5. e \in LogEvents /\ e.key = key /\ e.shape = "row" /\ e.project = project /\ e.value = carries
    BY <2>2, <2>3 DEF LogEvents
  <2>6. IsTable(live') /\ \A k \in Keys : k # key => live'[k] = live[k]
    BY <2>4 DEF ReplayTyped, IsTable
  <2>7. \A rows, k : IsTable(rows) /\ k \in Keys /\ k[1] # "deps" /\ rows[k] = live[k]
                      => Folded(rows, e)[k] = live'[k]
    BY <2>2, <2>5, <2>6, PlainTurn
  <2>8. QED
    BY <2>2, <2>4, <2>5, <2>6, <2>7, ProjectKeys, OwnKeysAre DEF VerbStep
<1>11. ASSUME NEW n \in Tasks, CommitLinked(n) PROVE \E e : VerbStep(e)
  <2>1. PICK key, touch, project : key = CommitKey(n) /\ touch = TouchKey(n) /\ project = ProjectOf[n]
    OBVIOUS
  <2>2. /\ key \in Keys /\ key[1] = "node_commits" /\ project \in Projects
        /\ touch \in Keys /\ touch[1] = "actual_touches"
        /\ \A q \in Projects : key \notin OwnKeys(q) /\ touch \notin OwnKeys(q)
        /\ \A q \in Projects : key # RevisionKey(q) /\ touch # RevisionKey(q)
    BY <2>1, TaskKeys, ProjectKeys, OwnKeysAre
  <2>3. PICK e : e = [key |-> key, project |-> project, shape |-> "row", value |-> 1]
    OBVIOUS
  <2>4. /\ log' = Append(log, e) /\ damaged' = damaged
        /\ live' = [(IF live[key] = Absent THEN [live EXCEPT ![key] = 1] ELSE live)
                      EXCEPT ![touch] = 1]
    BY <1>11, <2>1, <2>3 DEF CommitLinked, Verb, Records, Event, Ignored, Put
  <2>5. e \in LogEvents /\ e.key = key /\ e.shape = "row" /\ e.project = project /\ e.value = 1
    BY <2>2, <2>3 DEF LogEvents
  <2>6. PICK rows0 : rows0 = IF live[key] = Absent THEN [live EXCEPT ![key] = 1] ELSE live
    OBVIOUS
  <2>7. IsTable(rows0) /\ \A k \in Keys : rows0[k] = IF k = key /\ live[k] = Absent THEN 1 ELSE live[k]
    BY <2>6 DEF ReplayTyped, IsTable
  <2>8. /\ IsTable(live')
        /\ \A k \in Keys : live'[k] = IF k = touch THEN 1
                                      ELSE IF k = key /\ live[k] = Absent THEN 1 ELSE live[k]
    BY <2>4, <2>6, <2>7 DEF IsTable
  <2>9. \A rows, k : IsTable(rows) /\ k \in Keys /\ rows[k] = live[k]
                      => Folded(rows, e)[k] = live'[k]
    BY <2>1, <2>5, <2>8, CommitTurn
  <2>10. \A q \in Projects : \A k \in OwnKeys(q) : e.key # k /\ live'[k] = live[k]
    BY <2>2, <2>5, <2>8, OwnKeysAre
  <2>11. \A q \in Projects : e.key # RevisionKey(q) /\ live'[RevisionKey(q)] = live[RevisionKey(q)]
    BY <2>2, <2>5, <2>8, ProjectKeys
  <2>12. e \in LogEvents /\ log' = Append(log, e) /\ damaged' = damaged /\ IsTable(live')
    BY <2>4, <2>5, <2>8
  <2>13. QED
    BY <2>9, <2>10, <2>11, <2>12 DEF VerbStep
<1>12. ASSUME NEW p \in Projects, SpendRecorded(p, 1) PROVE \E e : VerbStep(e)
  <2>1. PICK key : key = SpendKey(p)
    OBVIOUS
  <2>2. /\ key \in Keys /\ key[1] = "agent_spend"
        /\ \A q \in Projects : key \notin OwnKeys(q)
        /\ \A q \in Projects : key # RevisionKey(q)
    BY <2>1, ProjectKeys, OwnKeysAre
  <2>3. PICK e : e = [key |-> key, project |-> p, shape |-> "row", value |-> 1]
    OBVIOUS
  <2>4. PICK total : total = Summed(live[key], 1)
    OBVIOUS
  <2>5. log' = Append(log, e) /\ damaged' = damaged /\ live' = [live EXCEPT ![key] = total]
    BY <1>12, <2>1, <2>3, <2>4 DEF SpendRecorded, Verb, Records, Event, Put, Summed
  <2>6. e \in LogEvents /\ e.key = key /\ e.shape = "row" /\ e.project = p /\ e.value = 1
    BY <2>2, <2>3 DEF LogEvents
  <2>7. IsTable(live') /\ \A k \in Keys : live'[k] = IF k = key THEN total ELSE live[k]
    BY <2>5 DEF ReplayTyped, IsTable
  <2>8. \A rows, k : IsTable(rows) /\ k \in Keys /\ rows[k] = live[k]
                      => Folded(rows, e)[k] = live'[k]
    BY <2>2, <2>4, <2>6, <2>7, SpendTurn
  <2>9. QED
    BY <2>2, <2>5, <2>6, <2>7, <2>8, ProjectKeys, OwnKeysAre DEF VerbStep
<1>13. QED
  BY <1>2, <1>3, <1>4, <1>5, <1>6, <1>8, <1>9, <1>10, <1>11, <1>12

-----------------------------------------------------------------------------
(* Every step keeps the invariant.                                         *)

\* The two properties, of the rows they compare.
LEMMA LiveMeans ==
    /\ ReplayIsLive <=> (~damaged /\ ~Raises(Events) =>
          \A k \in Keys : k[1] # "deps" => Replayed(Events)[k] = live[k])
    /\ ReplayIsLive' <=> (~damaged' /\ ~Raises(Events)' =>
          \A k \in Keys : k[1] # "deps" => Replayed(Events)'[k] = live'[k])
<1>1. ReplayIsLive <=> (~damaged /\ ~Raises(Events) =>
          \A k \in Keys : k[1] # "deps" => Replayed(Events)[k] = live[k])
  BY DEF ReplayIsLive, Differing
<1>2. ReplayIsLive' <=> (~damaged' /\ ~Raises(Events)' =>
          \A k \in Keys : k[1] # "deps" => Replayed(Events)'[k] = live'[k])
  BY DEF ReplayIsLive, Differing
<1>3. QED
  BY <1>1, <1>2

LEMMA ArchiveMeans ==
    /\ ArchiveIsLive <=> \A p \in Projects : ~damaged /\ ~Raises(Archive(p)) =>
          \A k \in OwnKeys(p) : Replayed(Archive(p))[k] = live[k]
    /\ ArchiveIsLive' <=> \A p \in Projects : ~damaged' /\ ~Raises(Archive(p))' =>
          \A k \in OwnKeys(p) : Replayed(Archive(p))'[k] = live'[k]
<1>1. \A p \in Projects : \A k : k \in OwnKeys(p)
         <=> k \in Keys /\ ~(k # ProjectKey(p) /\ \A n \in Tasks : ProjectOf[n] = p => k # NodeKey(n))
  BY ProjectKeys, TaskKeys DEF OwnKeys
<1>2. ArchiveIsLive <=> \A p \in Projects : ~damaged /\ ~Raises(Archive(p)) =>
          \A k \in OwnKeys(p) : Replayed(Archive(p))[k] = live[k]
  BY <1>1 DEF ArchiveIsLive, Differing
<1>3. ArchiveIsLive' <=> \A p \in Projects : ~damaged' /\ ~Raises(Archive(p))' =>
          \A k \in OwnKeys(p) : Replayed(Archive(p))'[k] = live'[k]
  BY <1>1 DEF ArchiveIsLive, Differing
<1>4. QED
  BY <1>2, <1>3

LEMMA VerbKeepsInv ==
    ASSUME ReplayInv, NEW e, VerbStep(e)
    PROVE  ReplayInv'
<1>1. /\ log \in Seq(LogEvents) /\ e \in LogEvents /\ log' = Append(log, e)
      /\ IsTable(live') /\ damaged' = damaged
  BY DEF ReplayInv, ReplayTyped, VerbStep
<1>2. PICK R, R2 : R = Replayed(Events) /\ R2 = Replayed(Events)'
  OBVIOUS
<1>3. IsTable(R) /\ IsTable(R2) /\ R2 = Folded(R, e) /\ log' \in Seq(LogEvents)
  <2>1. IsTable(R)
    BY <1>2 DEF ReplayInv, ReplayTyped
  <2>2. R2 = Folded(R, e) /\ log' \in Seq(LogEvents)
    BY <1>1, <1>2, EventFolds
  <2>3. QED
    BY <1>1, <2>1, <2>2, TurnsAlike
<1>4. ASSUME NEW p \in Projects
      PROVE  \E A, A2 : /\ A = Replayed(Archive(p)) /\ A2 = Replayed(Archive(p))'
                        /\ IsTable(A) /\ IsTable(A2)
                        /\ A2 = IF e.project = p THEN Folded(A, e) ELSE A
  <2>1. PICK A, A2 : A = Replayed(Archive(p)) /\ A2 = Replayed(Archive(p))'
    OBVIOUS
  <2>2. A2 = IF e.project = p THEN Folded(A, e) ELSE A
    BY <1>1, <2>1, EventFolds
  <2>3. IsTable(A)
    BY <2>1 DEF ReplayInv, ReplayTyped
  <2>4. IsTable(A2)
    BY <1>1, <2>2, <2>3, TurnsAlike
  <2>5. QED
    BY <2>1, <2>2, <2>3, <2>4
<1>5. ReplayTyped'
  <2>1. \A p \in Projects : IsTable(Replayed(Archive(p))')
    BY <1>4
  <2>2. QED
    BY <1>1, <1>2, <1>3, <2>1 DEF ReplayTyped, IsTable
<1>6. RevisionsAreLogged'
  <2>1. ASSUME NEW p \in Projects, live'[RevisionKey(p)] # Absent
        PROVE  R2[RevisionKey(p)] # Absent
    <3>1. PICK k : k = RevisionKey(p) /\ k \in Keys /\ k[1] = "plan_revisions"
      BY ProjectKeys
    <3>2. CASE e.key # k /\ live'[k] = live[k]
      <4>1. R2[k] = R[k]
        BY <1>1, <1>3, <3>1, <3>2, TurnsAlike
      <4>2. QED
        BY <1>2, <2>1, <3>1, <3>2, <4>1 DEF ReplayInv, RevisionsAreLogged
    <3>3. CASE e.key = k /\ e.value # Absent
      BY <1>3, <3>1, <3>3, PlainTurn
    <3>4. QED
      BY <3>1, <3>2, <3>3 DEF VerbStep
  <2>2. QED
    BY <1>2, <2>1 DEF RevisionsAreLogged
<1>7. ArchivesAgree'
  <2>1. ASSUME NEW p \in Projects, NEW k \in OwnKeys(p)
        PROVE  Replayed(Archive(p))'[k] = R2[k]
    <3>1. PICK A, A2 : /\ A = Replayed(Archive(p)) /\ A2 = Replayed(Archive(p))'
                       /\ IsTable(A) /\ A2 = IF e.project = p THEN Folded(A, e) ELSE A
      BY <1>4
    <3>2. A[k] = R[k] /\ k \in Keys /\ k[1] \in {"projects", "nodes"}
      BY <1>2, <3>1, OwnKeysAre DEF ReplayInv, ArchivesAgree
    <3>3. CASE e.project = p
      BY <1>1, <1>3, <3>1, <3>2, <3>3, TurnsAlike
    <3>4. CASE e.project # p
      <4>1. e.key # k
        BY <3>4 DEF VerbStep
      <4>2. R2[k] = R[k]
        BY <1>1, <1>3, <3>2, <4>1, TurnsAlike
      <4>3. QED
        BY <3>1, <3>2, <3>4, <4>2
    <3>5. QED
      BY <3>3, <3>4
  <2>2. QED
    BY <1>2, <2>1 DEF ArchivesAgree
<1>8. ReplayIsLive'
  <2>1. ASSUME ~damaged', ~Raises(Events)', NEW k \in Keys, k[1] # "deps"
        PROVE  R2[k] = live'[k]
    <3>1. ~damaged /\ ~Raises(Events) /\ e.shape # "bare"
      BY <1>1, <2>1, EventFolds
    <3>2. R[k] = live[k]
      BY <1>2, <2>1, <3>1, LiveMeans DEF ReplayInv
    <3>3. QED
      BY <1>3, <2>1, <3>1, <3>2 DEF VerbStep
  <2>2. QED
    BY <1>2, <2>1, LiveMeans
<1>9. ArchiveIsLive'
  <2>1. ASSUME NEW p \in Projects, ~damaged', ~Raises(Archive(p))', NEW k \in OwnKeys(p)
        PROVE  Replayed(Archive(p))'[k] = live'[k]
    <3>1. PICK A, A2 : /\ A = Replayed(Archive(p)) /\ A2 = Replayed(Archive(p))'
                       /\ IsTable(A) /\ A2 = IF e.project = p THEN Folded(A, e) ELSE A
      BY <1>4
    <3>2. ~damaged /\ ~Raises(Archive(p)) /\ (e.project = p => e.shape # "bare")
      BY <1>1, <2>1, EventFolds
    <3>3. A[k] = live[k]
      BY <2>1, <3>1, <3>2, ArchiveMeans DEF ReplayInv
    <3>4. k \in Keys /\ k[1] # "deps"
      BY OwnKeysAre
    <3>5. CASE e.project = p
      BY <3>1, <3>2, <3>3, <3>4, <3>5 DEF VerbStep
    <3>6. CASE e.project # p
      BY <3>1, <3>3, <3>6 DEF VerbStep
    <3>7. QED
      BY <3>5, <3>6
  <2>2. QED
    BY <2>1, ArchiveMeans
<1>10. QED
  BY <1>5, <1>6, <1>7, <1>8, <1>9 DEF ReplayInv

\* A repair writes what the log gives, whatever the tables held.
LEMMA RebuildKeepsInv ==
    ASSUME ReplayInv, ApplyRebuild
    PROVE  ReplayInv'
<1>1. PICK e : e = [key |-> <<"rebuild", 0>>, project |-> 0, shape |-> "row", value |-> 0]
  OBVIOUS
<1>2. /\ log \in Seq(LogEvents) /\ e \in LogEvents /\ log' = Append(log, e) /\ live' = Rewritten
      /\ e.key = <<"rebuild", 0>>
  BY <1>1 DEF ReplayInv, ReplayTyped, ApplyRebuild, Records, Event, LogEvents
<1>3. \A rows : Folded(rows, e) = rows
  BY <1>2 DEF Folded
<1>4. PICK R : R = Replayed(Events) /\ R = Replayed(Events)' /\ IsTable(R)
  BY <1>2, <1>3, EventFolds DEF ReplayInv, ReplayTyped
<1>5. \A p \in Projects : Replayed(Archive(p))' = Replayed(Archive(p))
  BY <1>2, <1>3, EventFolds
<1>6. live' = [k \in Keys |-> IF k[1] = "plan_revisions" /\ R[k] = Absent THEN live[k] ELSE R[k]]
  BY <1>2, <1>4 DEF Rewritten
<1>7. ASSUME NEW k \in Keys PROVE live'[k] = R[k]
  <2>1. CASE k[1] = "plan_revisions" /\ R[k] = Absent
    <3>1. PICK p \in Projects : k = RevisionKey(p)
      BY <2>1, KeyKinds
    <3>2. live[k] = Absent
      BY <1>4, <2>1, <3>1 DEF ReplayInv, RevisionsAreLogged
    <3>3. QED
      BY <1>6, <2>1, <3>2
  <2>2. QED
    BY <1>6, <2>1
<1>8. ReplayTyped'
  <2>1. log' \in Seq(LogEvents)
    BY <1>2, EventFolds
  <2>2. IsTable(live') /\ IsTable(Replayed(Events)')
    BY <1>4, <1>6 DEF IsTable
  <2>3. \A p \in Projects : IsTable(Replayed(Archive(p))')
    BY <1>5 DEF ReplayInv, ReplayTyped
  <2>4. QED
    BY <2>1, <2>2, <2>3 DEF ReplayTyped, IsTable
<1>9. RevisionsAreLogged'
  BY <1>4, <1>7, ProjectKeys DEF RevisionsAreLogged
<1>10. \A p \in Projects : \A k \in OwnKeys(p) : Replayed(Archive(p))'[k] = R[k]
  BY <1>4, <1>5 DEF ReplayInv, ArchivesAgree
<1>11. ArchivesAgree'
  BY <1>4, <1>10 DEF ArchivesAgree
<1>12. ReplayIsLive'
  BY <1>4, <1>7, LiveMeans
<1>13. ArchiveIsLive'
  BY <1>7, <1>10, OwnKeysAre, ArchiveMeans
<1>14. QED
  BY <1>8, <1>9, <1>11, <1>12, <1>13 DEF ReplayInv

\* Rows changed outside: a revision may be lost, and none appears.
LEMMA DamageKeepsInv ==
    ASSUME ReplayInv, NEW key \in Keys, Damaged(key)
    PROVE  ReplayInv'
<1>1. log' = log /\ damaged'
  BY DEF Damaged
<1>2. Replayed(Events)' = Replayed(Events)
      /\ \A p \in Projects : Replayed(Archive(p))' = Replayed(Archive(p))
  BY <1>1, ReplayedIs DEF Events, Archive
<1>3. PICK v : /\ live' = [live EXCEPT ![key] = v]
               /\ key[1] = "plan_revisions" => v = Absent
  BY DEF Damaged, Put, Snapshots
<1>4. IsTable(live') /\ \A k \in Keys : live'[k] = IF k = key THEN v ELSE live[k]
  BY <1>3 DEF ReplayInv, ReplayTyped, IsTable
<1>5. ReplayTyped'
  BY <1>1, <1>2, <1>4 DEF ReplayInv, ReplayTyped, IsTable
<1>6. RevisionsAreLogged'
  <2>1. ASSUME NEW p \in Projects, live'[RevisionKey(p)] # Absent
        PROVE  Replayed(Events)'[RevisionKey(p)] # Absent
    <3>1. live'[RevisionKey(p)] = live[RevisionKey(p)]
      BY <1>3, <1>4, <2>1, ProjectKeys
    <3>2. QED
      BY <1>2, <2>1, <3>1 DEF ReplayInv, RevisionsAreLogged
  <2>2. QED
    BY <2>1 DEF RevisionsAreLogged
<1>7. ArchivesAgree'
  BY <1>2 DEF ReplayInv, ArchivesAgree
<1>8. QED
  BY <1>1, <1>5, <1>6, <1>7, LiveMeans, ArchiveMeans DEF ReplayInv

LEMMA ReplayStep == ReplayInv /\ [ReplayNext]_replayVars => ReplayInv'
<1> SUFFICES ASSUME ReplayInv, [ReplayNext]_replayVars PROVE ReplayInv'
  OBVIOUS
<1>1. CASE \/ \E p \in Projects : \/ ProjectChanges(p) \/ ProjectLinked(p)
                                  \/ RevisionProposed(p) \/ RevisionApproved(p)
                                  \/ SpendRecorded(p, 1)
           \/ \E n \in Tasks : \/ CommitLinked(n) \/ AgentRequested(n) \/ NoteChanges(n)
                               \/ \E s \in {"row", "nested"} : NodeChanges(n, s)
                               \/ \E carries \in {0, 1} : DepAdded(n, carries)
           \/ ComponentChanges
  <2>1. PICK e : VerbStep(e)
    BY <1>1, VerbsStep DEF ReplayInv
  <2>2. QED
    BY <2>1, VerbKeepsInv
<1>2. CASE ApplyRebuild
  BY <1>2, RebuildKeepsInv
<1>3. CASE \E k \in Keys : Damaged(k)
  BY <1>3, DamageKeepsInv
<1>4. CASE UNCHANGED replayVars
  <2>1. log' = log /\ live' = live /\ damaged' = damaged
    BY <1>4 DEF replayVars
  <2>2. Replayed(Events)' = Replayed(Events)
        /\ \A p \in Projects : Replayed(Archive(p))' = Replayed(Archive(p))
    BY <2>1, ReplayedIs DEF Events, Archive
  <2>3. ReplayTyped'
    BY <2>1, <2>2 DEF ReplayInv, ReplayTyped, IsTable
  <2>4. RevisionsAreLogged' /\ ArchivesAgree'
    BY <2>1, <2>2 DEF ReplayInv, RevisionsAreLogged, ArchivesAgree
  <2>5. ReplayIsLive' /\ ArchiveIsLive'
    BY <2>1 DEF ReplayInv, ReplayIsLive, ArchiveIsLive, Differing, Replayed, RowsAfter, Raises,
                Events, Archive
  <2>6. QED
    BY <2>3, <2>4, <2>5 DEF ReplayInv
<1>5. QED
  BY <1>1, <1>2, <1>3, <1>4 DEF ReplayNext

-----------------------------------------------------------------------------
(* The projects and nodes of a log that begins.                            *)

\* A finite set in some order: its members, and no others.
LEMMA SetToSeqIs ==
    ASSUME NEW S, IsFiniteSet(S)
    PROVE  /\ SetToSeq(S) \in Seq(S)
           /\ \A x \in S : \E i \in 1 .. Len(SetToSeq(S)) : SetToSeq(S)[i] = x
<1>1. PICK n \in Nat : n = Cardinality(S) /\ ExistsBijection(1 .. n, S)
  BY FS_CardinalityType
<1>2. \E f \in [1 .. n -> S] : IsInjective(f)
  BY <1>1 DEF ExistsBijection, Bijection, Injection, IsInjective
<1>3. SetToSeq(S) \in [1 .. n -> S] /\ IsInjective(SetToSeq(S))
  BY <1>1, <1>2 DEF SetToSeq
<1>4. PICK f : f = SetToSeq(S)
  OBVIOUS
<1>5. f \in Injection(1 .. n, S)
  BY <1>3, <1>4 DEF Injection, IsInjective
<1>6. IsFiniteSet(1 .. n) /\ Cardinality(1 .. n) = n
  BY FS_Interval
<1>7. f \in Surjection(1 .. n, S)
  BY <1>1, <1>5, <1>6, FS_Injection
<1>8. f \in Seq(S) /\ Len(f) = n
  BY <1>3, <1>4, LenProperties, SeqDef
<1>9. \A x \in S : \E i \in 1 .. n : f[i] = x
  BY <1>7 DEF Surjection
<1>10. QED
  BY <1>4, <1>8, <1>9

\* What begins: a snapshot of every project and of every node.
Beginnings == {Event(ProjectKey(p), p, "row", 0) : p \in Projects}
              \cup {Event(NodeKey(n), ProjectOf[n], "row", 0) : n \in Tasks}

LEMMA FirstLog ==
    ASSUME ReplayInit
    PROVE  /\ log \in Seq(Beginnings)
           /\ \A x \in Beginnings : \E i \in 1 .. Len(log) : log[i] = x
<1>1. PICK P, N : /\ P = {Event(ProjectKey(p), p, "row", 0) : p \in Projects}
                  /\ N = {Event(NodeKey(n), ProjectOf[n], "row", 0) : n \in Tasks}
  OBVIOUS
<1>2. IsFiniteSet(Tasks)
  BY ReplayAssumption
<1>3. IsFiniteSet(P)
  <2>1. PICK f : f = [n \in Tasks |-> Event(ProjectKey(ProjectOf[n]), ProjectOf[n], "row", 0)]
    OBVIOUS
  <2>2. f \in Surjection(Tasks, P)
    BY <1>1, <2>1 DEF Surjection, Projects
  <2>3. QED
    BY <1>2, <2>2, FS_Surjection
<1>4. IsFiniteSet(N)
  <2>1. PICK f : f = [n \in Tasks |-> Event(NodeKey(n), ProjectOf[n], "row", 0)]
    OBVIOUS
  <2>2. f \in Surjection(Tasks, N)
    BY <1>1, <2>1 DEF Surjection
  <2>3. QED
    BY <1>2, <2>2, FS_Surjection
<1>5. PICK a, b : a = SetToSeq(P) /\ b = SetToSeq(N)
  OBVIOUS
<1>6. /\ a \in Seq(P) /\ \A x \in P : \E i \in 1 .. Len(a) : a[i] = x
      /\ b \in Seq(N) /\ \A x \in N : \E i \in 1 .. Len(b) : b[i] = x
  BY <1>3, <1>4, <1>5, SetToSeqIs
<1>7. Beginnings = P \cup N
  BY <1>1 DEF Beginnings
<1>8. a \in Seq(Beginnings) /\ b \in Seq(Beginnings)
  BY <1>6, <1>7
<1>9. PICK m, k : m \in Nat /\ k \in Nat /\ m = Len(a) /\ k = Len(b)
  BY <1>6, LenProperties
<1>10. log = a \o b
  BY <1>1, <1>5 DEF ReplayInit
<1>11. /\ log \in Seq(Beginnings) /\ Len(log) = m + k
       /\ \A i \in 1 .. m + k : log[i] = IF i <= m THEN a[i] ELSE b[i - m]
  BY <1>8, <1>9, <1>10, ConcatProperties
<1>12. \A x \in P : \E i \in 1 .. m + k : log[i] = x
  <2>1. ASSUME NEW x \in P PROVE \E i \in 1 .. m + k : log[i] = x
    <3>1. PICK i \in 1 .. m : a[i] = x
      BY <1>6, <1>9
    <3>2. i \in 1 .. m + k /\ i <= m
      BY <1>9, <3>1
    <3>3. QED
      BY <1>11, <3>1, <3>2
  <2>2. QED
    BY <2>1
<1>13. \A x \in N : \E i \in 1 .. m + k : log[i] = x
  <2>1. ASSUME NEW x \in N PROVE \E i \in 1 .. m + k : log[i] = x
    <3>1. PICK j \in 1 .. k : b[j] = x
      BY <1>6, <1>9
    <3>2. m + j \in 1 .. m + k /\ ~(m + j <= m) /\ (m + j) - m = j
      BY <1>9, <3>1
    <3>3. QED
      BY <1>11, <3>1, <3>2
  <2>2. QED
    BY <2>1
<1>14. QED
  BY <1>7, <1>11, <1>12, <1>13

LEMMA BeginningsAre ==
    ASSUME NEW e \in Beginnings
    PROVE  /\ e \in LogEvents /\ e.key \in Keys /\ e.value = 0
           /\ e.key[1] \in {"projects", "nodes"}
           /\ e.project \in Projects /\ e.key \in OwnKeys(e.project)
<1>1. CASE \E p \in Projects : e = Event(ProjectKey(p), p, "row", 0)
  <2>1. PICK p \in Projects : e = Event(ProjectKey(p), p, "row", 0)
    BY <1>1
  <2>2. PICK k : k = ProjectKey(p) /\ k \in Keys /\ k[1] = "projects" /\ k \in OwnKeys(p)
    BY ProjectKeys DEF OwnKeys
  <2>3. e = [key |-> k, project |-> p, shape |-> "row", value |-> 0]
    BY <2>1, <2>2 DEF Event
  <2>4. QED
    BY <2>2, <2>3 DEF LogEvents
<1>2. CASE \E n \in Tasks : e = Event(NodeKey(n), ProjectOf[n], "row", 0)
  <2>1. PICK n \in Tasks : e = Event(NodeKey(n), ProjectOf[n], "row", 0)
    BY <1>2
  <2>2. PICK k, p : /\ k = NodeKey(n) /\ k \in Keys /\ k[1] = "nodes"
                    /\ p = ProjectOf[n] /\ p \in Projects /\ k \in OwnKeys(p)
    BY TaskKeys DEF OwnKeys
  <2>3. e = [key |-> k, project |-> p, shape |-> "row", value |-> 0]
    BY <2>1, <2>2 DEF Event
  <2>4. QED
    BY <2>2, <2>3 DEF LogEvents
<1>3. QED
  BY <1>1, <1>2 DEF Beginnings

\* Replaying beginnings gives the rows that began, and no others.
LEMMA BeginningsReplay ==
    ASSUME NEW history \in Seq(Beginnings), NEW events, NEW f, NEW n \in Nat,
           n <= Len(history), Replays(f, history, events, n)
    PROVE  /\ IsTable(f[n])
           /\ \A k \in Keys : f[n][k] = IF \E i \in 1 .. n : i \in events /\ history[i].key = k
                                        THEN 0 ELSE Absent
<1> DEFINE Begun(k, j) == \E i \in 1 .. j : i \in events /\ history[i].key = k
           Good(j) == /\ IsTable(f[j])
                      /\ \A k \in Keys : f[j][k] = IF Begun(k, j) THEN 0 ELSE Absent
           T == {j \in Nat : j <= n /\ ~Good(j)}
<1>1. SUFFICES ASSUME T # {} PROVE FALSE
  OBVIOUS
<1>2. PICK j \in T : \A y \in T : j <= y
  <2>1. T \subseteq Nat
    OBVIOUS
  <2>2. QED
    BY <1>1, <2>1, SmallestNumber
<1>3. j # 0
  <2>1. Good(0)
    <3>1. f[0] = [k \in Keys |-> Absent]
      BY DEF Replays, Empty
    <3>2. \A k : ~Begun(k, 0)
      OBVIOUS
    <3>3. QED
      BY <3>1, <3>2 DEF IsTable
  <2>2. QED
    BY <1>2, <2>1
<1>4. PICK m \in Nat : j = m + 1
  <2>1. j - 1 \in Nat
    BY <1>2, <1>3
  <2>2. QED
    BY <1>2, <2>1
<1>5. m <= n /\ ~(m + 1 <= m) /\ m + 1 \in 1 .. n
  BY <1>2, <1>4
<1>6. Good(m)
  BY <1>2, <1>4, <1>5
<1>7. f[m + 1] = Turn(f[m], history, events, m + 1)
  <2>1. (m + 1) - 1 = m
    OBVIOUS
  <2>2. QED
    BY <1>5, <2>1 DEF Replays
<1>8. history[m + 1] \in Beginnings
  <2>1. m + 1 \in 1 .. Len(history)
    BY <1>5, LenProperties
  <2>2. QED
    BY <2>1, ElementOfSeq
<1>9. PICK e : e = history[m + 1] /\ e \in LogEvents /\ e.key \in Keys /\ e.value = 0
               /\ e.key[1] \notin {"agent_spend", "node_commits"}
  BY <1>8, BeginningsAre
<1>10. \A k : Begun(k, m + 1) <=> Begun(k, m) \/ (m + 1 \in events /\ e.key = k)
  <2>1. \A i : i \in 1 .. m + 1 <=> i \in 1 .. m \/ i = m + 1
    OBVIOUS
  <2>2. QED
    BY <1>9, <2>1
<1>11. PICK rows, rows2 : rows = f[m] /\ rows2 = f[m + 1]
  OBVIOUS
<1>12. IsTable(rows) /\ \A k \in Keys : rows[k] = IF Begun(k, m) THEN 0 ELSE Absent
  BY <1>6, <1>11
<1>13. rows2 = IF m + 1 \in events THEN Folded(rows, e) ELSE rows
  BY <1>7, <1>9, <1>11 DEF Turn
<1>14. Good(m + 1)
  <2>1. IsTable(rows2)
    BY <1>9, <1>12, <1>13, TurnsAlike
  <2>2. ASSUME NEW k \in Keys PROVE rows2[k] = IF Begun(k, m + 1) THEN 0 ELSE Absent
    <3>1. CASE m + 1 \in events
      <4>1. rows2[k] = IF k = e.key THEN 0 ELSE rows[k]
        BY <1>9, <1>12, <1>13, <3>1, PlainTurn
      <4>2. QED
        BY <1>10, <1>12, <3>1, <4>1
    <3>2. CASE m + 1 \notin events
      BY <1>10, <1>12, <1>13, <3>2
    <3>3. QED
      BY <3>1, <3>2
  <2>3. QED
    BY <1>11, <2>1, <2>2
<1>15. QED
  BY <1>2, <1>4, <1>14

LEMMA ReplayStart == ReplayInit => ReplayInv
<1> SUFFICES ASSUME ReplayInit PROVE ReplayInv
  OBVIOUS
<1>1. PICK h, n : h = log /\ n = Len(log)
  OBVIOUS
<1>2. /\ h \in Seq(Beginnings) /\ n = Len(h) /\ n \in Nat
      /\ \A x \in Beginnings : \E i \in 1 .. n : h[i] = x
      /\ \A i \in 1 .. n : h[i] \in Beginnings
  BY <1>1, FirstLog, LenProperties, ElementOfSeq
<1>3. ASSUME NEW S
      PROVE  \E rows : /\ rows = RowsOf(h, S)[n] /\ IsTable(rows)
                       /\ \A k \in Keys : rows[k] = IF \E i \in 1 .. n : i \in S /\ h[i].key = k
                                                    THEN 0 ELSE Absent
  <2>1. Replays(RowsOf(h, S), h, S, n)
    BY <1>2, RowsReplay
  <2>2. n <= Len(h)
    BY <1>2
  <2>3. QED
    BY <1>2, <2>1, <2>2, BeginningsReplay
<1>4. PICK E : E = Events /\ E = 1 .. n
  BY <1>1, <1>2, LenProperties DEF Events
<1>5. /\ IsTable(Replayed(Events))
      /\ \A k \in Keys : Replayed(Events)[k] = IF \E i \in 1 .. n : h[i].key = k THEN 0 ELSE Absent
  <2>1. Replayed(Events) = RowsOf(h, E)[n]
    BY <1>1, <1>4, ReplayedIs
  <2>2. PICK rows : /\ rows = RowsOf(h, E)[n] /\ IsTable(rows)
                    /\ \A k \in Keys : rows[k] = IF \E i \in 1 .. n : i \in E /\ h[i].key = k
                                                 THEN 0 ELSE Absent
    BY <1>3
  <2>3. Replayed(Events) = rows
    BY <2>1, <2>2
  <2>4. QED
    BY <1>4, <2>2, <2>3
<1>6. ASSUME NEW p \in Projects
      PROVE  /\ IsTable(Replayed(Archive(p)))
             /\ \A k \in Keys : Replayed(Archive(p))[k]
                   = IF \E i \in 1 .. n : h[i].project = p /\ h[i].key = k THEN 0 ELSE Absent
  <2>1. PICK A : A = Archive(p) /\ A = {i \in 1 .. n : h[i].project = p}
    BY <1>1, <1>4 DEF Archive
  <2>2. Replayed(Archive(p)) = RowsOf(h, A)[n]
    BY <1>1, <2>1, ReplayedIs
  <2>3. PICK rows : /\ rows = RowsOf(h, A)[n] /\ IsTable(rows)
                    /\ \A k \in Keys : rows[k] = IF \E i \in 1 .. n : i \in A /\ h[i].key = k
                                                 THEN 0 ELSE Absent
    BY <1>3
  <2>4. Replayed(Archive(p)) = rows
    BY <2>2, <2>3
  <2>5. QED
    BY <2>1, <2>3, <2>4
<1>7. ASSUME NEW p \in Projects, NEW k \in OwnKeys(p)
      PROVE  \E i \in 1 .. n : h[i].project = p /\ h[i].key = k
  <2>1. \E x \in Beginnings : x.project = p /\ x.key = k
    <3>1. CASE k = ProjectKey(p)
      <4>1. Event(k, p, "row", 0) \in Beginnings
        BY <3>1 DEF Beginnings
      <4>2. QED
        BY <4>1 DEF Event
    <3>2. CASE \E m \in Tasks : ProjectOf[m] = p /\ k = NodeKey(m)
      <4>1. Event(k, p, "row", 0) \in Beginnings
        BY <3>2 DEF Beginnings
      <4>2. QED
        BY <4>1 DEF Event
    <3>3. QED
      BY <1>7, <3>1, <3>2 DEF OwnKeys
  <2>2. QED
    BY <1>2, <2>1
<1>8. IsTable(live) /\ \A k \in Keys : live[k] = IF k[1] \in {"projects", "nodes"} THEN 0 ELSE Absent
  BY DEF ReplayInit, IsTable
<1>9. \A k \in Keys : Replayed(Events)[k] = live[k]
  <2>1. ASSUME NEW k \in Keys PROVE k[1] \in {"projects", "nodes"} <=> \E i \in 1 .. n : h[i].key = k
    <3>1. ASSUME k[1] \in {"projects", "nodes"} PROVE \E p \in Projects : k \in OwnKeys(p)
      BY <3>1, KeyKinds, TaskKeys DEF OwnKeys
    <3>2. QED
      BY <1>2, <1>7, <3>1, BeginningsAre
  <2>2. QED
    BY <1>5, <1>8, <2>1
<1>10. \A p \in Projects : \A k \in OwnKeys(p) : Replayed(Archive(p))[k] = 0 /\ live[k] = 0
  BY <1>6, <1>7, <1>8, OwnKeysAre
<1>11. ReplayTyped
  <2>1. log \in Seq(LogEvents)
    BY <1>1, <1>2, BeginningsAre
  <2>2. QED
    BY <1>5, <1>6, <1>8, <2>1 DEF ReplayTyped
<1>12. RevisionsAreLogged /\ ArchivesAgree
  BY <1>9, <1>10, ProjectKeys, OwnKeysAre DEF RevisionsAreLogged, ArchivesAgree
<1>13. ReplayIsLive /\ ArchiveIsLive
  BY <1>9, <1>10, LiveMeans, ArchiveMeans
<1>14. QED
  BY <1>11, <1>12, <1>13 DEF ReplayInv

-----------------------------------------------------------------------------

\* As long as nothing changed rows behind its back and every event carries its
\* row, replaying the log gives the live tables, whichever verbs ran, in whatever
\* order, and however often the tables were damaged and repaired before.
THEOREM LogGivesTheTables == ReplaySpec => []ReplayIsLive
<1>1. ReplayInv => ReplayIsLive
  BY DEF ReplayInv
<1>2. QED
  BY <1>1, ReplayStart, ReplayStep, PTL DEF ReplaySpec

\* The events of one project, exported alone, replay to the rows of that project
\* and its nodes: no other project's event ever touches them.
THEOREM ArchiveGivesItsRows == ReplaySpec => []ArchiveIsLive
<1>1. ReplayInv => ArchiveIsLive
  BY DEF ReplayInv
<1>2. QED
  BY <1>1, ReplayStart, ReplayStep, PTL DEF ReplaySpec
=============================================================================
