------------------------------- MODULE Replay --------------------------------
(***************************************************************************)
(* The event log and what is replayed from it: core/events.py,             *)
(* core/rebuild.py and core/history.py.                                    *)
(*                                                                         *)
(* A row is a key <<table, id>> with a value.  A verb changes rows and     *)
(* appends its event in one transaction; `rebuild` folds the events, by    *)
(* rules of its own, into the rows they should have left.                  *)
(***************************************************************************)
EXTENDS Integers, Sequences, SequencesExt

CONSTANTS
    Tasks,      \* nodes, each with a project
    ProjectOf,
    Absent,     \* the value of a row that is not there
    MaxEvents,  \* bound on the length of the log
    MaxDamage   \* bound on the number of rows changed behind the log's back

\* A database holds finitely many nodes, and a value is not the lack of a row.
ASSUME ReplayAssumption ==
    /\ IsFiniteSet(Tasks)
    /\ Absent \notin BOOLEAN
    /\ MaxEvents \in Nat /\ MaxDamage \in Nat

Projects == {ProjectOf[n] : n \in Tasks}

\* Tables compared, with what tells two rows apart: a snapshot's version, what
\* a dependency carries, whether a revision is approved, what was spent.
Snapshots == {"projects", "nodes", "components", "notes"}

ProjectKey(p)  == <<"projects", p>>
NodeKey(n)     == <<"nodes", n>>
ComponentKey   == <<"components", 1>>
NoteKey(n)     == <<"notes", n>>
DepKey(n)      == <<"deps", n>>
CommitKey(n)   == <<"node_commits", n>>
TouchKey(n)    == <<"actual_touches", n>>
RevisionKey(p) == <<"plan_revisions", p>>
SpendKey(p)    == <<"agent_spend", p>>

Keys == {ComponentKey}
        \cup (UNION {{ProjectKey(p), RevisionKey(p), SpendKey(p)} : p \in Projects})
        \cup (UNION {{NodeKey(n), NoteKey(n), DepKey(n), CommitKey(n), TouchKey(n)} : n \in Tasks})

VARIABLES
    log,      \* events, oldest first
    live,     \* the rows of the database
    damaged,  \* rows were changed behind the log's back since the last rebuild
    damages   \* and how many ever were

replayVars == <<log, live, damaged, damages>>

-----------------------------------------------------------------------------
(* Verbs: the SQL of a verb, and the event it appends.                     *)

\* A payload is a row, a row nested under "node", or neither (`bare`).
Event(key, project, shape, value) ==
    [key |-> key, project |-> project, shape |-> shape, value |-> value]

\* record_event, in the transaction that changes the rows.
Records(key, project, shape, value, rows) ==
    /\ Len(log) < MaxEvents
    /\ log' = Append(log, Event(key, project, shape, value))
    /\ live' = rows
    /\ UNCHANGED damages

Verb(key, project, shape, value, rows) ==
    Records(key, project, shape, value, rows) /\ UNCHANGED damaged

Put(key, value) == [live EXCEPT ![key] = value]

\* INSERT OR IGNORE.
Ignored(key, value) == IF live[key] = Absent THEN Put(key, value) ELSE live

\* A snapshot event carries the row its verb has just inserted or updated.
RowChanges(key, project, shape) ==
    LET v == IF live[key] = 0 THEN 1 ELSE 0 IN Verb(key, project, shape, v, Put(key, v))

ProjectChanges(p)     == RowChanges(ProjectKey(p), p, "row")
NodeChanges(n, shape) == RowChanges(NodeKey(n), ProjectOf[n], shape)
NoteChanges(n)        == RowChanges(NoteKey(n), ProjectOf[n], "row")

\* mark_stale_for_commit: its event belongs to no project.
ComponentChanges == RowChanges(ComponentKey, 0, "row")

\* A dependency named twice is inserted once and recorded twice.
DepAdded(n, carries) ==
    Verb(DepKey(n), ProjectOf[n], "row", carries, Ignored(DepKey(n), carries))

\* A commit is linked again when a drain is repeated.
CommitLinked(n) ==
    Verb(CommitKey(n), ProjectOf[n], "row", 1,
            [Ignored(CommitKey(n), 1) EXCEPT ![TouchKey(n)] = 1])

SpendRecorded(p, amount) ==
    Verb(SpendKey(p), p, "row", amount,
            Put(SpendKey(p), IF live[SpendKey(p)] = Absent THEN amount
                             ELSE live[SpendKey(p)] + amount))

RevisionProposed(p) ==
    /\ live[RevisionKey(p)] = Absent
    /\ Verb(RevisionKey(p), p, "row", FALSE, Put(RevisionKey(p), FALSE))

RevisionApproved(p) ==
    /\ live[RevisionKey(p)] = FALSE
    /\ Verb(RevisionKey(p), p, "row", TRUE, Put(RevisionKey(p), TRUE))

\* project.linked carries source, target and kind, and no id.
ProjectLinked(p) == Verb(ProjectKey(p), p, "bare", Absent, live)

\* node.agent_requested carries the agent and no id.
AgentRequested(n) == Verb(NodeKey(n), ProjectOf[n], "bare", Absent, live)

-----------------------------------------------------------------------------
(* Replay.                                                                 *)

Empty == [k \in Keys |-> Absent]

Summed(old, amount) == IF old = Absent THEN amount ELSE old + amount

\* Mutant of Folded: the last event of a row is the row.
FoldedByLast(rows, e) ==
    IF e.key \in Keys THEN [rows EXCEPT ![e.key] = e.value] ELSE rows

\* One turn of the loop of rebuild_state_from_events.
Folded(rows, e) ==
    LET table == e.key[1] IN
    IF table = "rebuild" THEN rows
    ELSE IF table = "agent_spend" THEN [rows EXCEPT ![e.key] = Summed(@, e.value)]
    ELSE IF table = "node_commits"
         THEN [rows EXCEPT ![e.key] = IF @ = Absent THEN e.value ELSE @,
                           ![TouchKey(e.key[2])] = 1]
    ELSE [rows EXCEPT ![e.key] = e.value]

\* The positions of the events to replay: those of the log, or of an archive.
Events == DOMAIN log

\* payload["id"] of a payload that has none.
Raises(events) == \E i \in events : log[i].shape = "bare"

\* The rows after each event of the log.
RowsAfter(events) ==
    LET rows[i \in 0 .. Len(log)] ==
            IF i = 0 THEN Empty
            ELSE IF i \in events THEN Folded(rows[i - 1], log[i])
            ELSE rows[i - 1]
    IN  rows

Replayed(events) == RowsAfter(events)[Len(log)]

\* diff_state.
Differing(events, rows) ==
    LET replayed == Replayed(events) IN {k \in Keys : replayed[k] # rows[k]}

\* Mutant of Rewritten: a revision the log knows and the table lost stays lost.
RewrittenWithoutRevisions ==
    LET replayed == Replayed(Events) IN
    [k \in Keys |-> IF k[1] = "plan_revisions" THEN live[k] ELSE replayed[k]]

\* apply_rebuild: tables are rewritten; a revision is inserted or updated, and
\* one the log does not know stays.
Rewritten ==
    LET replayed == Replayed(Events) IN
    [k \in Keys |-> IF k[1] = "plan_revisions" /\ replayed[k] = Absent
                    THEN live[k] ELSE replayed[k]]

ApplyRebuild ==
    /\ ~Raises(Events)
    /\ Records(<<"rebuild", 0>>, 0, "row", 0, Rewritten)
    /\ damaged' = FALSE

\* A row is changed or lost outside muvue, which is what `rebuild` is for.
Damaged(k) ==
    /\ damages < MaxDamage
    /\ live[k] # Absent
    /\ damages' = damages + 1
    /\ damaged' = TRUE
    /\ \/ live' = Put(k, Absent)
       \/ k[1] \in Snapshots /\ live' = Put(k, 1 - live[k])
    /\ UNCHANGED log

\* Mutant of Archive: events that nest their row are taken for bare ones.
ArchiveOfRows(p) == {i \in Events : log[i].project = p /\ log[i].shape = "row"}

\* export_project_events, and what rebuild_from_archive makes of it.
Archive(p) == {i \in Events : log[i].project = p}

-----------------------------------------------------------------------------
ReplayInit ==
    /\ log = SetToSeq({Event(ProjectKey(p), p, "row", 0) : p \in Projects})
             \o SetToSeq({Event(NodeKey(n), ProjectOf[n], "row", 0) : n \in Tasks})
    /\ live = [k \in Keys |-> IF k[1] \in {"projects", "nodes"} THEN 0 ELSE Absent]
    /\ damaged = FALSE /\ damages = 0

ReplayNext ==
    \/ \E p \in Projects : \/ ProjectChanges(p) \/ ProjectLinked(p)
                           \/ RevisionProposed(p) \/ RevisionApproved(p)
                           \/ SpendRecorded(p, 1)
    \/ \E n \in Tasks : \/ CommitLinked(n) \/ AgentRequested(n) \/ NoteChanges(n)
                        \/ \E s \in {"row", "nested"} : NodeChanges(n, s)
                        \/ \E carries \in {0, 1} : DepAdded(n, carries)
    \/ ComponentChanges
    \/ ApplyRebuild
    \/ \E k \in Keys : Damaged(k)

ReplaySpec == ReplayInit /\ [][ReplayNext]_replayVars

-----------------------------------------------------------------------------
(* Properties.                                                             *)

\* Unless rows were changed outside since the last `rebuild --apply`, and as
\* long as every event carries its row, the log replays to the live tables,
\* whatever was relinked, spent again, approved or repaired; a dependency named
\* twice with different contracts is excepted, for the table keeps the first
\* and the replay the last.
ReplayIsLive ==
    ~damaged /\ ~Raises(Events) =>
        \A k \in Differing(Events, live) : k[1] = "deps"

\* The archive of a project, without the other projects' events, replays to the
\* live rows of the project and its nodes.
ArchiveIsLive ==
    \A p \in Projects : ~damaged /\ ~Raises(Archive(p)) =>
        \A k \in Differing(Archive(p), live) :
            /\ k # ProjectKey(p)
            /\ \A n \in Tasks : ProjectOf[n] = p => k # NodeKey(n)

\* "the single source of truth that `rebuild` replays to reproduce live DB
\* state" (core/events.py): no verb leaves a log that cannot be replayed.
LogReplays == ~Raises(Events)
=============================================================================
