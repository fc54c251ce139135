------------------------------ MODULE HookSpool ------------------------------
(***************************************************************************)
(* The hook spool: the append of muvue._hook and core/hooks.py drain_queue.*)
(*                                                                         *)
(* A hook opens .muvue/queue.jsonl to append, writes one line and exits.   *)
(* The drainer that holds the lock renames the file to queue.draining,     *)
(* reads it, applies its lines one by one, reads again what was appended   *)
(* in the meantime and writes back what is left.  A handle follows the     *)
(* file it opened through the rename and the unlink.                       *)
(***************************************************************************)
EXTENDS Integers, Sequences, SequencesExt

CONSTANTS
    Lines,         \* one per hook invocation
    Workloads,     \* what the lines may be: a commit, a session event, a commit
                   \* git no longer finds, something that is not JSON
    MaxItems,      \* lines a drain processes
    MaxDrainDeaths \* bound on the deaths of a drainer

LineKinds == {"commit", "session", "missing", "garbled"}

ASSUME SpoolAssumption ==
    /\ Workloads \subseteq [Lines -> LineKinds]
    /\ MaxItems \in Nat \ {0} /\ MaxDrainDeaths \in Nat

VARIABLES
    kind,      \* what the lines are
    there,     \* which of the two files exist
    file,      \* their lines
    handle,    \* the file each hook has open, "unborn" before, "closed" after
    drainer,   \* the lock holder
    applied,   \* how often the database took a line, saturating at 3
    marked,    \* commit lines whose components were marked stale
    replays,   \* history: drains that ended early, saturating at 2
    lost,      \* history: lines dropped by the truncate, the write or the unlink
    drainDeaths

spoolVars == <<kind, there, file, handle, drainer, applied, marked, replays, lost, drainDeaths>>

Free == [at |-> "free", seen |-> <<>>, next |-> 1, done |-> 0,
         left |-> <<>>, known |-> 0]

\* Adds up to a cap.
Plus(n, cap) == IF n < cap THEN n + 1 ELSE cap

-----------------------------------------------------------------------------
(* The hook process.                                                       *)

HookOpens(l) ==
    /\ handle[l] = "unborn"
    /\ handle' = [handle EXCEPT ![l] = "queue"]
    /\ there' = there \cup {"queue"}
    /\ UNCHANGED <<kind, file, drainer, applied, marked, replays, lost, drainDeaths>>

\* One O_APPEND write; into an unlinked file it is lost.
HookWrites(l) ==
    /\ handle[l] \in {"queue", "draining", "unlinked"}
    /\ handle' = [handle EXCEPT ![l] = "closed"]
    /\ file' = [f \in DOMAIN file |->
                   IF f = handle[l] THEN Append(file[f], l) ELSE file[f]]
    /\ lost' = IF handle[l] = "unlinked" THEN lost \cup {l} ELSE lost
    /\ UNCHANGED <<kind, there, drainer, applied, marked, replays, drainDeaths>>

-----------------------------------------------------------------------------
(* drain_queue: the lock is free or the call returns at once.              *)

Draining(step) == drainer.at = step
DrainerGoes(step) == drainer' = [drainer EXCEPT !.at = step]

DrainCalled ==
    /\ Draining("free")
    /\ there # {}
    /\ drainer' = [Free EXCEPT !.at = "choose"]
    /\ UNCHANGED <<kind, there, file, handle, applied, marked, replays, lost, drainDeaths>>

\* os.replace: the open handles go with the file.
Renames ==
    /\ Draining("choose")
    /\ there = {"queue"}
    /\ there' = {"draining"}
    /\ file' = [queue |-> <<>>, draining |-> file.queue]
    /\ handle' = [l \in Lines |-> IF handle[l] = "queue" THEN "draining" ELSE handle[l]]
    /\ DrainerGoes("read")
    /\ UNCHANGED <<kind, applied, marked, replays, lost, drainDeaths>>

\* What a drain before left over comes first.
KeepsDraining ==
    /\ Draining("choose")
    /\ "draining" \in there
    /\ DrainerGoes("read")
    /\ UNCHANGED <<kind, there, file, handle, applied, marked, replays, lost, drainDeaths>>

NothingLeft ==
    /\ Draining("choose")
    /\ there = {}
    /\ drainer' = Free
    /\ UNCHANGED <<kind, there, file, handle, applied, marked, replays, lost, drainDeaths>>

ReadsFile ==
    /\ Draining("read")
    /\ drainer' = [drainer EXCEPT !.at = "line", !.seen = file.draining, !.next = 1]
    /\ UNCHANGED <<kind, there, file, handle, applied, marked, replays, lost, drainDeaths>>

More == drainer.next <= Len(drainer.seen) /\ drainer.done < MaxItems
Line == drainer.seen[drainer.next]
Taken(step) == drainer' = [drainer EXCEPT !.at = step, !.next = @ + 1, !.done = @ + 1]

SkipsGarbled ==
    /\ Draining("line") /\ More
    /\ kind[Line] = "garbled"
    /\ Taken("line")
    /\ UNCHANGED <<kind, there, file, handle, applied, marked, replays, lost, drainDeaths>>

\* The transaction of a line; a commit's components are marked in a later one.
AppliesLine ==
    /\ Draining("line") /\ More
    /\ kind[Line] \in {"commit", "session"}
    /\ applied' = [applied EXCEPT ![Line] = Plus(@, 3)]
    /\ IF kind[Line] = "commit" THEN DrainerGoes("mark") ELSE Taken("line")
    /\ UNCHANGED <<kind, there, file, handle, marked, replays, lost, drainDeaths>>

MarksStale ==
    /\ Draining("mark")
    /\ marked' = marked \cup {Line}
    /\ Taken("line")
    /\ UNCHANGED <<kind, there, file, handle, applied, replays, lost, drainDeaths>>

\* git fails on the commit of the line: the lock is released, nothing is
\* written back, and the lines before it will be applied again.
LineRaises ==
    /\ Draining("line") /\ More
    /\ kind[Line] = "missing"
    /\ drainer' = Free
    /\ replays' = Plus(replays, 2)
    /\ UNCHANGED <<kind, there, file, handle, applied, marked, lost, drainDeaths>>

\* The last line, the item limit, or the time limit, which any line may meet.
StopsReading ==
    /\ Draining("line")
    /\ DrainerGoes("reread")
    /\ UNCHANGED <<kind, there, file, handle, applied, marked, replays, lost, drainDeaths>>

\* Mutants of Remainder: without what was appended after the file was read;
\* from the line before the cursor; from the first line.
RemainderAsRead == SubSeq(drainer.seen, drainer.next, Len(drainer.seen))
RemainderOffByOne ==
    SubSeq(file.draining, IF drainer.next > 1 THEN drainer.next - 1 ELSE 1,
           Len(file.draining))
RemainderOfAll == file.draining

\* What was not taken, and what was appended since.
Remainder == SubSeq(file.draining, drainer.next, Len(file.draining))

Rereads ==
    /\ Draining("reread")
    /\ drainer' = [drainer EXCEPT !.at = IF Remainder = <<>> THEN "unlink" ELSE "truncate",
                                  !.left = Remainder, !.known = Len(file.draining)]
    /\ UNCHANGED <<kind, there, file, handle, applied, marked, replays, lost, drainDeaths>>

\* What was appended since then.
AppendedLate == ToSet(SubSeq(file.draining, drainer.known + 1, Len(file.draining)))

\* write_text empties the file before it writes it.
TruncatesFile ==
    /\ Draining("truncate")
    /\ file' = [file EXCEPT !.draining = <<>>]
    /\ lost' = lost \cup AppendedLate
    /\ DrainerGoes("write")
    /\ UNCHANGED <<kind, there, handle, applied, marked, replays, drainDeaths>>

WritesBack ==
    /\ Draining("write")
    /\ file' = [file EXCEPT !.draining = drainer.left]
    /\ lost' = lost \cup ToSet(file.draining)
    /\ drainer' = Free
    /\ UNCHANGED <<kind, there, handle, applied, marked, replays, drainDeaths>>

Unlinks ==
    /\ Draining("unlink")
    /\ there' = there \ {"draining"}
    /\ file' = [file EXCEPT !.draining = <<>>]
    /\ handle' = [l \in Lines |-> IF handle[l] = "draining" THEN "unlinked" ELSE handle[l]]
    /\ lost' = lost \cup AppendedLate
    /\ DrainerGoes("choose")
    /\ UNCHANGED <<kind, applied, marked, replays, drainDeaths>>

\* The lock goes with its process.
DrainerDies ==
    /\ ~Draining("free")
    /\ drainDeaths < MaxDrainDeaths
    /\ drainDeaths' = drainDeaths + 1
    /\ replays' = Plus(replays, 2)
    /\ lost' = IF Draining("write") THEN lost \cup ToSet(drainer.left) ELSE lost
    /\ drainer' = Free
    /\ UNCHANGED <<kind, there, file, handle, applied, marked>>

-----------------------------------------------------------------------------
SpoolInit ==
    /\ kind \in Workloads
    /\ there = {}
    /\ file = [queue |-> <<>>, draining |-> <<>>]
    /\ handle = [l \in Lines |-> "unborn"]
    /\ drainer = Free
    /\ applied = [l \in Lines |-> 0]
    /\ marked = {} /\ lost = {}
    /\ replays = 0 /\ drainDeaths = 0

DrainerStep ==
    \/ Renames \/ KeepsDraining \/ NothingLeft \/ ReadsFile
    \/ SkipsGarbled \/ AppliesLine \/ MarksStale \/ LineRaises \/ StopsReading
    \/ Rereads \/ TruncatesFile \/ WritesBack \/ Unlinks

SpoolNext ==
    \/ \E l \in Lines : HookOpens(l) \/ HookWrites(l)
    \/ DrainCalled \/ DrainerStep \/ DrainerDies

\* The daemon drains continuously, and without one the next CLI call does; a
\* drain that began goes on, and is not always out of time before it has taken
\* a line.
SpoolFairness ==
    /\ WF_spoolVars(DrainCalled) /\ WF_spoolVars(DrainerStep)
    /\ SF_spoolVars(AppliesLine \/ SkipsGarbled)

SpoolSpec == SpoolInit /\ [][SpoolNext]_spoolVars /\ SpoolFairness

-----------------------------------------------------------------------------
(* Properties.                                                             *)

Settled(l) ==
    kind[l] = "garbled" \/ (applied[l] > 0 /\ (kind[l] = "commit" => l \in marked))

\* A line whose hook has exited is in a file, in the hands of the drainer that
\* is writing it back, or settled, its components marked, whenever the hook ran
\* and wherever a drainer died.  The excepted lines are those of `lost`: written
\* to the renamed file after its last read, or dropped by a drainer that dies
\* between emptying the file and writing it.
NothingLeftBehind ==
    \A l \in Lines : handle[l] = "closed" =>
        \/ l \in ToSet(file.queue) \cup ToSet(file.draining) \cup lost
        \/ Draining("write") /\ l \in ToSet(drainer.left)
        \/ Settled(l)

\* A line is applied again only by the drains that follow one that died or
\* raised, once for each of them: no interleaving with the hooks repeats it.
ReplaysAreCounted == \A l \in Lines : applied[l] <= 1 + replays

\* Every line is settled in the end, through limits, deaths and renames, unless
\* it was lost or a line whose commit is missing holds up the queue.
LinesAreDrained ==
    \A l \in Lines :
        handle[l] = "closed" ~> \/ Settled(l) \/ l \in lost
                                \/ \E m \in Lines : kind[m] = "missing" /\ handle[m] = "closed"
=============================================================================
