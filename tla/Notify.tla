------------------------------- MODULE Notify --------------------------------
(***************************************************************************)
(* Notifications: core/notify.py.  The daemon's loop and every `muvue run` *)
(* flush: they read the cursor, which is the last notify event of the log, *)
(* post a batch of what came after it and record how far they got, with no *)
(* transaction around the three.                                           *)
(*                                                                         *)
(* Only notifiable events are kept, so that the end of the log is their    *)
(* number.                                                                 *)
(***************************************************************************)
EXTENDS Integers, Sequences, FiniteSetsExt

CONSTANTS
    Flushers,      \* processes that flush
    BatchLimit,    \* BATCH_LIMIT
    MaxNews,       \* bound on the notifiable events
    MaxFlushDeaths \* bound on the deaths of a flusher

ASSUME NotifyAssumption ==
    BatchLimit \in Nat \ {0} /\ MaxNews \in Nat /\ MaxFlushDeaths \in Nat

VARIABLES
    news,      \* notifiable events: with a line to send, or a node.fail retried
    cursor,    \* up_to of the last notify event
    marks,     \* history: up_to of the first flushes
    flusher,   \* what each flusher is doing
    posted,    \* how often an event was posted, with success or without; up to 2
    flushDeaths

notifyVars == <<news, cursor, marks, flusher, posted, flushDeaths>>

None == -1
Resting == [at |-> "resting", upTo |-> None, ids |-> {}]

-----------------------------------------------------------------------------
NewsComes(type) ==
    /\ Len(news) < MaxNews
    /\ news' = Append(news, type)
    /\ UNCHANGED <<cursor, marks, flusher, posted, flushDeaths>>

\* _cursor.
ReadsCursor(f) ==
    /\ flusher[f].at = "resting"
    /\ flusher' = [flusher EXCEPT ![f] = [at |-> "select", upTo |-> cursor, ids |-> {}]]
    /\ UNCHANGED <<news, cursor, marks, posted, flushDeaths>>

\* The first events after the cursor that was read, at most a batch.
Rows(from) == {i \in DOMAIN news : from < i /\ i <= from + BatchLimit}

\* Mutant of UpTo: a full batch, too, reaches the end of the log.
UpToTheEnd(rows) == Len(news)

\* A full batch may not reach the end.
UpTo(rows) == IF Cardinality(rows) = BatchLimit THEN Max(rows) ELSE Len(news)

\* Mutant of Selects: a batch of retries sends nothing, and records nothing.
SelectsLines(f) ==
    LET rows == Rows(flusher[f].upTo)
        lines == {i \in rows : news[i] = "line"}
    IN /\ flusher[f].at = "select"
       /\ flusher' = [flusher EXCEPT ![f] =
              IF @.upTo = None THEN [at |-> "mark", upTo |-> Len(news), ids |-> {}]
              ELSE IF lines = {} THEN Resting
              ELSE [at |-> "post", upTo |-> UpTo(rows), ids |-> lines]]
       /\ UNCHANGED <<news, cursor, marks, posted, flushDeaths>>

\* The first flush only marks where the log ends; one with nothing to send
\* returns, and one with nothing but retries moves the cursor.
Selects(f) ==
    LET rows == Rows(flusher[f].upTo)
        lines == {i \in rows : news[i] = "line"}
    IN /\ flusher[f].at = "select"
       /\ flusher' = [flusher EXCEPT ![f] =
              IF @.upTo = None THEN [at |-> "mark", upTo |-> Len(news), ids |-> {}]
              ELSE IF rows = {} THEN Resting
              ELSE [at |-> IF lines = {} THEN "sent" ELSE "post",
                    upTo |-> UpTo(rows), ids |-> lines]]
       /\ UNCHANGED <<news, cursor, marks, posted, flushDeaths>>

\* The POST, outside any transaction, answered or not.
Posts(f, answer) ==
    /\ flusher[f].at = "post"
    /\ posted' = [i \in DOMAIN posted |->
                     IF i \in flusher[f].ids /\ posted[i] < 2 THEN posted[i] + 1 ELSE posted[i]]
    /\ flusher' = [flusher EXCEPT ![f].at = answer, ![f].ids = {}]
    /\ UNCHANGED <<news, cursor, marks, flushDeaths>>

\* _record: the cursor moves after a failure, too.
RecordsCursor(f) ==
    /\ flusher[f].at \in {"mark", "sent", "failed"}
    /\ cursor' = flusher[f].upTo
    /\ marks' = IF flusher[f].at = "mark" THEN marks \cup {cursor'} ELSE marks
    /\ flusher' = [flusher EXCEPT ![f] = Resting]
    /\ UNCHANGED <<news, posted, flushDeaths>>

FlusherDies(f) ==
    /\ flusher[f].at # "resting"
    /\ flushDeaths < MaxFlushDeaths
    /\ flushDeaths' = flushDeaths + 1
    /\ flusher' = [flusher EXCEPT ![f] = Resting]
    /\ UNCHANGED <<news, cursor, marks, posted>>

-----------------------------------------------------------------------------
NotifyInit ==
    /\ news = <<>>
    /\ cursor = None
    /\ marks = {}
    /\ flusher = [f \in Flushers |-> Resting]
    /\ posted = [i \in 1 .. MaxNews |-> 0]
    /\ flushDeaths = 0

FlusherStep(f) ==
    \/ ReadsCursor(f) \/ Selects(f) \/ RecordsCursor(f)
    \/ \E answer \in {"sent", "failed"} : Posts(f, answer)

NotifyNext ==
    \/ \E type \in {"line", "retry"} : NewsComes(type)
    \/ \E f \in Flushers : FlusherStep(f) \/ FlusherDies(f)

\* The daemon's loop and the runner's flush again and again.
NotifyFairness == \A f \in Flushers : WF_notifyVars(FlusherStep(f))

NotifySpec == NotifyInit /\ [][NotifyNext]_notifyVars /\ NotifyFairness

-----------------------------------------------------------------------------
(* Properties.                                                             *)

\* Recorded after every first flush: two flushers may both take theirs for the
\* first, and the later one then starts from its own end of the log.
Due == {i \in DOMAIN news :
            news[i] = "line" /\ marks # {} /\ \A mark \in marks : i > mark}

\* The cursor passes no event that was not posted, whatever other flushers
\* record and however full a batch is.
NoneSkipped == \A i \in Due : i <= cursor => posted[i] > 0

\* Every event is posted in the end, through failures and deaths.
AllPosted == []<>(\A i \in Due : posted[i] > 0)
=============================================================================
