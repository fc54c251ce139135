------------------------------ MODULE Requests -------------------------------
(***************************************************************************)
(* Request ids: `once` of core/idempotency.py, for the calls of one verb   *)
(* that carry one request id, a client's retries among them.  The verb is  *)
(* atomic (check, run and record in one transaction) or not (merge, close, *)
(* pause, a session's stop: the lock is not held while it runs).           *)
(***************************************************************************)
EXTENDS Integers, FiniteSets

CONSTANTS
    Calls,
    MaxWindows,    \* bound on the times the 24 hours pass
    MaxCallDeaths  \* bound on the callers that die

ASSUME RequestsAssumption == MaxWindows \in Nat /\ MaxCallDeaths \in Nat

VARIABLES
    atomic,    \* how the verb is called
    recorded,  \* request.<verb>.completed of the last 24 hours: results, or 0
    runs,      \* how often the verb ran and committed; its result is the count
    call,      \* what each caller is doing, and the result in its hands
    windows,   \* how often the record has aged out
    exposed    \* calls that looked while another ran, or after one died

requestsVars == <<atomic, recorded, runs, call, windows, exposed>>

Waiting  == [at |-> "waiting", result |-> 0]
Running  == {c \in Calls : call[c].at \in {"running", "recording"}}
Died     == {c \in Calls : call[c].at = "died"}

Goes(c, at, result) == call' = [call EXCEPT ![c] = [at |-> at, result |-> result]]

-----------------------------------------------------------------------------
\* Mutant of Stored: a verb that is not atomic is left to its own idempotency.
StoredIfAtomic == IF atomic THEN recorded ELSE 0

\* _stored: the most recent record in the window.
Stored == recorded

Replies(c) ==
    /\ call[c].at = "waiting" /\ Stored # 0
    /\ Goes(c, "replied", Stored)
    /\ UNCHANGED <<atomic, recorded, runs, windows, exposed>>

\* An atomic verb runs and is recorded in the transaction that looked.
RunsAtomic(c) ==
    /\ atomic /\ call[c].at = "waiting" /\ Stored = 0
    /\ runs' = runs + 1 /\ recorded' = runs + 1
    /\ Goes(c, "replied", runs + 1)
    /\ UNCHANGED <<atomic, windows, exposed>>

\* Another verb begins without the lock.
LooksFirst(c) ==
    /\ ~atomic /\ call[c].at = "waiting" /\ Stored = 0
    /\ Goes(c, "running", 0)
    /\ exposed' = IF Running \cup Died = {} THEN exposed ELSE exposed \cup {c}
    /\ UNCHANGED <<atomic, recorded, runs, windows>>

RunsVerb(c) ==
    /\ call[c].at = "running"
    /\ runs' = runs + 1
    /\ Goes(c, "recording", runs + 1)
    /\ UNCHANGED <<atomic, recorded, windows, exposed>>

RecordsResult(c) ==
    /\ call[c].at = "recording"
    /\ recorded' = call[c].result
    /\ Goes(c, "replied", call[c].result)
    /\ UNCHANGED <<atomic, runs, windows, exposed>>

\* The verb raises: nothing is recorded, and the client may ask again.
VerbRaises(c) ==
    /\ call[c].at = "running"
    /\ Goes(c, "waiting", 0)
    /\ UNCHANGED <<atomic, recorded, runs, windows, exposed>>

\* The process dies before or after the verb's own transaction.
CallerDies(c) ==
    /\ c \in Running /\ Cardinality(Died) < MaxCallDeaths
    /\ Goes(c, "died", call[c].result)
    /\ UNCHANGED <<atomic, recorded, runs, windows, exposed>>

\* DEDUPE_WINDOW.
WindowPasses ==
    /\ windows < MaxWindows /\ recorded # 0
    /\ windows' = windows + 1
    /\ recorded' = 0
    /\ UNCHANGED <<atomic, runs, call, exposed>>

-----------------------------------------------------------------------------
RequestsInit ==
    /\ atomic \in BOOLEAN
    /\ recorded = 0 /\ runs = 0
    /\ call = [c \in Calls |-> Waiting]
    /\ windows = 0 /\ exposed = {}

RequestsNext ==
    \/ \E c \in Calls : \/ Replies(c) \/ RunsAtomic(c) \/ LooksFirst(c) \/ RunsVerb(c)
                        \/ RecordsResult(c) \/ VerbRaises(c) \/ CallerDies(c)
    \/ WindowPasses

RequestsSpec == RequestsInit /\ [][RequestsNext]_requestsVars

-----------------------------------------------------------------------------
(* Properties.                                                             *)

\* A verb runs once in the 24 hours of its request id, however often it is
\* retried.  A verb that is not atomic runs again only for a call that looked
\* while another was running, or after one that died: there the verb's own
\* guards have to answer.
RunsOnce == runs <= 1 + windows + Cardinality(exposed)
=============================================================================
