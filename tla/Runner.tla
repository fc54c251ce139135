------------------------------- MODULE Runner -------------------------------
(***************************************************************************)
(* The unattended runner, core/runner.py, over the node table.             *)
(*                                                                         *)
(* A run is a process: it registers, sweeps what lapsed, and then cycles:  *)
(* read the table, pick a batch, run every picked node to an outcome in a  *)
(* thread of its own, and go round again unless an outcome needs a human.  *)
(* A thread takes one transaction at a time; between two of them humans,   *)
(* the daemon, hand-driven agents and other runs move the same rows.       *)
(*                                                                         *)
(* Node rows and human verbs are those of NodeLifecycle; the plan is       *)
(* approved and not edited here.  One run is modelled step by step; other  *)
(* runs show up by the verbs they issue.  Time is a tick, and rate-limit   *)
(* times are kept relative to it.                                          *)
(***************************************************************************)
EXTENDS NodeLifecycle

CONSTANTS
    Drivers,      \* config.agents; the owner string is `runner:<agent>`
    Others,       \* who else works on each node: people's agents, other runs
    Route,        \* [routing]: the driver of each node
    OnLimit,      \* on_rate_limit: "wait", "pause", or the fallback driver
    OnTimeout,    \* on_rate_limit_timeout: "pause" or the fallback driver
    MaxWait,      \* max_wait_minutes, in ticks
    RetryAfter,   \* what a driver may report as retry_after, in ticks
    DependsOn,    \* deps
    Clashes,      \* the pairs of nodes whose predicted_touches overlap
    Parallel,     \* --parallel
    Concurrency,  \* max_concurrency of each driver
    Budget        \* budget limit of each driver, in runs; 0 is no limit

ASSUME DriverAssumption ==
    /\ Drivers \subseteq Agents
    /\ Others \in [Nodes -> SUBSET Agents]
    /\ Route \in [Nodes -> Drivers]
    /\ OnLimit \in [Drivers -> Drivers \cup {"wait", "pause"}]
    /\ OnTimeout \in [Drivers -> Drivers \cup {"pause"}]
ASSUME ScheduleAssumption ==
    /\ Nodes \subseteq Nat \ {0} /\ IsFiniteSet(Nodes)
    /\ DependsOn \in [Nodes -> SUBSET Nodes]
    /\ Parallel \in Nat \ {0}
    /\ Concurrency \in [Drivers -> Nat \ {0}]
    /\ Budget \in [Drivers -> Nat]
ASSUME ClockAssumption == MaxWait \in Nat \ {0} /\ RetryAfter \subseteq Nat \ {0}

VARIABLES
    pc,        \* where the run is; "off" when there is none
    stopping,  \* _stop_requested; cleared here at the end, there at the start
    halt,      \* a thread of this cycle ended in a blocking outcome
    job,       \* the thread on each node: its step and its driver
    told,      \* nodes whose launched session was stopped from the dashboard
    due,       \* rows a sweep has selected and not handled, by thread
    limit,     \* the latest runner.rate_limited event of each node
    spent,     \* agent_spend
    holds      \* history: nodes the run has started and that nobody took

loopVars   == <<pc, stopping>>
threadVars == <<job, halt>>
runVars    == <<loopVars, threadVars, told, due>>
rVars      == <<vars, runVars, limit, spent, holds>>

\* What a driver returned and the thread has not acted on.
Results == {"done", "failed", "rate_limited", "unavailable"}
Steps == {"none", "picked", "starting", "started", "running", "limited",
          "waiting", "sweeping"} \cup Results

Idle == [at |-> "none", by |-> NoOwner]
Main == 0      \* the thread of the run loop, beside those of the nodes

-----------------------------------------------------------------------------
(* Verbs of core/nodes.py that only daemons use.                           *)

untouched == <<phase, countVars, version, planVars, deleted, callVars>>

\* nodes.ready passes the node's own owner as the actor, so it is legal for a
\* running node too; owner and lease stay.
Ready(n) ==
    /\ Legal(n, "ready", owner[n])
    /\ MoveTo(n, "ready", NoReason)
    /\ UNCHANGED <<untouched, leaseVars>>

ReleaseLease(n, a) ==
    /\ Legal(n, "ready", a)
    /\ MoveTo(n, "ready", NoReason)
    /\ DropLease(n)
    /\ UNCHANGED untouched

Block(n, why, a) ==
    /\ Legal(n, "blocked", a)
    /\ MoveTo(n, "blocked", why)
    /\ UNCHANGED <<untouched, leaseVars>>

\* Mutant of Start: the checks made before the transaction are trusted.
StartUnchecked(n, a) ==
    /\ MoveTo(n, "in_progress", NoReason)
    /\ GiveLease(n, a)
    /\ UNCHANGED untouched

\* The transaction of `start`; its early checks are in PickedStarts.
Start(n, a) ==
    /\ Legal(n, "in_progress", a)
    /\ MoveTo(n, "in_progress", NoReason)
    /\ GiveLease(n, a)
    /\ UNCHANGED untouched

Loses(S) == holds' = holds \ S

-----------------------------------------------------------------------------
(* Rate limits, as the events of a node record them: the time to retry_at, *)
(* the time since wait_started_at, and whether the episode still counts.   *)

NoLimit == [left |-> 0, waited |-> MaxWait, kept |-> FALSE]

\* Mutant of WaitStart: every limit begins an episode.
WaitStartNow(n) == 0

\* _rate_limit_wait_started_at: the episode of the last limit goes on if
\* nothing but node.ready and node.start was recorded since.
WaitStart(n) == IF limit[n].kept THEN limit[n].waited ELSE 0

Limit(n) ==
    \E k \in RetryAfter :
        limit' = [limit EXCEPT ![n] = [left |-> k, waited |-> WaitStart(n),
                                       kept |-> TRUE]]

\* Any other event of these nodes ends their episode.
Interrupt(S) ==
    limit' = [n \in Nodes |-> IF n \in S THEN [limit[n] EXCEPT !.kept = FALSE]
                                         ELSE limit[n]]

RateLimited == {n \in Nodes \ deleted : /\ status[n] = "blocked"
                                        /\ reason[n] = "rate_limit"}

Tick ==
    /\ limit' = [n \in Nodes |->
           [left   |-> IF limit[n].left > 0 THEN limit[n].left - 1 ELSE 0,
            waited |-> IF limit[n].waited < MaxWait THEN limit[n].waited + 1
                                                    ELSE MaxWait,
            kept   |-> limit[n].kept]]
    /\ UNCHANGED <<vars, runVars, spent, holds>>

-----------------------------------------------------------------------------
(* The run: register, sweep, schedule.                                     *)

RunGoes(step) ==
    /\ pc' = step
    /\ UNCHANGED <<vars, limit, spent, holds>>

RunBegins ==
    /\ pc = "off"
    /\ RunGoes("leases")
    /\ UNCHANGED <<stopping, threadVars, told, due>>

\* reconcile_leases at the top of every run.
RunSweepsLeases ==
    /\ pc = "leases"
    /\ pc' = "limits"
    /\ \/ Lapsed = {} /\ UNCHANGED <<vars, limit, holds>>
       \/ ReconcileLeases /\ Interrupt(Lapsed) /\ Loses(Lapsed)
    /\ due' = [due EXCEPT ![Main] = RateLimited]
    /\ UNCHANGED <<stopping, threadVars, told, spent>>

\* One row of reconcile_rate_limits.  The rows were selected in a statement of
\* their own; retry_at is read, and the row made ready, one by one.
SweepOne(t, n) ==
    /\ n \in due[t]
    /\ due' = [due EXCEPT ![t] = @ \ {n}]
    /\ IF limit[n].left = 0 THEN Ready(n) /\ Loses({n})
                            ELSE UNCHANGED <<vars, holds>>
    /\ UNCHANGED <<loopVars, threadVars, told, limit, spent>>

\* The process is gone: killed, or crashed.  Its threads go with it, and its
\* nodes stay as they are.
Vanish ==
    /\ pc' = "off"
    /\ job' = [n \in Nodes |-> Idle]
    /\ due' = [t \in Nodes \cup {Main} |-> {}]
    /\ told' = {}
    /\ halt' = FALSE
    /\ holds' = {}
    /\ stopping' = FALSE
    /\ UNCHANGED <<vars, limit, spent>>

RunnerDies == pc # "off" /\ Vanish

\* A row of the first sweep has moved on and the table refuses `ready`: the
\* error leaves the run.
FirstSweepRaises ==
    /\ \E n \in due[Main] : limit[n].left = 0 /\ ~Legal(n, "ready", owner[n])
    /\ Vanish

RunSwept ==
    /\ pc = "limits"
    /\ due[Main] = {}
    /\ RunGoes("loop")
    /\ UNCHANGED <<stopping, threadVars, told, due>>

\* agent_for_node: a node that still names a runner's driver goes back to it.
AgentFor(n) == IF owner[n] \in Drivers THEN owner[n] ELSE Route[n]

\* Mutant of Exhausted: a driver at its limit runs once more.
ExhaustedLate(a) == Budget[a] # 0 /\ spent[a] > Budget[a]

Exhausted(a) == Budget[a] # 0 /\ spent[a] >= Budget[a]

\* _ready_nodes.
Schedulable ==
    {n \in Nodes \ (Specs \cup deleted) :
        /\ status[n] = "ready"
        /\ phase # "paused"
        /\ \A d \in DependsOn[n] \ deleted : status[d] = "done"}

\* What select_batch asks of a node, beside those it has selected before.
Fits(n, S) ==
    /\ Cardinality(S) < Parallel
    /\ ~Exhausted(AgentFor(n))
    /\ Cardinality({m \in S : AgentFor(m) = AgentFor(n)}) < Concurrency[AgentFor(n)]
    /\ \A m \in S : {m, n} \notin Clashes

\* The greedy choice in the order of ids.
Batch ==
    CHOOSE S \in SUBSET Schedulable :
        \A n \in Schedulable : n \in S <=> Fits(n, {m \in S : m < n})

Gating == {n \in Nodes \ deleted :
               status[n] \in {"awaiting_approval", "blocked", "failed"}}

MustStop == stopping \/ phase = "paused" \/ Gating # {} \/ halt \/ Batch = {}

\* The top of a cycle: pick a batch.
RunPicks ==
    /\ pc = "loop"
    /\ ~MustStop
    /\ RunGoes("batch")
    /\ job' = [n \in Nodes |-> IF n \in Batch
                               THEN [at |-> "picked", by |-> AgentFor(n)]
                               ELSE Idle]
    /\ UNCHANGED <<stopping, halt, told, due>>

\* ... or return: also when max_nodes_per_run, max_wall_clock_minutes or
\* max_cycles is reached, which the model leaves open.
RunReturns ==
    /\ pc = "loop"
    /\ RunGoes("off")
    /\ stopping' = FALSE
    /\ halt' = FALSE
    /\ told' = {}
    /\ UNCHANGED <<job, due>>

RunCollects ==
    /\ pc = "batch"
    /\ \A n \in Nodes : job[n].at = "none"
    /\ RunGoes("loop")
    /\ UNCHANGED <<stopping, threadVars, told, due>>

\* SIGTERM, from runners.stop after a pause or from a terminal: the flag is
\* set and the drivers that have been spawned are killed.
RunStopped ==
    /\ pc # "off"
    /\ ~stopping
    /\ stopping' = TRUE
    /\ job' = [n \in Nodes |-> IF job[n].at = "running"
                               THEN [job[n] EXCEPT !.at = "failed"] ELSE job[n]]
    /\ UNCHANGED <<vars, pc, halt, told, due, limit, spent, holds>>

-----------------------------------------------------------------------------
(* A thread: run_node.                                                     *)

Goes(n, step) ==
    /\ job' = [job EXCEPT ![n].at = step]
    /\ UNCHANGED halt

\* The thread ends; `blocking` says whether its outcome ends the run.
Ends(n, blocking) ==
    /\ job' = [job EXCEPT ![n] = Idle]
    /\ halt' = (halt \/ blocking)

\* run_node again, with another driver.
HandTo(n, a) ==
    /\ job' = [job EXCEPT ![n] = [at |-> "picked", by |-> a]]
    /\ UNCHANGED halt

OnlyThread == UNCHANGED <<vars, loopVars, told, due, limit, spent, holds>>

\* An error, or an outcome that ends the run, and no more to write.
GivesUp(n) == Ends(n, TRUE) /\ OnlyThread

\* The checks of `start`, over what the row has become since the batch.
MayStart(n, a) ==
    /\ status[n] # "blocked"
    /\ phase \notin {"planning", "paused"}
    /\ ~ (status[n] = "in_progress" /\ owner[n] \notin {NoOwner, a}
                                    /\ lease[n] = "live")

PickedStarts(n) ==
    /\ job[n].at = "picked"
    /\ ~stopping
    /\ MayStart(n, job[n].by)
    /\ Goes(n, "starting")
    /\ OnlyThread

\* The stop, the pause, or a refusal.
PickedEnds(n) ==
    /\ job[n].at = "picked"
    /\ stopping \/ ~MayStart(n, job[n].by)
    /\ GivesUp(n)

\* `start` commits, and start_launched opens a session of its own.
ThreadStarts(n) ==
    /\ job[n].at = "starting"
    /\ Start(n, job[n].by)
    /\ Goes(n, "started")
    /\ holds' = holds \cup {n}
    /\ told' = told \ {n}
    /\ UNCHANGED <<loopVars, due, limit, spent>>

\* The table refuses, or the worktree cannot be bound (start_failed).
ThreadFailsToStart(n) == job[n].at = "starting" /\ GivesUp(n)

\* invoke_driver: auth_check, then the process.  A process spawned after the
\* SIGTERM was handled is not killed by it.
DriverSpawns(n) ==
    /\ job[n].at = "started"
    /\ \/ Goes(n, "running")
       \/ Goes(n, "unavailable")
    /\ OnlyThread

DriverReturns(n) ==
    /\ job[n].at = "running"
    /\ \E result \in Results \ {"unavailable"} : Goes(n, result)
    /\ OnlyThread

\* The drain after the driver, or a check that done runs, raises: the error
\* leaves the run, and the node waits for its lease to lapse.
ThreadRaises(n) ==
    /\ job[n].at \in Results
    /\ Ends(n, TRUE)
    /\ Loses({n})
    /\ UNCHANGED <<vars, loopVars, told, due, limit, spent>>

\* The agent's commits and hooks are drained while it works: events.
AgentIsSeen(n) ==
    /\ job[n].at = "running"
    /\ Interrupt({n})
    /\ UNCHANGED <<vars, runVars, spent, holds>>

\* stop_launched: the stop event and the signal in one transaction.
SessionStopped(n) ==
    /\ job[n].at = "running"
    /\ told' = told \cup {n}
    /\ Goes(n, "failed")
    /\ Interrupt({n})
    /\ UNCHANGED <<vars, loopVars, due, spent, holds>>

MustRelease(n) == stopping \/ n \in told

\* Mutant of Stopped: the node of a stopped driver is left as it is.
StoppedKeeps(n) ==
    /\ job[n].at \in Results
    /\ MustRelease(n)
    /\ GivesUp(n)

\* The driver was stopped, not failing: the node goes back, no attempt used.
Stopped(n) ==
    /\ job[n].at \in Results
    /\ MustRelease(n)
    /\ ReleaseLease(n, job[n].by)
    /\ Loses({n})
    /\ Interrupt({n})
    /\ Ends(n, TRUE)
    /\ told' = told \ {n}
    /\ UNCHANGED <<loopVars, due, spent>>

\* _record_usage; what an unlimited driver spends is not read back.
Spends(a) == spent' = IF Budget[a] = 0 THEN spent
                                       ELSE [spent EXCEPT ![a] = @ + 1]

ResultIs(n, result) == job[n].at = result /\ ~MustRelease(n)

ResultDone(n) ==
    /\ ResultIs(n, "done")
    /\ Done(n, job[n].by, NoVersion)
    /\ Interrupt({n})
    /\ Loses({n})
    /\ Spends(job[n].by)
    /\ Ends(n, status'[n] = "review")
    /\ UNCHANGED <<loopVars, told, due>>

ResultFailed(n) ==
    /\ ResultIs(n, "failed")
    /\ Fail(n, job[n].by, NoVersion)
    /\ Interrupt({n})
    /\ Loses({n})
    /\ Spends(job[n].by)
    /\ Ends(n, status'[n] = "failed")
    /\ UNCHANGED <<loopVars, told, due>>

\* _apply_rate_limit: the block and its event.
ResultLimited(n) ==
    /\ ResultIs(n, "rate_limited")
    /\ Block(n, "rate_limit", job[n].by)
    /\ Limit(n)
    /\ Loses({n})
    /\ Spends(job[n].by)
    /\ Goes(n, "limited")
    /\ UNCHANGED <<loopVars, told, due>>

\* _handle_unavailable with no fallback.
UnavailableBlocks(n) ==
    /\ ResultIs(n, "unavailable")
    /\ OnLimit[job[n].by] \notin Drivers
    /\ Block(n, "external", job[n].by)
    /\ Interrupt({n})
    /\ Loses({n})
    /\ Ends(n, TRUE)
    /\ UNCHANGED <<loopVars, told, due, spent>>

\* Mutant of FallsBack: whatever on_rate_limit says is taken for a driver.
FallsBackAnyway(n) ==
    /\ \/ ResultIs(n, "unavailable")
       \/ job[n].at = "limited"
    /\ Ready(n)
    /\ Loses({n})
    /\ HandTo(n, OnLimit[job[n].by])
    /\ UNCHANGED <<loopVars, told, due, limit, spent>>

\* _dispatch_fallback and its twin in _handle_unavailable: ready, then the
\* other driver.
FallsBack(n) ==
    /\ \/ ResultIs(n, "unavailable")
       \/ job[n].at = "limited"
    /\ OnLimit[job[n].by] \in Drivers
    /\ Ready(n)
    /\ Loses({n})
    /\ HandTo(n, OnLimit[job[n].by])
    /\ UNCHANGED <<loopVars, told, due, limit, spent>>

LimitedPauses(n) ==
    /\ job[n].at = "limited"
    /\ OnLimit[job[n].by] = "pause"
    /\ GivesUp(n)

LimitedWaits(n) ==
    /\ job[n].at = "limited"
    /\ OnLimit[job[n].by] = "wait"
    /\ Goes(n, "waiting")
    /\ OnlyThread

\* The sleep ends at retry_at or at the end of the wait budget, or by a stop.
WaitStopped(n) == job[n].at = "waiting" /\ stopping /\ GivesUp(n)

WaitOver(n) ==
    /\ job[n].at = "waiting"
    /\ limit[n].left = 0
    /\ limit[n].waited < MaxWait
    /\ Goes(n, "sweeping")
    /\ due' = [due EXCEPT ![n] = RateLimited]
    /\ UNCHANGED <<vars, loopVars, told, limit, spent, holds>>

SweptInThread(n) ==
    /\ job[n].at = "sweeping"
    /\ due[n] = {}
    /\ Ends(n, FALSE)
    /\ OnlyThread

SweepRaises(n) ==
    /\ \E m \in due[n] : limit[m].left = 0 /\ ~Legal(m, "ready", owner[m])
    /\ Ends(n, TRUE)
    /\ due' = [due EXCEPT ![n] = {}]
    /\ UNCHANGED <<vars, loopVars, told, limit, spent, holds>>

\* on_rate_limit_timeout, after runner.rate_limit_wait_exhausted.
WaitEscalates(n) ==
    LET to == OnTimeout[job[n].by] IN
    /\ job[n].at = "waiting"
    /\ limit[n].waited = MaxWait
    /\ Interrupt({n})
    /\ IF to \in Drivers
       THEN Ready(n) /\ Loses({n}) /\ HandTo(n, to)
       ELSE Ends(n, TRUE) /\ UNCHANGED <<vars, holds>>
    /\ UNCHANGED <<loopVars, told, due, spent>>

\* What a thread was about to do has become illegal: the node was taken,
\* swept or moved by somebody else.
Overtaken(n) ==
    LET a == job[n].by IN
    /\ \/ job[n].at \in Results /\ MustRelease(n) /\ ~Legal(n, "ready", a)
       \/ ResultIs(n, "done") /\ ~Legal(n, "review", a)
       \/ ResultIs(n, "failed") /\ ~Legal(n, FailedStatus(n), a)
       \/ ResultIs(n, "rate_limited") /\ ~Legal(n, "blocked", a)
       \/ /\ ResultIs(n, "unavailable")
          /\ OnLimit[a] \notin Drivers
          /\ ~Legal(n, "blocked", a)
       \/ /\ \/ ResultIs(n, "unavailable") /\ OnLimit[a] \in Drivers
             \/ job[n].at = "limited" /\ OnLimit[a] \in Drivers
             \/ /\ job[n].at = "waiting" /\ OnTimeout[a] \in Drivers
                /\ limit[n].waited = MaxWait
          /\ ~Legal(n, "ready", owner[n])
    /\ GivesUp(n)

-----------------------------------------------------------------------------
(* Everybody else, by the verbs of NodeLifecycle and the events they leave. *)

HumanMoves(n) ==
    /\ \/ \E a \in Others[n] : Handoff(n, a) /\ Loses({n})
       \/ (ApproveReview(n) \/ RejectReview(n)) /\ UNCHANGED holds
    /\ Interrupt({n})
    /\ UNCHANGED <<runVars, spent>>

\* Another run, or an agent driven by hand.  Two runs of one agent have the
\* same owner string.
OthersWork(n, a) ==
    /\ \/ phase # "paused" /\ Start(n, a) /\ UNCHANGED limit
       \/ (Done(n, a, NoVersion) \/ Fail(n, a, NoVersion)) /\ Interrupt({n})
    /\ Loses({n})
    /\ UNCHANGED <<runVars, spent>>

ProjectPhase == (Pause \/ Resume) /\ UNCHANGED <<runVars, limit, spent, holds>>

\* MaxExpiries bounds the sweeps of a row, so it bounds the lapses too.
LeaseLapses(n) ==
    /\ expiries[n] < MaxExpiries
    /\ LeaseExpires(n)
    /\ UNCHANGED <<runVars, limit, spent, holds>>

DaemonSweeps ==
    /\ ReconcileLeases
    /\ Interrupt(Lapsed)
    /\ Loses(Lapsed)
    /\ UNCHANGED <<runVars, spent>>

-----------------------------------------------------------------------------
\* An approved plan, in execution, and nobody at work.
RInit ==
    /\ phase    = "executing"
    /\ status   = [n \in Nodes |-> "ready"]
    /\ owner    = [n \in Nodes |-> NoOwner]
    /\ lease    = [n \in Nodes |-> "none"]
    /\ reason   = [n \in Nodes |-> NoReason]
    /\ attempts = [n \in Nodes |-> 0]
    /\ expiries = [n \in Nodes |-> 0]
    /\ version  = [n \in Nodes |-> 1]
    /\ criteria = [n \in Nodes |-> CHOOSE c \in Contents : TRUE]
    /\ hash     = criteria
    /\ tier     = [n \in Nodes |-> Low]
    /\ deleted  = {}
    /\ starting = [n \in Nodes |-> {}]
    /\ started  = [n \in Nodes |-> [version |-> 1, criteria |-> criteria[n]]]
    /\ retiered = {}
    /\ pc = "off" /\ stopping = FALSE /\ halt = FALSE
    /\ job = [n \in Nodes |-> Idle]
    /\ told = {}
    /\ due = [t \in Nodes \cup {Main} |-> {}]
    /\ limit = [n \in Nodes |-> NoLimit]
    /\ spent = [a \in Drivers |-> 0]
    /\ holds = {}

\* What the run itself does, and must go on doing.
LoopStep ==
    \/ RunSweepsLeases \/ FirstSweepRaises \/ RunSwept
    \/ RunPicks \/ RunReturns \/ RunCollects
    \/ \E n \in Nodes : SweepOne(Main, n)

ThreadStep(n) ==
    \/ PickedStarts(n) \/ PickedEnds(n) \/ ThreadStarts(n) \/ ThreadFailsToStart(n)
    \/ DriverSpawns(n) \/ DriverReturns(n) \/ Stopped(n)
    \/ ResultDone(n) \/ ResultFailed(n) \/ ResultLimited(n)
    \/ UnavailableBlocks(n) \/ FallsBack(n) \/ LimitedPauses(n) \/ LimitedWaits(n)
    \/ WaitStopped(n) \/ WaitOver(n) \/ WaitEscalates(n)
    \/ SweptInThread(n) \/ SweepRaises(n) \/ Overtaken(n) \/ ThreadRaises(n)
    \/ \E m \in Nodes : SweepOne(n, m)

\* What comes from outside.
OutsideStep ==
    \/ RunBegins \/ RunStopped \/ RunnerDies
    \/ ProjectPhase \/ DaemonSweeps
    \/ \E n \in Nodes : \/ AgentIsSeen(n) \/ SessionStopped(n)
                        \/ HumanMoves(n) \/ LeaseLapses(n)
                        \/ \E a \in Others[n] : OthersWork(n, a)

RNext == Tick \/ LoopStep \/ OutsideStep \/ \E n \in Nodes : ThreadStep(n)

\* The process and its threads are scheduled, a driver returns (the code kills
\* it at a time limit), and time passes.
RFairness ==
    /\ WF_rVars(LoopStep)
    /\ \A n \in Nodes : WF_rVars(ThreadStep(n))
    /\ WF_rVars(Tick)

RSpec == RInit /\ [][RNext]_rVars /\ RFairness

-----------------------------------------------------------------------------
(* Properties.                                                             *)

\* The run's own state has its type, beside the columns of the table.
RTypeOK ==
    /\ TypeOK
    /\ pc \in {"off", "leases", "limits", "loop", "batch"}
    /\ stopping \in BOOLEAN /\ halt \in BOOLEAN
    /\ job \in [Nodes -> [at : Steps, by : Drivers \cup {NoOwner}]]
    /\ told \in SUBSET Nodes
    /\ due \in [Nodes \cup {Main} -> SUBSET Nodes]
    /\ limit \in [Nodes -> [left : Nat, waited : 0 .. MaxWait, kept : BOOLEAN]]
    /\ spent \in [Drivers -> Nat]
    /\ holds \in SUBSET Nodes

\* A run that returns leaves no node in progress that it started and nobody
\* took, whichever mix of stops, limits, fallbacks and refusals its threads
\* went through; only a crash or an error leaves one for the lease sweep.
ExitLeavesNothingHeld == pc = "off" => \A n \in holds : status[n] # "in_progress"

\* Budgets are read once for a whole batch: a driver that is nobody's fallback
\* overruns its limit by less than its own concurrency.
OverrunIsBounded ==
    \A a \in Drivers :
        Budget[a] # 0 /\ (\A b \in Drivers : a \notin {OnLimit[b], OnTimeout[b]})
            => spent[a] <= Budget[a] + Concurrency[a] - 1

\* A run left alone ends: failures run out of attempts, waits out of
\* max_wait_minutes, and everything else ends a run or a node.
RunEnds == <>[][~OutsideStep]_rVars => (pc # "off" ~> pc = "off")

\* As documented: only the holder of a node may make it ready again while it is
\* in progress under a live lease.
OnlyHolderGivesBack ==
    [][\A n \in Nodes :
           status[n] = "in_progress" /\ lease[n] = "live" /\ status'[n] = "ready"
               => \/ Fail(n, owner[n], NoVersion)
                  \/ ReleaseLease(n, owner[n])]_rVars
=============================================================================
