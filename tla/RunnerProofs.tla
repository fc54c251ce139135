---------------------------- MODULE RunnerProofs ----------------------------
(* Theorems about Runner, for every value of its constants: what a run     *)
(* started and nobody took is in the hands of one of its threads, so a run *)
(* that returns has none; the runner's steps implement LeaseLedger; and a  *)
(* driver overruns its budget by less than its own concurrency.            *)
EXTENDS Runner, NodeLifecycleProofs, FiniteSetTheorems, WellFoundedInduction

USE OwnerAssumption, HashAssumption, DriverAssumption, ScheduleAssumption,
    ClockAssumption

Threads   == [at : Steps, by : Drivers \cup {NoOwner}]
Limits    == [left : Nat, waited : 0 .. MaxWait, kept : BOOLEAN]

\* A node is launched from its `start` until the thread has written the result.
Launched == {"started", "running"} \cup Results

\* A thread exists only while the run waits for a batch, and has a driver.
ThreadsAtWork ==
    \A n \in Nodes : job[n].at # "none" => pc = "batch" /\ job[n].by \in Drivers

\* Only a thread that sweeps has rows of its own to sweep.
OwnSweeps == \A n \in Nodes : due[n] # {} => job[n].at = "sweeping"

\* What the run holds is in progress for the driver of the thread that has it.
HeldByThread ==
    \A n \in holds : /\ status[n] = "in_progress"
                     /\ owner[n] = job[n].by
                     /\ job[n].at \in Launched

RunInv == RTypeOK /\ ThreadsAtWork /\ OwnSweeps /\ HeldByThread

-----------------------------------------------------------------------------
(* What a step of the runner does to the node table.                       *)

\* A verb of Runner, or a step of NodeLifecycle.
RowStep ==
    \/ [Next]_vars
    \/ \E n \in Nodes : \/ Ready(n)
                        \/ \E a \in Agents : ReleaseLease(n, a) \/ Start(n, a)
                        \/ \E why \in BlockReasons, a \in Agents : Block(n, why, a)

LEMMA RowTypes == TypeOK /\ RowStep => TypeOK'
<1> SUFFICES ASSUME TypeOK, RowStep PROVE TypeOK'
  OBVIOUS
<1> USE DEF MoveTo, GiveLease, DropLease, untouched, planVars, leaseVars,
            countVars, callVars
<1>1. CASE [Next]_vars
  BY <1>1, TypeNext
<1>2. ASSUME NEW n \in Nodes, Ready(n) PROVE TypeOK'
  BY <1>2 DEF Ready, TypeOK, Statuses
<1>3. ASSUME NEW n \in Nodes, NEW a \in Agents, ReleaseLease(n, a) PROVE TypeOK'
  BY <1>3 DEF ReleaseLease, TypeOK, Statuses
<1>4. ASSUME NEW n \in Nodes, NEW a \in Agents, Start(n, a) PROVE TypeOK'
  BY <1>4 DEF Start, TypeOK, Statuses
<1>5. ASSUME NEW n \in Nodes, NEW a \in Agents, NEW why \in BlockReasons,
             Block(n, why, a)
      PROVE  TypeOK'
  BY <1>5 DEF Block, TypeOK, Statuses
<1>6. QED
  BY <1>1, <1>2, <1>3, <1>4, <1>5 DEF RowStep

\* The verbs of Runner move the ledger as it may move.
LEMMA RowLedger == TypeOK /\ RowStep => LedgerStep
<1> SUFFICES ASSUME TypeOK, RowStep PROVE LedgerStep
  OBVIOUS
<1>1. CASE [Next]_vars
  BY <1>1, LedgerNext
<1>2. ASSUME NEW n \in Nodes, OnlyTouches(n), status'[n] = "ready",
             status[n] \in {"pending", "blocked", "in_progress"}
      PROVE  LedgerStep
  <2>1. StageMap'[n] = "free" /\ HolderMap'[n] = NoOwner
    BY <1>2, StageValues
  <2>2. CASE status[n] = "pending"
    BY <1>2, <2>1, <2>2, StageValues, OneItemMoves
  <2>3. CASE status[n] \in {"blocked", "in_progress"}
    <3>1. StageMap[n] \in {"held", "parked"}
      BY <2>3, StageValues DEF Held
    <3>2. QED
      BY <1>2, <2>1, <3>1, ItemSteps
  <2>4. QED
    BY <1>2, <2>2, <2>3
<1>3. ASSUME NEW n \in Nodes, Ready(n) \/ \E a \in Agents : ReleaseLease(n, a)
      PROVE  LedgerStep
  <2>1. OnlyTouches(n) /\ status'[n] = "ready"
    BY <1>3 DEF Ready, ReleaseLease, MoveTo, DropLease, OnlyTouches, leaseVars,
                TypeOK
  <2>2. status[n] \in {"pending", "blocked", "in_progress"}
    BY <1>3 DEF Ready, ReleaseLease, Legal, FreeEdges, OwnerEdges
  <2>3. QED
    BY <1>2, <2>1, <2>2
<1>4. ASSUME NEW n \in Nodes, NEW a \in Agents, Start(n, a)
      PROVE  LedgerStep
  <2>1. OnlyTouches(n) /\ status'[n] = "in_progress" /\ owner'[n] = a
    BY <1>4 DEF Start, MoveTo, GiveLease, OnlyTouches, TypeOK
  <2>2. StageMap'[n] = "held" /\ HolderMap'[n] \in Agents
    BY <2>1, StageValues DEF Held
  <2>3. status[n] \in {"ready", "review", "awaiting_approval", "blocked"}
    BY <1>4 DEF Start, Legal, FreeEdges, OwnerEdges
  <2>4. StageMap[n] \in {"free", "held", "parked"}
    BY <2>3, StageValues DEF Held
  <2>5. QED
    BY <2>1, <2>2, <2>4, ItemSteps
<1>5. ASSUME NEW n \in Nodes, NEW a \in Agents, NEW why, Block(n, why, a)
      PROVE  LedgerStep
  <2>1. /\ OnlyTouches(n) /\ status'[n] = "blocked" /\ owner'[n] = owner[n]
    BY <1>5 DEF Block, MoveTo, OnlyTouches, leaseVars, TypeOK
  <2>2. status[n] \in {"in_progress", "awaiting_approval", "done"}
    BY <1>5 DEF Block, Legal, FreeEdges, OwnerEdges
  <2>3. /\ StageMap[n] \in {"held", "done"} /\ StageMap'[n] = "parked"
        /\ HolderMap'[n] = HolderMap[n]
    BY <2>1, <2>2, StageValues DEF Held
  <2>4. QED
    BY <2>1, <2>3, ItemSteps
<1>6. QED
  BY <1>1, <1>3, <1>4, <1>5 DEF RowStep

\* A step of NodeLifecycle that the runner's world takes.
LEMMA VerbIsStep ==
    ASSUME NEW n \in Nodes, NEW a \in Agents,
           \/ Handoff(n, a) \/ ApproveReview(n) \/ RejectReview(n)
           \/ LeaseExpires(n) \/ Done(n, a, NoVersion) \/ Fail(n, a, NoVersion)
    PROVE  RowStep
BY DEF RowStep, Next, NodeStep, HumanStep, AgentStep

-----------------------------------------------------------------------------
(* What a thread does to its own state.                                    *)

\* A thread moves on, keeping its driver; ends; or goes round again with
\* another driver.
LEMMA ThreadMoves ==
    ASSUME job \in [Nodes -> Threads], halt \in BOOLEAN, NEW n \in Nodes
    PROVE  /\ \A step \in Steps :
                 Goes(n, step) =>
                     /\ job' \in [Nodes -> Threads] /\ halt' \in BOOLEAN
                     /\ job'[n].at = step /\ job'[n].by = job[n].by
                     /\ \A m \in Nodes \ {n} : job'[m] = job[m]
           /\ \A b \in BOOLEAN :
                 Ends(n, b) =>
                     /\ job' \in [Nodes -> Threads] /\ halt' \in BOOLEAN
                     /\ job'[n].at = "none"
                     /\ \A m \in Nodes \ {n} : job'[m] = job[m]
           /\ \A a \in Drivers :
                 HandTo(n, a) =>
                     /\ job' \in [Nodes -> Threads] /\ halt' \in BOOLEAN
                     /\ job'[n].at = "picked" /\ job'[n].by = a
                     /\ \A m \in Nodes \ {n} : job'[m] = job[m]
<1>1. PICK s \in Steps, d \in Drivers \cup {NoOwner} : job[n] = [at |-> s, by |-> d]
  BY DEF Threads
<1>2. ASSUME NEW step \in Steps, Goes(n, step)
      PROVE  /\ job' \in [Nodes -> Threads] /\ halt' \in BOOLEAN
             /\ job'[n].at = step /\ job'[n].by = job[n].by
             /\ \A m \in Nodes \ {n} : job'[m] = job[m]
  <2>1. [job[n] EXCEPT !.at = step] = [at |-> step, by |-> d]
    BY <1>1
  <2>2. job' = [job EXCEPT ![n] = [job[n] EXCEPT !.at = step]] /\ halt' = halt
    BY <1>2 DEF Goes
  <2>3. [at |-> step, by |-> d] \in Threads
    BY DEF Threads
  <2>4. job' = [job EXCEPT ![n] = [at |-> step, by |-> d]]
    BY <2>1, <2>2
  <2>5. QED
    BY <1>1, <2>2, <2>3, <2>4
<1>3. ASSUME NEW b \in BOOLEAN, Ends(n, b)
      PROVE  /\ job' \in [Nodes -> Threads] /\ halt' \in BOOLEAN
             /\ job'[n].at = "none"
             /\ \A m \in Nodes \ {n} : job'[m] = job[m]
  <2>1. Idle \in Threads /\ Idle.at = "none"
    BY DEF Idle, Threads, Steps
  <2>2. QED
    BY <1>3, <2>1 DEF Ends
<1>4. ASSUME NEW a \in Drivers, HandTo(n, a)
      PROVE  /\ job' \in [Nodes -> Threads] /\ halt' \in BOOLEAN
             /\ job'[n].at = "picked" /\ job'[n].by = a
             /\ \A m \in Nodes \ {n} : job'[m] = job[m]
  <2>1. [at |-> "picked", by |-> a] \in Threads
    BY DEF Threads, Steps
  <2>2. QED
    BY <1>4, <2>1 DEF HandTo
<1>5. QED
  BY <1>2, <1>3, <1>4

\* The events of the rate limits keep their types.
LEMMA LimitTypes ==
    ASSUME limit \in [Nodes -> Limits], NEW n \in Nodes
    PROVE  Limit(n) => limit' \in [Nodes -> Limits]
<1>1. ASSUME NEW k \in RetryAfter
      PROVE  [left |-> k, waited |-> WaitStart(n), kept |-> TRUE] \in Limits
  <2>1. WaitStart(n) \in 0 .. MaxWait
    BY DEF WaitStart, Limits
  <2>2. k \in Nat
    OBVIOUS
  <2>3. QED
    BY <2>1, <2>2 DEF Limits
<1>2. QED
  BY <1>1 DEF Limit

LEMMA InterruptTypes ==
    ASSUME limit \in [Nodes -> Limits], NEW S, Interrupt(S)
    PROVE  limit' \in [Nodes -> Limits]
<1>1. ASSUME NEW n \in Nodes
      PROVE  [limit[n] EXCEPT !.kept = FALSE] \in Limits
  BY DEF Limits
<1>2. QED
  BY <1>1 DEF Interrupt

-----------------------------------------------------------------------------
(* Threads and sweeps.                                                     *)

RunTypeOK ==
    /\ pc \in {"off", "leases", "limits", "loop", "batch"}
    /\ stopping \in BOOLEAN /\ halt \in BOOLEAN
    /\ job \in [Nodes -> Threads]
    /\ told \in SUBSET Nodes
    /\ due \in [Nodes \cup {Main} -> SUBSET Nodes]
    /\ limit \in [Nodes -> Limits]
    /\ spent \in [Drivers -> Nat]
    /\ holds \in SUBSET Nodes

LEMMA RunTypes == RTypeOK <=> TypeOK /\ RunTypeOK
BY DEF RTypeOK, RunTypeOK, Threads, Limits

\* What one thread may change of the state of the run.
ThreadEffect(n) ==
    /\ job[n].at # "none"
    /\ pc' = pc /\ stopping' = stopping /\ halt' \in BOOLEAN
    /\ job' \in [Nodes -> Threads]
    /\ \A m \in Nodes \ {n} : job'[m] = job[m]
    /\ job'[n].at # "none" => job'[n].by \in Drivers
    /\ due' \in [Nodes \cup {Main} -> SUBSET Nodes]
    /\ \A m \in Nodes \ {n} : due'[m] = due[m]
    /\ due'[n] # {} => job'[n].at = "sweeping"
    /\ told' \in SUBSET Nodes
    /\ limit' \in [Nodes -> Limits]
    /\ spent' \in [Drivers -> Nat]
    /\ holds' \in SUBSET Nodes

LEMMA ThreadEffects ==
    ASSUME RunTypeOK, ThreadsAtWork, OwnSweeps, NEW n \in Nodes, ThreadStep(n)
    PROVE  ThreadEffect(n)
<1> USE DEF RunTypeOK, OnlyThread, GivesUp, loopVars, Loses, ResultIs, Steps, Results
<1>1. CASE PickedStarts(n)
  <2>1. Goes(n, "starting") /\ OnlyThread /\ job[n].at = "picked"
    BY <1>1 DEF PickedStarts
  <2>2. QED
    BY <2>1, ThreadMoves DEF ThreadEffect, ThreadsAtWork, OwnSweeps
<1>2. CASE PickedEnds(n)
  BY <1>2, ThreadMoves DEF PickedEnds, ThreadEffect, OwnSweeps
<1>3. CASE ThreadStarts(n)
  <2>1. Goes(n, "started") /\ job[n].at = "starting" /\ UNCHANGED <<loopVars, due, limit, spent>>
        /\ told' = told \ {n} /\ holds' = holds \cup {n}
    BY <1>3 DEF ThreadStarts
  <2>2. QED
    BY <2>1, ThreadMoves DEF ThreadEffect, ThreadsAtWork, OwnSweeps
<1>4. CASE ThreadFailsToStart(n)
  BY <1>4, ThreadMoves DEF ThreadFailsToStart, ThreadEffect, OwnSweeps
<1>5. CASE DriverSpawns(n)
  <2>1. Goes(n, "running") \/ Goes(n, "unavailable")
    BY <1>5 DEF DriverSpawns
  <2>2. OnlyThread /\ job[n].at = "started"
    BY <1>5 DEF DriverSpawns
  <2>3. QED
    BY <2>1, <2>2, ThreadMoves DEF ThreadEffect, ThreadsAtWork, OwnSweeps
<1>6. CASE DriverReturns(n)
  <2>1. PICK result \in Steps : Goes(n, result)
    BY <1>6 DEF DriverReturns
  <2>2. OnlyThread /\ job[n].at = "running"
    BY <1>6 DEF DriverReturns
  <2>3. QED
    BY <2>1, <2>2, ThreadMoves DEF ThreadEffect, ThreadsAtWork, OwnSweeps
<1>7. CASE ThreadRaises(n)
  BY <1>7, ThreadMoves DEF ThreadRaises, ThreadEffect, OwnSweeps
<1>8. CASE Stopped(n)
  <2>1. /\ job[n].at \in Results /\ Ends(n, TRUE) /\ Interrupt({n})
        /\ holds' = holds \ {n} /\ told' = told \ {n}
        /\ UNCHANGED <<loopVars, due, spent>>
    BY <1>8 DEF Stopped
  <2>2. limit' \in [Nodes -> Limits]
    BY <2>1, LimitTypes, InterruptTypes
  <2>3. QED
    BY <2>1, <2>2, ThreadMoves DEF ThreadEffect, OwnSweeps
<1>9. ASSUME NEW d \in Drivers, Spends(d) PROVE spent' \in [Drivers -> Nat]
  BY <1>9 DEF Spends
<1>10. CASE ResultDone(n) \/ ResultFailed(n)
  <2>1. PICK b \in BOOLEAN : Ends(n, b)
    BY <1>10 DEF ResultDone, ResultFailed
  <2>2. /\ job[n].at \in Results /\ Interrupt({n}) /\ Spends(job[n].by)
        /\ holds' = holds \ {n} /\ UNCHANGED <<loopVars, told, due>>
    BY <1>10 DEF ResultDone, ResultFailed
  <2>3. limit' \in [Nodes -> Limits] /\ spent' \in [Drivers -> Nat]
    BY <1>9, <2>2, LimitTypes, InterruptTypes DEF ThreadsAtWork
  <2>4. QED
    BY <2>1, <2>2, <2>3, ThreadMoves DEF ThreadEffect, OwnSweeps
<1>11. CASE ResultLimited(n)
  <2>1. /\ job[n].at = "rate_limited" /\ Limit(n) /\ Spends(job[n].by)
        /\ Goes(n, "limited")
        /\ holds' = holds \ {n} /\ UNCHANGED <<loopVars, told, due>>
    BY <1>11 DEF ResultLimited
  <2>2. limit' \in [Nodes -> Limits] /\ spent' \in [Drivers -> Nat]
    BY <1>9, <2>1, LimitTypes, InterruptTypes DEF ThreadsAtWork
  <2>3. QED
    BY <2>1, <2>2, ThreadMoves DEF ThreadEffect, ThreadsAtWork, OwnSweeps
<1>12. CASE UnavailableBlocks(n)
  <2>1. /\ job[n].at = "unavailable" /\ Interrupt({n}) /\ Ends(n, TRUE)
        /\ holds' = holds \ {n} /\ UNCHANGED <<loopVars, told, due, spent>>
    BY <1>12 DEF UnavailableBlocks
  <2>2. limit' \in [Nodes -> Limits]
    BY <2>1, LimitTypes, InterruptTypes
  <2>3. QED
    BY <2>1, <2>2, ThreadMoves DEF ThreadEffect, OwnSweeps
<1>13. CASE FallsBack(n)
  <2>1. /\ job[n].at \in {"unavailable", "limited"}
        /\ OnLimit[job[n].by] \in Drivers /\ HandTo(n, OnLimit[job[n].by])
        /\ holds' = holds \ {n} /\ UNCHANGED <<loopVars, told, due, limit, spent>>
    BY <1>13 DEF FallsBack
  <2>2. QED
    BY <2>1, ThreadMoves DEF ThreadEffect, OwnSweeps
<1>14. CASE LimitedPauses(n) \/ WaitStopped(n)
  BY <1>14, ThreadMoves DEF LimitedPauses, WaitStopped, ThreadEffect, OwnSweeps
<1>15. CASE LimitedWaits(n)
  <2>1. Goes(n, "waiting") /\ OnlyThread /\ job[n].at = "limited"
    BY <1>15 DEF LimitedWaits
  <2>2. QED
    BY <2>1, ThreadMoves DEF ThreadEffect, ThreadsAtWork, OwnSweeps
<1>16. CASE WaitOver(n)
  <2>1. /\ job[n].at = "waiting" /\ Goes(n, "sweeping")
        /\ due' = [due EXCEPT ![n] = RateLimited]
        /\ UNCHANGED <<loopVars, told, limit, spent, holds>>
    BY <1>16 DEF WaitOver
  <2>2. RateLimited \in SUBSET Nodes
    BY DEF RateLimited
  <2>3. QED
    BY <2>1, <2>2, ThreadMoves DEF ThreadEffect, ThreadsAtWork, OwnSweeps
<1>17. CASE WaitEscalates(n)
  <2>1. /\ job[n].at = "waiting" /\ Interrupt({n})
        /\ holds' \in SUBSET Nodes
        /\ UNCHANGED <<loopVars, told, due, spent>>
        /\ \/ OnTimeout[job[n].by] \in Drivers /\ HandTo(n, OnTimeout[job[n].by])
           \/ Ends(n, TRUE)
    BY <1>17 DEF WaitEscalates
  <2>2. limit' \in [Nodes -> Limits]
    BY <2>1, LimitTypes, InterruptTypes
  <2>3. QED
    BY <2>1, <2>2, ThreadMoves DEF ThreadEffect, OwnSweeps
<1>18. CASE SweptInThread(n)
  BY <1>18, ThreadMoves DEF SweptInThread, ThreadEffect, OwnSweeps
<1>19. CASE SweepRaises(n)
  <2>1. /\ due[n] # {} /\ Ends(n, TRUE) /\ due' = [due EXCEPT ![n] = {}]
        /\ UNCHANGED <<loopVars, told, limit, spent, holds>>
    BY <1>19 DEF SweepRaises
  <2>2. job[n].at # "none"
    BY <2>1 DEF OwnSweeps
  <2>3. QED
    BY <2>1, <2>2, ThreadMoves DEF ThreadEffect
<1>20. CASE Overtaken(n)
  BY <1>20, ThreadMoves DEF Overtaken, ThreadEffect, OwnSweeps
<1>21. ASSUME NEW m \in Nodes, SweepOne(n, m) PROVE ThreadEffect(n)
  <2>1. /\ m \in due[n] /\ due' = [due EXCEPT ![n] = @ \ {m}]
        /\ holds' \in SUBSET Nodes
        /\ UNCHANGED <<loopVars, threadVars, told, limit, spent>>
    BY <1>21 DEF SweepOne
  <2>2. job[n].at = "sweeping"
    BY <2>1 DEF OwnSweeps
  <2>3. QED
    BY <2>1, <2>2 DEF ThreadEffect, ThreadsAtWork, threadVars
<1>22. QED
  BY <1>1, <1>2, <1>3, <1>4, <1>5, <1>6, <1>7, <1>8, <1>10, <1>11, <1>12, <1>13,
     <1>14, <1>15, <1>16, <1>17, <1>18, <1>19, <1>20, <1>21 DEF ThreadStep

\* Every step of the run, its threads and everybody else moves the table by
\* one verb, if it moves it at all.
LEMMA RowSteps ==
    ASSUME RunTypeOK, ThreadsAtWork, [RNext]_rVars
    PROVE  RowStep
<1>1. ASSUME UNCHANGED vars PROVE RowStep
  BY <1>1 DEF RowStep
<1>2. ASSUME NEW n \in Nodes, ThreadStep(n) PROVE RowStep
  <2>1. ASSUME job[n].at # "none" PROVE job[n].by \in Agents
    BY <2>1 DEF ThreadsAtWork
  <2>2. CASE \/ PickedStarts(n) \/ PickedEnds(n) \/ ThreadFailsToStart(n)
             \/ DriverSpawns(n) \/ DriverReturns(n) \/ ThreadRaises(n)
             \/ LimitedPauses(n) \/ LimitedWaits(n) \/ WaitStopped(n)
             \/ WaitOver(n) \/ SweptInThread(n) \/ SweepRaises(n) \/ Overtaken(n)
    BY <1>1, <2>2 DEF PickedStarts, PickedEnds, ThreadFailsToStart, DriverSpawns,
        DriverReturns, ThreadRaises, LimitedPauses, LimitedWaits, WaitStopped,
        WaitOver, SweptInThread, SweepRaises, Overtaken, GivesUp, OnlyThread
  <2>3. CASE ThreadStarts(n)
    BY <2>1, <2>3 DEF ThreadStarts, RowStep
  <2>4. CASE Stopped(n)
    BY <2>1, <2>4 DEF Stopped, Results, RowStep
  <2>5. CASE ResultDone(n) \/ ResultFailed(n)
    BY <2>1, <2>5, VerbIsStep DEF ResultDone, ResultFailed, ResultIs
  <2>6. CASE ResultLimited(n) \/ UnavailableBlocks(n)
    BY <2>1, <2>6 DEF ResultLimited, UnavailableBlocks, ResultIs, BlockReasons, RowStep
  <2>7. CASE FallsBack(n)
    BY <2>7 DEF FallsBack, RowStep
  <2>8. CASE WaitEscalates(n)
    BY <1>1, <2>8 DEF WaitEscalates, RowStep
  <2>9. ASSUME NEW m \in Nodes, SweepOne(n, m) PROVE RowStep
    BY <1>1, <2>9 DEF SweepOne, RowStep
  <2>10. QED
    BY <1>2, <2>2, <2>3, <2>4, <2>5, <2>6, <2>7, <2>8, <2>9 DEF ThreadStep
<1>3. CASE LoopStep
  <2>1. CASE RunSweepsLeases
    BY <1>1, <2>1 DEF RunSweepsLeases, RowStep, Next
  <2>2. CASE FirstSweepRaises \/ RunSwept \/ RunPicks \/ RunReturns \/ RunCollects
    BY <1>1, <2>2 DEF FirstSweepRaises, Vanish, RunSwept, RunPicks, RunReturns,
        RunCollects, RunGoes
  <2>3. ASSUME NEW m \in Nodes, SweepOne(Main, m) PROVE RowStep
    BY <1>1, <2>3 DEF SweepOne, RowStep
  <2>4. QED
    BY <1>3, <2>1, <2>2, <2>3 DEF LoopStep
<1>4. CASE OutsideStep
  <2>1. CASE RunBegins \/ RunStopped \/ RunnerDies
    BY <1>1, <2>1 DEF RunBegins, RunStopped, RunnerDies, Vanish, RunGoes
  <2>2. CASE ProjectPhase \/ DaemonSweeps
    BY <2>2 DEF ProjectPhase, DaemonSweeps, RowStep, Next
  <2>3. ASSUME NEW n \in Nodes, AgentIsSeen(n) \/ SessionStopped(n) PROVE RowStep
    BY <1>1, <2>3 DEF AgentIsSeen, SessionStopped
  <2>4. ASSUME NEW n \in Nodes, NEW a \in Agents,
               Handoff(n, a) \/ Done(n, a, NoVersion) \/ Fail(n, a, NoVersion)
        PROVE  RowStep
    BY <2>4, VerbIsStep
  <2>5. ASSUME NEW n \in Nodes, HumanMoves(n) PROVE RowStep
    <3>1. CASE ApproveReview(n) \/ RejectReview(n)
      BY <3>1 DEF RowStep, Next, NodeStep, HumanStep
    <3>2. QED
      BY <2>4, <2>5, <3>1 DEF HumanMoves
  <2>6. ASSUME NEW n \in Nodes, LeaseLapses(n) PROVE RowStep
    BY <2>6 DEF LeaseLapses, RowStep, Next, NodeStep
  <2>7. ASSUME NEW n \in Nodes, NEW a \in Others[n], OthersWork(n, a) PROVE RowStep
    <3>1. a \in Agents
      OBVIOUS
    <3>2. QED
      BY <2>4, <2>7, <3>1 DEF OthersWork, RowStep
  <2>8. QED
    BY <1>4, <2>1, <2>2, <2>3, <2>5, <2>6, <2>7 DEF OutsideStep
<1>5. CASE Tick \/ UNCHANGED rVars
  BY <1>1, <1>5 DEF Tick, rVars
<1>6. QED
  BY <1>2, <1>3, <1>4, <1>5 DEF RNext

\* The run's state keeps its types, its threads live within a batch, and only
\* sweeping threads have rows to sweep.
LEMMA RunNext ==
    ASSUME RunTypeOK, ThreadsAtWork, OwnSweeps, [RNext]_rVars
    PROVE  RunTypeOK' /\ ThreadsAtWork' /\ OwnSweeps'
<1> USE DEF RunTypeOK, ThreadsAtWork, OwnSweeps, Loses, Main, loopVars, threadVars,
            runVars
<1>1. ASSUME NEW n \in Nodes, ThreadStep(n)
      PROVE  RunTypeOK' /\ ThreadsAtWork' /\ OwnSweeps'
  <2>1. ThreadEffect(n)
    BY <1>1, ThreadEffects
  <2>2. QED
    BY <2>1 DEF ThreadEffect
<1>2. Idle \in Threads /\ Idle.at = "none"
  BY DEF Idle, Threads, Steps
<1>3. RateLimited \in SUBSET Nodes
  BY DEF RateLimited
<1>4. ASSUME Vanish PROVE RunTypeOK' /\ ThreadsAtWork' /\ OwnSweeps'
  BY <1>2, <1>4 DEF Vanish
<1>5. CASE LoopStep
  <2>1. CASE RunSweepsLeases
    <3>1. limit' \in [Nodes -> Limits]
      BY <2>1, LimitTypes, InterruptTypes DEF RunSweepsLeases
    <3>2. QED
      BY <1>3, <2>1, <3>1 DEF RunSweepsLeases
  <2>2. CASE FirstSweepRaises
    BY <1>4, <2>2 DEF FirstSweepRaises
  <2>3. CASE RunSwept \/ RunReturns \/ RunCollects
    BY <2>3 DEF RunSwept, RunReturns, RunCollects, RunGoes
  <2>4. CASE RunPicks
    <3>1. ASSUME NEW n \in Nodes PROVE AgentFor(n) \in Drivers
      BY DEF AgentFor
    <3>2. ASSUME NEW d \in Drivers PROVE [at |-> "picked", by |-> d] \in Threads
      BY DEF Threads, Steps
    <3>3. \A n \in Nodes : job'[n] \in Threads /\ job'[n].at # "none" => job'[n].by \in Drivers
      BY <1>2, <2>4, <3>1, <3>2 DEF RunPicks
    <3>4. job' \in [Nodes -> Threads]
      BY <1>2, <2>4, <3>1, <3>2 DEF RunPicks
    <3>5. QED
      BY <2>4, <3>3, <3>4 DEF RunPicks, RunGoes
  <2>5. ASSUME NEW m \in Nodes, SweepOne(Main, m)
        PROVE  RunTypeOK' /\ ThreadsAtWork' /\ OwnSweeps'
    BY <2>5 DEF SweepOne
  <2>6. QED
    BY <1>5, <2>1, <2>2, <2>3, <2>4, <2>5 DEF LoopStep
<1>6. CASE OutsideStep
  <2>1. CASE RunBegins
    BY <2>1 DEF RunBegins, RunGoes
  <2>2. CASE RunStopped
    <3>1. ASSUME NEW n \in Nodes
          PROVE  /\ job'[n] \in Threads /\ job'[n].by = job[n].by
                 /\ job'[n].at # "none" => job[n].at # "none"
                 /\ job[n].at = "sweeping" => job'[n].at = "sweeping"
      <4>1. PICK s \in Steps, d \in Drivers \cup {NoOwner} :
              job[n] = [at |-> s, by |-> d]
        BY DEF Threads
      <4>2. [job[n] EXCEPT !.at = "failed"] = [at |-> "failed", by |-> d]
        BY <4>1
      <4>3. [at |-> "failed", by |-> d] \in Threads
        BY DEF Threads, Steps, Results
      <4>4. job'[n] = IF job[n].at = "running" THEN [at |-> "failed", by |-> d]
                                              ELSE job[n]
        BY <2>2, <4>2 DEF RunStopped
      <4>5. CASE job[n].at = "running"
        BY <4>1, <4>3, <4>4, <4>5
      <4>6. CASE job[n].at # "running"
        <5>1. job'[n] = job[n]
          BY <4>4, <4>6
        <5>2. QED
          BY <5>1
      <4>7. QED
        BY <4>5, <4>6
    <3>2. job' \in [Nodes -> Threads]
      BY <2>2, <3>1 DEF RunStopped
    <3>3. QED
      BY <2>2, <3>1, <3>2 DEF RunStopped
  <2>3. CASE RunnerDies
    BY <1>4, <2>3 DEF RunnerDies
  <2>4. CASE ProjectPhase
    BY <2>4 DEF ProjectPhase
  <2>5. CASE DaemonSweeps
    BY <2>5, LimitTypes, InterruptTypes DEF DaemonSweeps
  <2>6. ASSUME NEW n \in Nodes, AgentIsSeen(n)
        PROVE  RunTypeOK' /\ ThreadsAtWork' /\ OwnSweeps'
    BY <2>6, LimitTypes, InterruptTypes DEF AgentIsSeen
  <2>7. ASSUME NEW n \in Nodes, SessionStopped(n)
        PROVE  RunTypeOK' /\ ThreadsAtWork' /\ OwnSweeps'
    <3>1. /\ Goes(n, "failed") /\ Interrupt({n}) /\ job[n].at = "running"
          /\ told' = told \cup {n} /\ UNCHANGED <<loopVars, due, spent, holds>>
      BY <2>7 DEF SessionStopped
    <3>2. limit' \in [Nodes -> Limits]
      BY <3>1, LimitTypes, InterruptTypes
    <3>3. "failed" \in Steps
      BY DEF Steps, Results
    <3>4. QED
      BY <3>1, <3>2, <3>3, ThreadMoves
  <2>8. ASSUME NEW n \in Nodes, HumanMoves(n)
        PROVE  RunTypeOK' /\ ThreadsAtWork' /\ OwnSweeps'
    BY <2>8, LimitTypes, InterruptTypes DEF HumanMoves
  <2>9. ASSUME NEW n \in Nodes, LeaseLapses(n)
        PROVE  RunTypeOK' /\ ThreadsAtWork' /\ OwnSweeps'
    BY <2>9 DEF LeaseLapses
  <2>10. ASSUME NEW n \in Nodes, NEW a \in Others[n], OthersWork(n, a)
         PROVE  RunTypeOK' /\ ThreadsAtWork' /\ OwnSweeps'
    <3>1. limit' \in [Nodes -> Limits]
      BY <2>10, LimitTypes, InterruptTypes DEF OthersWork
    <3>2. QED
      BY <2>10, <3>1 DEF OthersWork
  <2>11. QED
    BY <1>6, <2>1, <2>2, <2>3, <2>4, <2>5, <2>6, <2>7, <2>8, <2>9, <2>10 DEF OutsideStep
<1>7. CASE Tick
  <2>1. \A n \in Nodes : /\ limit[n].left \in Nat /\ limit[n].waited \in 0 .. MaxWait
                         /\ limit[n].kept \in BOOLEAN
    BY DEF Limits
  <2>2. limit' \in [Nodes -> Limits]
    BY <1>7, <2>1 DEF Tick, Limits
  <2>3. QED
    BY <1>7, <2>2 DEF Tick
<1>8. CASE UNCHANGED rVars
  BY <1>8 DEF rVars
<1>9. QED
  BY <1>1, <1>5, <1>6, <1>7, <1>8 DEF RNext

-----------------------------------------------------------------------------
(* What the run holds.                                                     *)

\* Every verb of one node leaves the other rows alone.
LEMMA OneRow ==
    ASSUME TypeOK, NEW n \in Nodes, NEW a, NEW why,
           \/ Ready(n) \/ ReleaseLease(n, a) \/ Start(n, a) \/ Block(n, why, a)
           \/ a \in Agents /\ (Done(n, a, NoVersion) \/ Fail(n, a, NoVersion))
           \/ a \in Agents /\ Handoff(n, a)
           \/ ApproveReview(n) \/ RejectReview(n)
    PROVE  OnlyTouches(n)
<1>1. ASSUME Done(n, a, NoVersion), a \in Agents PROVE OnlyTouches(n)
  BY <1>1, DoneOutcome DEF OnlyTouches, TypeOK
<1>2. QED
  BY <1>1 DEF Ready, ReleaseLease, Start, Block, Fail, Handoff, ApproveReview,
      RejectReview, MoveTo, GiveLease, DropLease, leaseVars, OnlyTouches, TypeOK

\* The rows that stay held, and their threads, stay as they are.
StaysHeld ==
    \A m \in holds' : /\ m \in holds
                      /\ status'[m] = status[m] /\ owner'[m] = owner[m]
                      /\ job'[m].by = job[m].by /\ job'[m].at \in Launched

LEMMA KeepsHeld == HeldByThread /\ StaysHeld => HeldByThread'
BY DEF HeldByThread, StaysHeld

\* The thread of a held node meets no refusal: it is the owner of a node in
\* progress.
LEMMA NotOvertaken ==
    ASSUME RunInv, NEW n \in holds
    PROVE  ~Overtaken(n)
<1>1. /\ status[n] = "in_progress" /\ owner[n] = job[n].by
      /\ job[n].at \in Launched /\ job[n].by # NoOwner
  <2>1. n \in Nodes /\ job[n].at # "none"
    BY DEF RunInv, RTypeOK, HeldByThread, Launched, Results
  <2>2. job[n].by \in Agents
    BY <2>1 DEF RunInv, ThreadsAtWork
  <2>3. QED
    BY <2>2 DEF RunInv, HeldByThread
<1>2. /\ Legal(n, "ready", job[n].by) /\ Legal(n, "review", job[n].by)
      /\ Legal(n, "blocked", job[n].by) /\ Legal(n, FailedStatus(n), job[n].by)
  BY <1>1 DEF Legal, OwnerEdges, FreeEdges, FailedStatus
<1>3. job[n].at \notin {"limited", "waiting"}
  BY <1>1 DEF Launched, Results
<1>4. QED
  BY <1>1, <1>2, <1>3 DEF Overtaken, ResultIs

LEMMA ThreadHolds ==
    ASSUME RunInv, NEW n \in Nodes, ThreadStep(n)
    PROVE  HeldByThread'
<1>1. ThreadEffect(n)
  BY ThreadEffects, RunTypes DEF RunInv
<1>2. \A m \in Nodes \ {n} : job'[m] = job[m]
  BY <1>1 DEF ThreadEffect
<1>3. TypeOK /\ job \in [Nodes -> Threads] /\ halt \in BOOLEAN /\ holds \in SUBSET Nodes
  BY RunTypes DEF RunInv, RunTypeOK
<1>4. /\ \A m \in holds : job[m].at \in Launched
      /\ HeldByThread
  BY DEF RunInv, HeldByThread
<1>5. ASSUME holds' = holds \ {n}, OnlyTouches(n)
      PROVE  HeldByThread'
  BY <1>2, <1>3, <1>4, <1>5, KeepsHeld DEF StaysHeld, OnlyTouches
<1>6. ASSUME OnlyThread, n \notin holds
      PROVE  HeldByThread'
  BY <1>2, <1>3, <1>4, <1>6, KeepsHeld DEF StaysHeld, OnlyThread, vars, leaseVars
<1>7. ASSUME OnlyThread, job'[n].by = job[n].by, job'[n].at \in Launched
      PROVE  HeldByThread'
  BY <1>2, <1>3, <1>4, <1>7, KeepsHeld DEF StaysHeld, OnlyThread, vars, leaseVars
<1>8. CASE \/ PickedStarts(n) \/ PickedEnds(n) \/ ThreadFailsToStart(n)
           \/ LimitedPauses(n) \/ LimitedWaits(n) \/ WaitStopped(n)
           \/ SweptInThread(n)
  <2>1. OnlyThread /\ job[n].at \in {"picked", "starting", "limited", "waiting", "sweeping"}
    BY <1>8 DEF PickedStarts, PickedEnds, ThreadFailsToStart, LimitedPauses,
        LimitedWaits, WaitStopped, SweptInThread, GivesUp
  <2>2. n \notin holds
    BY <1>4, <2>1 DEF Launched, Results
  <2>3. QED
    BY <1>6, <2>1, <2>2
<1>9. CASE ThreadStarts(n)
  <2>1. /\ Start(n, job[n].by) /\ Goes(n, "started") /\ holds' = holds \cup {n}
    BY <1>9 DEF ThreadStarts
  <2>2. OnlyTouches(n) /\ status'[n] = "in_progress" /\ owner'[n] = job[n].by
    BY <1>3, <2>1, OneRow DEF Start, MoveTo, GiveLease, TypeOK
  <2>3. "started" \in Steps /\ "started" \in Launched
    BY DEF Steps, Launched
  <2>4. job'[n].at = "started" /\ job'[n].by = job[n].by
    BY <1>3, <2>1, <2>3, ThreadMoves
  <2>5. QED
    BY <1>2, <1>3, <1>4, <2>1, <2>2, <2>3, <2>4 DEF HeldByThread, OnlyTouches
<1>10. CASE DriverSpawns(n) \/ DriverReturns(n)
  <2>1. PICK step \in Launched : Goes(n, step)
    BY <1>10 DEF DriverSpawns, DriverReturns, Launched, Results
  <2>2. step \in Steps
    BY DEF Steps, Launched
  <2>3. OnlyThread
    BY <1>10 DEF DriverSpawns, DriverReturns
  <2>4. QED
    BY <1>3, <1>7, <2>1, <2>2, <2>3, ThreadMoves
<1>11. CASE ThreadRaises(n)
  <2>1. holds' = holds \ {n} /\ OnlyTouches(n)
    BY <1>11 DEF ThreadRaises, Loses, OnlyTouches, vars, leaseVars
  <2>2. QED
    BY <1>5, <2>1
<1>12. CASE \/ Stopped(n) \/ ResultDone(n) \/ ResultFailed(n)
            \/ ResultLimited(n) \/ UnavailableBlocks(n) \/ FallsBack(n)
  <2>1. job[n].by \in Agents
    BY <1>1 DEF RunInv, ThreadsAtWork, ThreadEffect
  <2>2. holds' = holds \ {n}
    BY <1>12 DEF Stopped, ResultDone, ResultFailed, ResultLimited,
        UnavailableBlocks, FallsBack, Loses
  <2>3. OnlyTouches(n)
    BY <1>3, <1>12, <2>1, OneRow DEF Stopped, ResultDone, ResultFailed,
        ResultLimited, UnavailableBlocks, FallsBack
  <2>4. QED
    BY <1>5, <2>2, <2>3
<1>13. CASE WaitOver(n)
  <2>1. /\ job[n].at = "waiting" /\ UNCHANGED <<vars, holds>>
    BY <1>13 DEF WaitOver
  <2>2. n \notin holds
    BY <1>4, <2>1 DEF Launched, Results
  <2>3. QED
    BY <1>2, <1>3, <1>4, <2>1, <2>2, KeepsHeld DEF StaysHeld, vars, leaseVars
<1>14. CASE WaitEscalates(n)
  <2>1. n \notin holds
    BY <1>4, <1>14 DEF WaitEscalates, Launched, Results
  <2>2. holds' = holds \ {n}
    BY <1>14, <2>1 DEF WaitEscalates, Loses
  <2>3. OnlyTouches(n)
    BY <1>3, <1>14, OneRow DEF WaitEscalates, OnlyTouches, vars, leaseVars
  <2>4. QED
    BY <1>5, <2>2, <2>3
<1>15. CASE SweepRaises(n)
  <2>1. due[n] # {} /\ UNCHANGED <<vars, holds>>
    BY <1>15 DEF SweepRaises
  <2>2. n \notin holds
    BY <1>4, <2>1 DEF RunInv, OwnSweeps, Launched, Results
  <2>3. QED
    BY <1>2, <1>3, <1>4, <2>1, <2>2, KeepsHeld DEF StaysHeld, vars, leaseVars
<1>16. CASE Overtaken(n)
  <2>1. n \notin holds /\ OnlyThread
    BY <1>16, NotOvertaken DEF Overtaken, GivesUp
  <2>2. QED
    BY <1>6, <2>1
<1>17. ASSUME NEW m \in Nodes, SweepOne(n, m)
       PROVE  HeldByThread'
  <2>1. job' = job
    BY <1>17 DEF SweepOne, threadVars
  <2>2. CASE Ready(m) /\ holds' = holds \ {m}
    BY <1>3, <1>4, <2>1, <2>2, OneRow, KeepsHeld DEF StaysHeld, OnlyTouches
  <2>3. CASE UNCHANGED <<vars, holds>>
    BY <1>4, <2>1, <2>3, KeepsHeld DEF StaysHeld, vars, leaseVars
  <2>4. QED
    BY <1>17, <2>2, <2>3 DEF SweepOne, Loses
<1>18. QED
  BY <1>8, <1>9, <1>10, <1>11, <1>12, <1>13, <1>14, <1>15, <1>16, <1>17 DEF ThreadStep

LEMMA HeldByThreadNext ==
    ASSUME RunInv, [RNext]_rVars
    PROVE  HeldByThread'
<1>1. /\ TypeOK /\ holds \in SUBSET Nodes /\ HeldByThread
      /\ \A m \in holds : job[m].at \in Launched /\ pc = "batch"
  BY RunTypes DEF RunInv, RunTypeOK, HeldByThread, ThreadsAtWork, Launched, Results
<1>2. ASSUME UNCHANGED <<vars, job, holds>>
      PROVE  HeldByThread'
  BY <1>1, <1>2, KeepsHeld DEF StaysHeld, vars, leaseVars
<1>3. ASSUME holds' = {}
      PROVE  HeldByThread'
  BY <1>3 DEF HeldByThread
<1>4. ASSUME job' = job, NEW n \in Nodes, OnlyTouches(n), holds' = holds \ {n}
      PROVE  HeldByThread'
  BY <1>1, <1>4, KeepsHeld DEF StaysHeld, OnlyTouches
<1>5. ASSUME job' = job, ReconcileLeases, holds' = holds \ Lapsed
      PROVE  HeldByThread'
  BY <1>1, <1>5, KeepsHeld DEF StaysHeld, ReconcileLeases
<1>6. CASE LoopStep
  <2>1. CASE RunSweepsLeases
    BY <1>2, <1>5, <2>1 DEF RunSweepsLeases, Loses, threadVars
  <2>2. CASE FirstSweepRaises
    BY <1>3, <2>2 DEF FirstSweepRaises, Vanish
  <2>3. CASE RunSwept \/ RunReturns \/ RunCollects
    BY <1>2, <2>3 DEF RunSwept, RunReturns, RunCollects, RunGoes, threadVars
  <2>4. CASE RunPicks
    BY <1>1, <1>3, <2>4 DEF RunPicks, RunGoes
  <2>5. ASSUME NEW m \in Nodes, SweepOne(Main, m)
        PROVE  HeldByThread'
    <3>1. job' = job
      BY <2>5 DEF SweepOne, threadVars
    <3>2. CASE Ready(m) /\ holds' = holds \ {m}
      BY <1>1, <1>4, <3>1, <3>2, OneRow
    <3>3. QED
      BY <1>2, <2>5, <3>1, <3>2 DEF SweepOne, Loses
  <2>6. QED
    BY <1>6, <2>1, <2>2, <2>3, <2>4, <2>5 DEF LoopStep
<1>7. CASE OutsideStep
  <2>1. CASE RunBegins \/ ProjectPhase
    <3>1. UNCHANGED <<status, owner, job, holds>>
      BY <2>1 DEF RunBegins, RunGoes, ProjectPhase, Pause, Resume, vars, leaseVars,
          runVars, threadVars
    <3>2. QED
      BY <1>1, <3>1, KeepsHeld DEF StaysHeld
  <2>2. CASE RunStopped
    <3>1. ASSUME NEW m \in holds
          PROVE  job'[m].by = job[m].by /\ job'[m].at \in Launched
      <4>1. PICK s \in Steps, d \in Drivers \cup {NoOwner} : job[m] = [at |-> s, by |-> d]
        BY <1>1, RunTypes DEF RunInv, RunTypeOK, Threads
      <4>2. [job[m] EXCEPT !.at = "failed"] = [at |-> "failed", by |-> d]
        BY <4>1
      <4>3. job'[m] = IF job[m].at = "running" THEN [at |-> "failed", by |-> d]
                                              ELSE job[m]
        BY <1>1, <2>2, <4>2 DEF RunStopped
      <4>4. QED
        BY <1>1, <4>1, <4>3 DEF Launched, Results
    <3>2. QED
      BY <1>1, <2>2, <3>1, KeepsHeld DEF RunStopped, StaysHeld, vars, leaseVars
  <2>3. CASE RunnerDies
    BY <1>3, <2>3 DEF RunnerDies, Vanish
  <2>4. CASE DaemonSweeps
    BY <1>5, <2>4 DEF DaemonSweeps, Loses, runVars, threadVars
  <2>5. ASSUME NEW n \in Nodes, AgentIsSeen(n) PROVE HeldByThread'
    BY <1>2, <2>5 DEF AgentIsSeen, runVars, threadVars
  <2>6. ASSUME NEW n \in Nodes, SessionStopped(n) PROVE HeldByThread'
    <3>1. Goes(n, "failed") /\ UNCHANGED <<vars, holds>>
      BY <2>6 DEF SessionStopped
    <3>2. "failed" \in Steps /\ "failed" \in Launched
      BY DEF Steps, Launched, Results
    <3>3. \A m \in holds : job'[m].by = job[m].by /\ job'[m].at \in Launched
      BY <1>1, <3>1, <3>2, ThreadMoves, RunTypes DEF RunInv, RunTypeOK
    <3>4. QED
      BY <1>1, <3>1, <3>3, KeepsHeld DEF StaysHeld, vars, leaseVars
  <2>7. ASSUME NEW n \in Nodes, HumanMoves(n) PROVE HeldByThread'
    <3>1. job' = job
      BY <2>7 DEF HumanMoves, runVars, threadVars
    <3>2. ASSUME NEW a \in Agents, Handoff(n, a), holds' = holds \ {n}
          PROVE  HeldByThread'
      BY <1>1, <1>4, <3>1, <3>2, OneRow
    <3>3. CASE (ApproveReview(n) \/ RejectReview(n)) /\ UNCHANGED holds
      <4>1. holds' = holds \ {n}
        BY <1>1, <3>3 DEF ApproveReview, RejectReview, HeldByThread
      <4>2. OnlyTouches(n)
        BY <1>1, <3>3, OneRow
      <4>3. QED
        BY <1>4, <3>1, <4>1, <4>2
    <3>4. QED
      BY <2>7, <3>2, <3>3 DEF HumanMoves, Loses
  <2>8. ASSUME NEW n \in Nodes, LeaseLapses(n) PROVE HeldByThread'
    BY <1>1, <2>8, KeepsHeld DEF LeaseLapses, LeaseExpires, StaysHeld, runVars, threadVars
  <2>9. ASSUME NEW n \in Nodes, NEW a \in Others[n], OthersWork(n, a)
        PROVE  HeldByThread'
    <3>1. /\ job' = job /\ holds' = holds \ {n}
          /\ Start(n, a) \/ Done(n, a, NoVersion) \/ Fail(n, a, NoVersion)
      BY <2>9 DEF OthersWork, Loses, runVars, threadVars
    <3>2. OnlyTouches(n)
      BY <1>1, <3>1, OneRow
    <3>3. QED
      BY <1>1, <1>4, <3>1, <3>2
  <2>10. QED
    BY <1>7, <2>1, <2>2, <2>3, <2>4, <2>5, <2>6, <2>7, <2>8, <2>9 DEF OutsideStep
<1>8. CASE Tick \/ UNCHANGED rVars
  BY <1>2, <1>8 DEF Tick, runVars, threadVars, rVars
<1>9. QED
  BY <1>6, <1>7, <1>8, ThreadHolds DEF RNext

-----------------------------------------------------------------------------
LEMMA RunInvInit == RInit => RunInv
<1> SUFFICES ASSUME RInit PROVE RunInv
  OBVIOUS
<1>1. TypeOK
  <2>1. (CHOOSE c \in Contents : TRUE) \in Contents
    OBVIOUS
  <2>2. /\ criteria \in [Nodes -> Contents] /\ hash \in [Nodes -> Contents \cup {NoHash}]
        /\ started \in [Nodes -> [version : Nat, criteria : Contents]]
    BY <2>1 DEF RInit
  <2>3. QED
    BY <2>2 DEF RInit, TypeOK, Statuses, NoReason, Tiers, Low, High
<1>2. RunTypeOK
  <2>1. Idle \in Threads /\ NoLimit \in Limits
    BY DEF Threads, Steps, Idle, NoLimit, Limits
  <2>2. QED
    BY <2>1 DEF RInit, RunTypeOK
<1>3. ThreadsAtWork /\ OwnSweeps /\ HeldByThread
  BY DEF RInit, ThreadsAtWork, OwnSweeps, HeldByThread, Idle
<1>4. QED
  BY <1>1, <1>2, <1>3, RunTypes DEF RunInv

LEMMA RunInvNext == RunInv /\ [RNext]_rVars => RunInv'
<1> SUFFICES ASSUME RunInv, [RNext]_rVars PROVE RunInv'
  OBVIOUS
<1>1. TypeOK /\ RunTypeOK /\ ThreadsAtWork /\ OwnSweeps
  BY RunTypes DEF RunInv
<1>2. TypeOK'
  BY <1>1, RowSteps, RowTypes
<1>3. RunTypeOK' /\ ThreadsAtWork' /\ OwnSweeps'
  BY <1>1, RunNext
<1>4. HeldByThread'
  BY HeldByThreadNext
<1>5. RTypeOK'
  BY <1>2, <1>3 DEF RTypeOK, RunTypeOK, Threads, Limits
<1>6. QED
  BY <1>3, <1>4, <1>5 DEF RunInv

\* The run's own state keeps its types, and with it the columns of the table.
THEOREM RunTypeCorrect == RSpec => []RTypeOK
<1>1. RunInv => RTypeOK
  BY DEF RunInv
<1>2. QED
  BY <1>1, RunInvInit, RunInvNext, PTL DEF RSpec

\* Whatever ends its threads, a run that returns leaves nothing in progress
\* that it started and nobody took: such a node has a thread, and threads end
\* before the run does.
THEOREM ExitReleases == RSpec => []ExitLeavesNothingHeld
<1>1. RunInv => ExitLeavesNothingHeld
  BY DEF RunInv, ThreadsAtWork, HeldByThread, RTypeOK, ExitLeavesNothingHeld,
         Launched, Results
<1>2. QED
  BY <1>1, RunInvInit, RunInvNext, PTL DEF RSpec

\* Runs, their crashes and sweeps included, with humans and other runs in
\* between, implement the ledger as the verbs alone do.
THEOREM RunImplementsLedger == RSpec => LedgerSpec
<1>1. RInit => Ledger!Init
  BY DEF RInit, Ledger!Init, Stage, Holder, Held
<1>2. RunInv /\ [RNext]_rVars => [Ledger!Next]_<<StageMap, HolderMap>>
  BY RunTypes, RowSteps, RowLedger DEF RunInv, LedgerStep
<1>3. QED
  BY <1>1, <1>2, RunInvInit, RunInvNext, PTL
     DEF RSpec, LedgerSpec, Ledger!Spec, StageMap, HolderMap

-----------------------------------------------------------------------------
(* Batches and budgets.                                                    *)

\* A non-empty set of numbers has a least member.
LEMMA LeastNumber ==
    ASSUME NEW T, T \subseteq Nat, T # {}
    PROVE  \E x \in T : \A y \in T : x <= y
<1>1. \E x \in T : \A y \in T : ~(<<y, x>> \in OpToRel(<, Nat))
  BY NatLessThanWellFounded, WFMin
<1>2. PICK x \in T : \A y \in T : ~(y < x)
  BY <1>1 DEF OpToRel
<1>3. QED
  BY <1>2

\* A finite set of numbers is bounded.
LEMMA FiniteIsBounded ==
    ASSUME NEW S, S \subseteq Nat, IsFiniteSet(S)
    PROVE  \E b \in Nat : \A s \in S : s < b
<1>0. PICK n \in Nat : ExistsSurjection(1 .. n, S)
  BY FS_NatSurjection
<1>1. PICK f \in [1 .. n -> S] : \A s \in S : \E i \in 1 .. n : f[i] = s
  BY <1>0 DEF ExistsSurjection, Surjection
<1> DEFINE Bounded(k) == \E b \in Nat : \A i \in 1 .. n : i <= k => f[i] < b
           T == {k \in Nat : ~Bounded(k)}
<1>2. Bounded(0)
  OBVIOUS
<1>3. ASSUME NEW k \in Nat, Bounded(k) PROVE Bounded(k + 1)
  <2>1. PICK b \in Nat : \A i \in 1 .. n : i <= k => f[i] < b
    BY <1>3
  <2>2. CASE k + 1 \in 1 .. n
    <3>1. PICK c \in Nat : c = f[k + 1]
      BY <2>2
    <3>2. PICK d \in Nat : d >= b /\ d > c
      <4>1. b + c + 1 \in Nat /\ b + c + 1 >= b /\ b + c + 1 > c
        BY <3>1
      <4>2. QED
        BY <4>1
    <3>3. ASSUME NEW i \in 1 .. n, i <= k + 1 PROVE f[i] < d
      <4>1. CASE i <= k
        <5>1. f[i] < b /\ f[i] \in Nat
          BY <2>1, <4>1
        <5>2. QED
          BY <3>2, <5>1
      <4>2. CASE i = k + 1
        BY <3>1, <3>2, <4>2
      <4>3. QED
        BY <3>3, <4>1, <4>2
    <3>4. QED
      BY <3>2, <3>3
  <2>3. CASE k + 1 \notin 1 .. n
    <3>1. \A i \in 1 .. n : i <= k + 1 => i <= k
      BY <2>3
    <3>2. QED
      BY <2>1, <3>1
  <2>4. QED
    BY <2>2, <2>3
<1> HIDE DEF Bounded
<1>4. T = {}
  <2>1. SUFFICES ASSUME T # {} PROVE FALSE
    OBVIOUS
  <2>2. PICK k \in T : \A y \in T : k <= y
    <3>1. T \subseteq Nat
      OBVIOUS
    <3>2. QED
      BY <2>1, <3>1, LeastNumber
  <2>3. k # 0
    BY <1>2, <2>2
  <2>4. PICK m \in Nat : k = m + 1
    <3>1. k \in Nat /\ k - 1 \in Nat
      BY <2>2, <2>3
    <3>2. QED
      BY <3>1
  <2>5. m \notin T
    <3>1. ~(k <= m)
      BY <2>4
    <3>2. QED
      BY <2>2, <3>1
  <2>6. Bounded(m)
    BY <2>5
  <2>7. Bounded(m + 1)
    BY <1>3, <2>6
  <2>8. QED
    BY <2>2, <2>4, <2>7
<1>5. Bounded(n)
  BY <1>1, <1>4
<1>6. PICK b \in Nat : \A i \in 1 .. n : f[i] < b
  <2>1. PICK b \in Nat : \A i \in 1 .. n : i <= n => f[i] < b
    BY <1>5 DEF Bounded
  <2>2. QED
    BY <2>1
<1>7. ASSUME NEW s \in S PROVE s < b
  <2>1. PICK i \in 1 .. n : f[i] = s
    BY <1>1
  <2>2. QED
    BY <1>6, <2>1
<1>8. QED
  BY <1>6, <1>7

\* What select_batch has chosen of the nodes below k.
GreedyBelow(S, k) ==
    /\ S \subseteq {n \in Schedulable : n < k}
    /\ \A n \in Schedulable : n < k => (n \in S <=> Fits(n, {m \in S : m < n}))

LEMMA GreedyGoesOn ==
    ASSUME NEW k \in Nat, NEW S, GreedyBelow(S, k)
    PROVE  \E R : GreedyBelow(R, k + 1)
<1>1. Schedulable \subseteq Nat
  BY DEF Schedulable
<1>2. PICK R : R = S \cup {n \in Schedulable : n = k /\ Fits(n, S)}
  OBVIOUS
<1>3. ASSUME NEW n \in Schedulable, n < k + 1
      PROVE  {m \in R : m < n} = {m \in S : m < n}
  <2>1. n \in Nat /\ ~(k < n)
    BY <1>1, <1>3
  <2>2. \A m : m \in R /\ m < n <=> m \in S /\ m < n
    BY <1>2, <2>1
  <2>3. QED
    BY <2>2
<1>4. ASSUME NEW n \in Schedulable, n < k + 1
      PROVE  n \in R <=> Fits(n, {m \in R : m < n})
  <2>1. CASE n < k
    BY <1>1, <1>2, <1>3, <1>4, <2>1 DEF GreedyBelow
  <2>2. CASE n = k
    <3>1. {m \in S : m < n} = S
      BY <1>1, <2>2 DEF GreedyBelow
    <3>2. n \notin S
      BY <1>1, <2>2 DEF GreedyBelow
    <3>3. QED
      BY <1>2, <1>3, <1>4, <2>2, <3>1, <3>2
  <2>3. QED
    BY <1>1, <1>4, <2>1, <2>2
<1>5. R \subseteq {n \in Schedulable : n < k + 1}
  <2>1. ASSUME NEW n \in R PROVE n \in Schedulable /\ n < k + 1
    <3>1. CASE n \in S
      <4>1. n \in Schedulable /\ n < k
        BY <3>1 DEF GreedyBelow
      <4>2. QED
        BY <1>1, <4>1
    <3>2. CASE n \in Schedulable /\ n = k
      BY <3>2
    <3>3. QED
      BY <1>2, <3>1, <3>2
  <2>2. QED
    BY <2>1
<1>6. QED
  BY <1>4, <1>5 DEF GreedyBelow

\* There is a batch: the choice in the order of ids is well defined.
LEMMA BatchIsGreedy ==
    /\ Batch \subseteq Schedulable
    /\ \A n \in Schedulable : n \in Batch <=> Fits(n, {m \in Batch : m < n})
<1>1. Schedulable \subseteq Nodes /\ Schedulable \subseteq Nat
  BY DEF Schedulable
<1>2. PICK b \in Nat : \A n \in Nodes : n < b
  BY FiniteIsBounded
<1> DEFINE T == {k \in Nat : ~\E S : GreedyBelow(S, k)}
<1>3. 0 \notin T
  <2>1. GreedyBelow({}, 0)
    BY <1>1 DEF GreedyBelow
  <2>2. QED
    BY <2>1
<1>4. T = {}
  <2>1. SUFFICES ASSUME T # {} PROVE FALSE
    OBVIOUS
  <2>2. PICK k \in T : \A y \in T : k <= y
    <3>1. T \subseteq Nat
      OBVIOUS
    <3>2. QED
      BY <2>1, <3>1, LeastNumber
  <2>3. PICK m \in Nat : k = m + 1
    <3>1. k \in Nat /\ k # 0
      BY <1>3, <2>2
    <3>2. k - 1 \in Nat
      BY <3>1
    <3>3. QED
      BY <3>1, <3>2
  <2>4. PICK S : GreedyBelow(S, m)
    BY <2>2, <2>3
  <2>5. \E R : GreedyBelow(R, m + 1)
    BY <2>4, GreedyGoesOn
  <2>6. QED
    BY <2>2, <2>3, <2>5
<1>5. PICK S : GreedyBelow(S, b)
  BY <1>2, <1>4
<1>6. S \in SUBSET Schedulable /\ \A n \in Schedulable : n \in S <=> Fits(n, {m \in S : m < n})
  BY <1>1, <1>2, <1>5 DEF GreedyBelow
<1>7. QED
  BY <1>6 DEF Batch

\* The batch takes no more nodes of a driver than it runs at once, and none for
\* one that is at its limit.
LEMMA BatchRespects ==
    ASSUME NEW a \in Drivers, NEW D, D = {n \in Batch : AgentFor(n) = a}, D # {}
    PROVE  ~Exhausted(a) /\ IsFiniteSet(D) /\ Cardinality(D) <= Concurrency[a]
<1>1. Batch \subseteq Nodes
  BY BatchIsGreedy DEF Schedulable
<1>2. D \subseteq Nat /\ D \subseteq Nodes
  BY <1>1
<1>3. PICK b \in Nat : \A n \in Nodes : n < b
  BY FiniteIsBounded
<1>4. PICK x \in D : \A y \in D : y <= x
  <2> DEFINE T == {k \in Nat : b - k \in D}
  <2>1. T \subseteq Nat
    OBVIOUS
  <2>2. \A y \in D : b - y \in T
    BY <1>2, <1>3
  <2>3. T # {}
    BY <2>2
  <2>4. PICK k \in T : \A j \in T : k <= j
    BY <2>1, <2>3, LeastNumber
  <2>5. b - k \in D /\ \A y \in D : y <= b - k
    BY <1>2, <2>2, <2>4
  <2>6. QED
    BY <2>5
<1>5. PICK P : P = {m \in D : m < x}
  OBVIOUS
<1>6. Fits(x, {m \in Batch : m < x}) /\ AgentFor(x) = a
  BY <1>4, BatchIsGreedy
<1>7. {m \in {m \in Batch : m < x} : AgentFor(m) = AgentFor(x)} = P
  BY <1>5, <1>6
<1>8. ~Exhausted(a) /\ Cardinality(P) < Concurrency[a]
  BY <1>6, <1>7 DEF Fits
<1>9. D = P \cup {x} /\ x \notin P
  BY <1>2, <1>4, <1>5
<1>10. IsFiniteSet(D) /\ IsFiniteSet(P)
  BY <1>2, <1>5, FS_Subset
<1>11. Cardinality(D) = Cardinality(P) + 1 /\ Cardinality(P) \in Nat
  BY <1>9, <1>10, FS_AddElement, FS_CardinalityType
<1>12. QED
  BY <1>8, <1>10, <1>11

\* A node is unbilled until the thread that has it records the usage.
Unbilled == {"picked", "starting"} \cup Launched
Owing(a) == {n \in Nodes : job[n].at \in Unbilled /\ job[n].by = a}

NobodysFallback(a) == \A b \in Drivers : a \notin {OnLimit[b], OnTimeout[b]}

\* What a driver has spent, and what its threads may yet spend, is within its
\* limit and one more round of threads.
OwingIsBounded ==
    \A a \in Drivers :
        Budget[a] # 0 /\ NobodysFallback(a)
            => spent[a] + Cardinality(Owing(a)) <= Budget[a] + Concurrency[a] - 1

LEMMA OwingIsFinite ==
    ASSUME NEW a PROVE IsFiniteSet(Owing(a)) /\ Cardinality(Owing(a)) \in Nat
<1>1. Owing(a) \subseteq Nodes
  BY DEF Owing
<1>2. QED
  BY <1>1, FS_Subset, FS_CardinalityType

\* What no longer may be spent pays for what was.
LEMMA OwingPays ==
    ASSUME NEW a \in Drivers, spent \in [Drivers -> Nat],
           Owing(a)' \subseteq Owing(a),
           \/ spent'[a] = spent[a]
           \/ spent'[a] = spent[a] + 1 /\ Owing(a)' # Owing(a)
    PROVE  spent'[a] + Cardinality(Owing(a)') <= spent[a] + Cardinality(Owing(a))
<1>1. PICK before, after : before = Owing(a) /\ after = Owing(a)'
  OBVIOUS
<1>2. IsFiniteSet(before) /\ Cardinality(before) \in Nat
  BY <1>1, OwingIsFinite
<1>3. after \in SUBSET before
  BY <1>1
<1>4. IsFiniteSet(after)
  BY <1>2, <1>3, FS_Subset
<1>5. /\ Cardinality(after) \in Nat /\ Cardinality(after) <= Cardinality(before)
      /\ Cardinality(after) = Cardinality(before) => after = before
  BY <1>2, <1>3, <1>4, FS_Subset, FS_CardinalityType
<1>6. spent[a] \in Nat
  OBVIOUS
<1>7. Cardinality(Owing(a)') = Cardinality(after) /\ Cardinality(Owing(a)) = Cardinality(before)
  BY <1>1
<1>8. CASE spent'[a] = spent[a]
  BY <1>2, <1>5, <1>6, <1>7, <1>8
<1>9. CASE spent'[a] = spent[a] + 1 /\ after # before
  BY <1>2, <1>5, <1>6, <1>7, <1>9
<1>10. QED
  BY <1>1, <1>8, <1>9

\* A thread bills the run of its driver once, and owes nothing after; who it is
\* handed to is somebody's fallback.
LEMMA ThreadOwes ==
    ASSUME RunTypeOK, ThreadsAtWork, OwnSweeps, NEW n \in Nodes, ThreadStep(n),
           NEW a \in Drivers, NobodysFallback(a)
    PROVE  /\ Owing(a)' \subseteq Owing(a)
           /\ \/ spent'[a] = spent[a]
              \/ spent'[a] = spent[a] + 1 /\ Owing(a)' # Owing(a)
<1> USE DEF OnlyThread, GivesUp, ResultIs, Steps, Results, Unbilled, Launched
<1>1. \A m \in Nodes \ {n} : job'[m] = job[m]
  BY ThreadEffects DEF ThreadEffect
<1>2. job \in [Nodes -> Threads] /\ halt \in BOOLEAN /\ spent \in [Drivers -> Nat]
  BY DEF RunTypeOK
<1>3. job[n].at # "none" /\ job[n].by \in Drivers
  BY ThreadEffects DEF ThreadEffect, ThreadsAtWork
\* Nothing is spent.
<1> DEFINE Keeps == /\ spent' = spent
                    /\ job'[n].at \in Unbilled /\ job'[n].by = a
                        => job[n].at \in Unbilled /\ job[n].by = a
           Bills == /\ Spends(job[n].by)
                    /\ job[n].at \in Results /\ job'[n].at \notin Unbilled
<1>4. ASSUME Keeps PROVE Owing(a)' \subseteq Owing(a) /\ spent'[a] = spent[a]
  BY <1>1, <1>4 DEF Owing
<1>5. ASSUME Bills
      PROVE  /\ Owing(a)' \subseteq Owing(a)
             /\ \/ spent'[a] = spent[a]
                \/ spent'[a] = spent[a] + 1 /\ Owing(a)' # Owing(a)
  <2>1. Owing(a)' \subseteq Owing(a) /\ n \notin Owing(a)'
    BY <1>1, <1>5 DEF Owing
  <2>2. CASE job[n].by = a
    <3>1. n \in Owing(a)
      BY <1>5, <2>2 DEF Owing
    <3>2. spent'[a] = spent[a] \/ spent'[a] = spent[a] + 1
      BY <1>2, <1>5, <2>2 DEF Spends
    <3>3. QED
      BY <2>1, <3>1, <3>2
  <2>3. CASE job[n].by # a
    <3>1. spent'[a] = spent[a]
      BY <1>2, <1>5, <2>3 DEF Spends
    <3>2. QED
      BY <2>1, <3>1
  <2>4. QED
    BY <2>2, <2>3
<1>6. ASSUME NEW step \in Unbilled, job[n].at \in Unbilled, Goes(n, step), spent' = spent
      PROVE  Keeps
  BY <1>2, <1>6, ThreadMoves
<1>7. ASSUME NEW step \in {"limited", "waiting", "sweeping"}, Goes(n, step)
      PROVE  job'[n].at \notin Unbilled
  BY <1>2, <1>7, ThreadMoves
<1>8. ASSUME NEW b \in BOOLEAN, Ends(n, b)
      PROVE  job'[n].at \notin Unbilled
  BY <1>2, <1>8, ThreadMoves
<1>9. ASSUME NEW d \in Drivers, HandTo(n, d)
      PROVE  job'[n].by = d
  BY <1>2, <1>9, ThreadMoves
<1>10. CASE \/ PickedEnds(n) \/ ThreadFailsToStart(n) \/ ThreadRaises(n)
            \/ LimitedPauses(n) \/ WaitStopped(n) \/ SweptInThread(n) \/ Overtaken(n)
  <2>1. spent' = spent /\ \E b \in BOOLEAN : Ends(n, b)
    BY <1>10 DEF PickedEnds, ThreadFailsToStart, ThreadRaises, LimitedPauses, WaitStopped,
                 SweptInThread, Overtaken
  <2>2. QED
    BY <1>4, <1>8, <2>1
<1>11. CASE Stopped(n) \/ UnavailableBlocks(n) \/ SweepRaises(n)
  <2>1. spent' = spent /\ Ends(n, TRUE)
    BY <1>11 DEF Stopped, UnavailableBlocks, SweepRaises
  <2>2. QED
    BY <1>4, <1>8, <2>1
<1>12. CASE PickedStarts(n) \/ ThreadStarts(n) \/ DriverSpawns(n) \/ DriverReturns(n)
  <2>1. spent' = spent /\ job[n].at \in Unbilled /\ \E step \in Unbilled : Goes(n, step)
    BY <1>12 DEF PickedStarts, ThreadStarts, DriverSpawns, DriverReturns
  <2>2. QED
    BY <1>4, <1>6, <2>1
<1>13. CASE LimitedWaits(n) \/ WaitOver(n)
  <2>1. spent' = spent /\ \E step \in {"waiting", "sweeping"} : Goes(n, step)
    BY <1>13 DEF LimitedWaits, WaitOver
  <2>2. QED
    BY <1>4, <1>7, <2>1
<1>14. CASE ResultDone(n) \/ ResultFailed(n)
  <2>1. Spends(job[n].by) /\ job[n].at \in Results /\ \E b \in BOOLEAN : Ends(n, b)
    BY <1>14 DEF ResultDone, ResultFailed
  <2>2. QED
    BY <1>5, <1>8, <2>1
<1>15. CASE ResultLimited(n)
  <2>1. Spends(job[n].by) /\ job[n].at \in Results /\ Goes(n, "limited")
    BY <1>15 DEF ResultLimited
  <2>2. QED
    BY <1>5, <1>7, <2>1
<1>16. CASE FallsBack(n)
  <2>1. /\ spent' = spent /\ OnLimit[job[n].by] \in Drivers
        /\ HandTo(n, OnLimit[job[n].by])
    BY <1>16 DEF FallsBack
  <2>2. OnLimit[job[n].by] # a
    BY <1>3 DEF NobodysFallback
  <2>3. QED
    BY <1>4, <1>9, <2>1, <2>2
<1>17. CASE WaitEscalates(n)
  <2>1. /\ spent' = spent
        /\ \/ OnTimeout[job[n].by] \in Drivers /\ HandTo(n, OnTimeout[job[n].by])
           \/ Ends(n, TRUE)
    BY <1>17 DEF WaitEscalates
  <2>2. OnTimeout[job[n].by] # a
    BY <1>3 DEF NobodysFallback
  <2>3. QED
    BY <1>4, <1>8, <1>9, <2>1, <2>2
<1>18. ASSUME NEW m \in Nodes, SweepOne(n, m)
       PROVE  Keeps
  BY <1>18 DEF SweepOne, threadVars
<1>19. QED
  BY <1>4, <1>10, <1>11, <1>12, <1>13, <1>14, <1>15, <1>16, <1>17, <1>18 DEF ThreadStep

\* A new batch of a driver that is below its limit.
LEMMA PickedOwes ==
    ASSUME RunInv, RunPicks, NEW a \in Drivers, Budget[a] # 0,
           spent[a] + Cardinality(Owing(a)) <= Budget[a] + Concurrency[a] - 1
    PROVE  spent'[a] + Cardinality(Owing(a)') <= Budget[a] + Concurrency[a] - 1
<1>1. spent' = spent /\ spent[a] \in Nat
  BY DEF RunPicks, RunGoes, RunInv, RTypeOK
<1>2. PICK D : D = {n \in Batch : AgentFor(n) = a}
  OBVIOUS
<1>3. Owing(a)' = D
  <2>1. Batch \subseteq Nodes
    BY BatchIsGreedy DEF Schedulable
  <2>2. \A n \in Nodes : job'[n] = IF n \in Batch THEN [at |-> "picked", by |-> AgentFor(n)]
                                                 ELSE Idle
    BY DEF RunPicks
  <2>3. \A n \in Nodes : job'[n].at \in Unbilled /\ job'[n].by = a <=> n \in D
    <3>1. ASSUME NEW n \in Nodes, n \in Batch
          PROVE  job'[n].at = "picked" /\ job'[n].by = AgentFor(n)
      <4>1. job'[n] = [at |-> "picked", by |-> AgentFor(n)]
        BY <2>2, <3>1, Zenon
      <4>2. QED
        BY <4>1
    <3>2. ASSUME NEW n \in Nodes, n \notin Batch
          PROVE  job'[n].at = "none"
      <4>1. job'[n] = Idle
        BY <2>2, <3>2, Zenon
      <4>2. QED
        BY <4>1 DEF Idle
    <3>3. QED
      BY <1>2, <3>1, <3>2 DEF Unbilled, Launched, Results
  <2>4. QED
    BY <1>2, <2>1, <2>3 DEF Owing
<1>4. CASE D = {}
  <2>1. Cardinality(Owing(a)') = 0
    BY <1>3, <1>4, FS_EmptySet
  <2>2. PICK k \in Nat : k = Cardinality(Owing(a))
    BY OwingIsFinite
  <2>3. QED
    BY <1>1, <2>1, <2>2
<1>5. CASE D # {}
  <2>1. ~Exhausted(a) /\ Cardinality(D) <= Concurrency[a] /\ Cardinality(D) \in Nat
    BY <1>2, <1>5, BatchRespects, FS_CardinalityType
  <2>2. spent[a] <= Budget[a] - 1
    BY <1>1, <2>1 DEF Exhausted
  <2>3. Cardinality(Owing(a)') = Cardinality(D)
    BY <1>3
  <2>4. QED
    BY <1>1, <2>1, <2>2, <2>3
<1>6. QED
  BY <1>4, <1>5

LEMMA OwingStep == RunInv /\ OwingIsBounded /\ [RNext]_rVars => OwingIsBounded'
<1> SUFFICES ASSUME RunInv, OwingIsBounded, [RNext]_rVars,
                    NEW a \in Drivers, Budget[a] # 0, NobodysFallback(a)
             PROVE  spent'[a] + Cardinality(Owing(a)') <= Budget[a] + Concurrency[a] - 1
  BY DEF OwingIsBounded, NobodysFallback
<1>1. /\ spent[a] + Cardinality(Owing(a)) <= Budget[a] + Concurrency[a] - 1
      /\ RunTypeOK /\ ThreadsAtWork /\ OwnSweeps
  BY RunTypes DEF OwingIsBounded, RunInv
<1>2. spent \in [Drivers -> Nat] /\ job \in [Nodes -> Threads] /\ halt \in BOOLEAN
  BY <1>1 DEF RunTypeOK
<1>3. ASSUME Owing(a)' \subseteq Owing(a),
             \/ spent'[a] = spent[a]
             \/ spent'[a] = spent[a] + 1 /\ Owing(a)' # Owing(a)
      PROVE  spent'[a] + Cardinality(Owing(a)') <= Budget[a] + Concurrency[a] - 1
  <2>1. spent'[a] + Cardinality(Owing(a)') <= spent[a] + Cardinality(Owing(a))
    BY <1>2, <1>3, OwingPays
  <2>2. PICK k \in Nat : k = Cardinality(Owing(a))
    BY OwingIsFinite
  <2>3. IsFiniteSet(Owing(a)')
    BY <1>3, OwingIsFinite, FS_Subset
  <2>4. PICK m \in Nat : m = Cardinality(Owing(a)')
    BY <2>3, FS_CardinalityType
  <2>5. spent[a] \in Nat /\ spent'[a] \in Nat
    BY <1>2, <1>3
  <2>6. QED
    BY <1>1, <2>1, <2>2, <2>4, <2>5
<1>4. ASSUME spent' = spent,
             \A n \in Nodes : job'[n].at \in Unbilled => job'[n].by = job[n].by /\ job[n].at \in Unbilled
      PROVE  spent'[a] + Cardinality(Owing(a)') <= Budget[a] + Concurrency[a] - 1
  <2>1. Owing(a)' \subseteq Owing(a)
    BY <1>4 DEF Owing
  <2>2. QED
    BY <1>3, <1>4, <2>1
<1>5. ASSUME NEW n \in Nodes, ThreadStep(n)
      PROVE  spent'[a] + Cardinality(Owing(a)') <= Budget[a] + Concurrency[a] - 1
  BY <1>1, <1>3, <1>5, ThreadOwes
<1>6. CASE RunPicks
  BY <1>1, <1>6, PickedOwes
<1>7. ASSUME Vanish PROVE spent'[a] + Cardinality(Owing(a)') <= Budget[a] + Concurrency[a] - 1
  BY <1>4, <1>7 DEF Vanish, Idle, Unbilled, Launched, Results
<1>8. ASSUME UNCHANGED <<job, spent>>
      PROVE  spent'[a] + Cardinality(Owing(a)') <= Budget[a] + Concurrency[a] - 1
  BY <1>4, <1>8
<1>9. CASE RunStopped
  <2>1. ASSUME NEW n \in Nodes, job'[n].at \in Unbilled
        PROVE  job'[n].by = job[n].by /\ job[n].at \in Unbilled
    <3>1. PICK s \in Steps, d \in Drivers \cup {NoOwner} : job[n] = [at |-> s, by |-> d]
      BY <1>2 DEF Threads
    <3>2. CASE job[n].at = "running"
      <4>1. job'[n] = [job[n] EXCEPT !.at = "failed"]
        BY <1>9, <3>2 DEF RunStopped
      <4>2. job'[n].by = job[n].by
        BY <3>1, <4>1
      <4>3. QED
        BY <3>2, <4>2 DEF Unbilled, Launched
    <3>3. CASE job[n].at # "running"
      <4>1. job'[n] = job[n]
        BY <1>9, <3>3 DEF RunStopped
      <4>2. QED
        BY <2>1, <4>1
    <3>4. QED
      BY <3>2, <3>3
  <2>2. spent' = spent
    BY <1>9 DEF RunStopped
  <2>3. QED
    BY <1>4, <2>1, <2>2
<1>10. ASSUME NEW n \in Nodes, SessionStopped(n)
       PROVE  spent'[a] + Cardinality(Owing(a)') <= Budget[a] + Concurrency[a] - 1
  <2>1. Goes(n, "failed") /\ job[n].at = "running" /\ spent' = spent
    BY <1>10 DEF SessionStopped
  <2>2. /\ job'[n].by = job[n].by
        /\ \A m \in Nodes \ {n} : job'[m] = job[m]
    BY <1>2, <2>1, ThreadMoves DEF Steps, Results
  <2>3. QED
    BY <1>4, <2>1, <2>2 DEF Unbilled, Launched
<1>11. CASE LoopStep
  <2>1. CASE RunSweepsLeases \/ RunSwept \/ RunReturns \/ RunCollects
    BY <1>8, <2>1 DEF RunSweepsLeases, RunSwept, RunReturns, RunCollects, RunGoes, threadVars
  <2>2. CASE FirstSweepRaises
    BY <1>7, <2>2 DEF FirstSweepRaises
  <2>3. ASSUME NEW m \in Nodes, SweepOne(Main, m)
        PROVE  UNCHANGED <<job, spent>>
    BY <2>3 DEF SweepOne, threadVars
  <2>4. QED
    BY <1>6, <1>8, <1>11, <2>1, <2>2, <2>3 DEF LoopStep
<1>12. CASE OutsideStep
  <2>1. CASE RunBegins \/ ProjectPhase \/ DaemonSweeps
    BY <1>8, <2>1 DEF RunBegins, ProjectPhase, DaemonSweeps, RunGoes, threadVars, runVars
  <2>2. CASE RunnerDies
    BY <1>7, <2>2 DEF RunnerDies
  <2>3. ASSUME NEW n \in Nodes,
               \/ AgentIsSeen(n) \/ HumanMoves(n) \/ LeaseLapses(n)
               \/ \E b \in Others[n] : OthersWork(n, b)
        PROVE  UNCHANGED <<job, spent>>
    BY <2>3 DEF AgentIsSeen, HumanMoves, LeaseLapses, OthersWork, runVars, threadVars
  <2>4. QED
    BY <1>8, <1>9, <1>10, <1>12, <2>1, <2>2, <2>3 DEF OutsideStep
<1>13. CASE Tick \/ UNCHANGED rVars
  BY <1>8, <1>13 DEF Tick, rVars, runVars, threadVars
<1>14. QED
  BY <1>5, <1>11, <1>12, <1>13 DEF RNext

\* Budgets are read once for a batch, but a driver that is nobody's fallback is
\* given at most its own concurrency of runs then, and each of them is billed at
\* most once: the limit is overrun by less than that.
THEOREM OverrunStaysBounded == RSpec => []OverrunIsBounded
<1>1. RInit => OwingIsBounded
  <2>1. ASSUME RInit, NEW a \in Drivers PROVE Owing(a) = {} /\ spent[a] = 0
    BY <2>1 DEF RInit, Owing, Idle, Unbilled, Launched, Results
  <2>2. ASSUME RInit, NEW a \in Drivers
        PROVE  spent[a] + Cardinality(Owing(a)) <= Budget[a] + Concurrency[a] - 1
    <3>1. spent[a] = 0 /\ Cardinality(Owing(a)) = 0
      BY <2>1, <2>2, FS_EmptySet
    <3>2. Budget[a] \in Nat /\ Concurrency[a] \in Nat \ {0}
      OBVIOUS
    <3>3. QED
      BY <3>1, <3>2
  <2>3. QED
    BY <2>2 DEF OwingIsBounded
<1>2. RunInv /\ OwingIsBounded => OverrunIsBounded
  <2> SUFFICES ASSUME RunInv, OwingIsBounded, NEW a \in Drivers, Budget[a] # 0,
                      NobodysFallback(a)
               PROVE  spent[a] <= Budget[a] + Concurrency[a] - 1
    BY DEF OverrunIsBounded, NobodysFallback
  <2>1. spent[a] \in Nat
    BY DEF RunInv, RTypeOK
  <2>2. PICK k \in Nat : k = Cardinality(Owing(a))
    BY OwingIsFinite
  <2>3. QED
    BY <2>1, <2>2 DEF OwingIsBounded
<1>3. QED
  BY <1>1, <1>2, OwingStep, RunInvInit, RunInvNext, PTL DEF RSpec
=============================================================================
