------------------------------ MODULE Sessions -------------------------------
(***************************************************************************)
(* Agent sessions: core/sessions.py for one run that the runner launched,  *)
(* with the lines its agent's hooks spool and a Stop from the dashboard.   *)
(*                                                                         *)
(* The runner and the Stop are two processes: what keeps a stopped agent   *)
(* from being taken for a failed one is the write lock, which the Stop     *)
(* holds from its event to the commit, with the signal in between.         *)
(***************************************************************************)
EXTENDS Integers, Sequences

CONSTANTS
    AgentLines,  \* what the agent's hooks write, in their order
    MaxRedrains, \* bound on the drains that start from the first line again
    MaxStops     \* bound on the Stops

ASSUME SessionsAssumption ==
    /\ AgentLines \in Seq({"session-start", "pre-tool-use", "stop", "session-end"})
    /\ MaxRedrains \in Nat /\ MaxStops \in Nat

VARIABLES
    runner,   \* the step of run_node
    driver,   \* the agent's process, the leader of its group
    outcome,  \* what run_node makes of it
    run,      \* the launched row of sessions
    folded,   \* "none", "alias", or "hand": the row of the agent's own id
    spooled,  \* lines written by the agent's hooks
    folds,    \* lines folded in, in this pass of the drain
    stopper,  \* the step of stop_launched
    stopRow,  \* session.stopped, once it is committed
    redrains, stops, sent

sessionsVars == <<runner, driver, outcome, run, folded, spooled, folds, stopper, stopRow,
                  redrains, stops, sent>>

runnerVars == <<runner, driver, outcome>>
tableVars  == <<run, folded, stopRow>>
linesVars  == <<spooled, folds, redrains>>
stopVars   == <<stopper, stops, sent>>

NoRun == [exists |-> FALSE, pid |-> FALSE, ended |-> FALSE, waiting |-> FALSE]

\* Mutant of LockIsFree: the signal is sent after the transaction.
LockIsFreeAtSignal == stopper # "locked"

\* write_txn: the Stop's transaction is the only one that spans steps.
LockIsFree == stopper \notin {"locked", "killed"}

-----------------------------------------------------------------------------
(* run_node.                                                               *)

StartsLaunched ==
    /\ runner = "start" /\ LockIsFree
    /\ run' = [NoRun EXCEPT !.exists = TRUE]
    /\ runner' = "spawn"
    /\ UNCHANGED <<driver, outcome, folded, stopRow, linesVars, stopVars>>

Spawns ==
    /\ runner = "spawn"
    /\ driver' = "running" /\ runner' = "pid"
    /\ UNCHANGED <<outcome, tableVars, linesVars, stopVars>>

SetsPid ==
    /\ runner = "pid" /\ LockIsFree
    /\ run' = [run EXCEPT !.pid = TRUE]
    /\ runner' = "wait"
    /\ UNCHANGED <<driver, outcome, folded, stopRow, linesVars, stopVars>>

\* The driver's exit, which the runner waits for.
Reaps ==
    /\ runner = "wait" /\ driver \in {"exited", "terminated"}
    /\ driver' = "reaped"
    /\ outcome' = IF driver = "terminated" THEN "failed" ELSE "done"
    /\ runner' = "end"
    /\ UNCHANGED <<tableVars, linesVars, stopVars>>

\* end_launched, after a drain that another drainer may have kept from its lines.
EndsLaunched ==
    /\ runner = "end" /\ LockIsFree
    /\ run' = IF run.ended THEN run ELSE [run EXCEPT !.ended = TRUE, !.waiting = FALSE]
    /\ runner' = "ask"
    /\ UNCHANGED <<driver, outcome, folded, stopRow, linesVars, stopVars>>

\* stop_requested.
AsksForStop ==
    /\ runner = "ask"
    /\ outcome' = IF stopRow THEN "stopped" ELSE outcome
    /\ runner' = "decided"
    /\ UNCHANGED <<driver, tableVars, linesVars, stopVars>>

-----------------------------------------------------------------------------
(* The agent, its lines and their drain.                                   *)

AgentExits ==
    /\ driver = "running"
    /\ driver' = "exited"
    /\ UNCHANGED <<runner, outcome, tableVars, linesVars, stopVars>>

HookSpools ==
    /\ driver = "running"
    /\ spooled < Len(AgentLines)
    /\ spooled' = spooled + 1
    /\ UNCHANGED <<runnerVars, tableVars, folds, redrains, stopVars>>

\* Mutant of IsRun: a run that has ended is not looked for.
IsOpenRun == run.exists /\ ~run.ended

\* The launched row that _canonical_id finds by MUVUE_SESSION.
IsRun == run.exists

\* apply_line: a line of the run updates its row, and any other makes a row of
\* its own; session-start reopens what has ended.
FoldsLine ==
    /\ folds < spooled /\ LockIsFree
    /\ folds' = folds + 1
    /\ LET etype == AgentLines[folds'] IN
       IF IsRun
       THEN /\ run' = [run EXCEPT !.waiting = etype = "stop",
                                  !.ended = etype = "session-end" \/ (@ /\ etype # "session-start")]
            /\ folded' = IF folded = "none" THEN "alias" ELSE folded
       ELSE folded' = (IF folded = "none" THEN "hand" ELSE folded) /\ UNCHANGED run
    /\ UNCHANGED <<runnerVars, stopRow, spooled, redrains, stopVars>>

Redrains ==
    /\ redrains < MaxRedrains /\ folds > 0
    /\ redrains' = redrains + 1
    /\ folds' = 0
    /\ UNCHANGED <<runnerVars, tableVars, spooled, stopVars>>

-----------------------------------------------------------------------------
(* stop_launched.                                                          *)

\* A run that is open, with a process.
StopReads ==
    /\ stopper = "idle" /\ stops < MaxStops
    /\ run.exists /\ run.pid /\ ~run.ended
    /\ stopper' = "read" /\ stops' = stops + 1
    /\ UNCHANGED <<runnerVars, tableVars, linesVars, sent>>

Leads == driver \in {"running", "exited", "terminated"}

\* A pid that leads no group is not ours: the run is marked ended.
ChecksLeader ==
    /\ stopper = "read"
    /\ \/ /\ Leads
          /\ stopper' = "leads" /\ UNCHANGED run
       \/ /\ ~Leads
          /\ stopper' = "idle" /\ run' = [run EXCEPT !.ended = TRUE, !.waiting = FALSE]
    /\ UNCHANGED <<runnerVars, folded, stopRow, linesVars, stops, sent>>

\* The transaction opens with the event.
RecordsStop ==
    /\ stopper = "leads"
    /\ stopper' = "locked"
    /\ UNCHANGED <<runnerVars, tableVars, linesVars, stops, sent>>

\* The signal; with nobody to take it, the transaction rolls back and the run is
\* marked ended in one of its own.
Kills ==
    /\ stopper = "locked"
    /\ IF Leads
       THEN /\ sent' = TRUE
            /\ driver' \in {driver, IF driver = "running" THEN "terminated" ELSE driver}
            /\ stopper' = "killed" /\ UNCHANGED run
       ELSE /\ stopper' = "idle"
            /\ run' = [run EXCEPT !.ended = TRUE, !.waiting = FALSE]
            /\ UNCHANGED <<driver, sent>>
    /\ UNCHANGED <<runner, outcome, folded, stopRow, linesVars, stops>>

CommitsStop ==
    /\ stopper = "killed"
    /\ stopRow' = TRUE
    /\ stopper' = "idle"
    /\ UNCHANGED <<runnerVars, run, folded, linesVars, stops, sent>>

-----------------------------------------------------------------------------
SessionsInit ==
    /\ runner = "start" /\ driver = "unborn" /\ outcome = "none"
    /\ run = NoRun /\ folded = "none"
    /\ spooled = 0 /\ folds = 0
    /\ stopper = "idle" /\ stopRow = FALSE
    /\ redrains = 0 /\ stops = 0 /\ sent = FALSE

SessionsNext ==
    \/ StartsLaunched \/ Spawns \/ SetsPid \/ Reaps \/ EndsLaunched \/ AsksForStop
    \/ AgentExits \/ HookSpools \/ FoldsLine \/ Redrains
    \/ StopReads \/ ChecksLeader \/ RecordsStop \/ Kills \/ CommitsStop

SessionsSpec == SessionsInit /\ [][SessionsNext]_sessionsVars

-----------------------------------------------------------------------------
(* Properties.                                                             *)

\* A run whose process got the signal of a Stop is released, and never counted
\* as done or failed: the runner asks for the event only after it took the lock
\* that the Stop holds while it signals.
StoppedIsReleased == runner = "decided" /\ sent => outcome = "stopped"

\* The lines of a launched agent never make a session of their own, in whatever
\* order the spool is drained and the run ends, and the run that is asked about
\* after all of them, with a session-end, has ended.
RunIsOneSession ==
    /\ folded # "hand"
    /\ runner = "decided" /\ folds = Len(AgentLines)
       /\ AgentLines[Len(AgentLines)] = "session-end" => run.ended
=============================================================================
