---------------------------- MODULE AgentProofs -----------------------------
(* An agent at work, seen from the daemon: the run its session is, the turn it *)
(* may not end yet, the questions it waits for and the calls it retries.   *)
EXTENDS Sessions, TurnGate, Asks, Requests, FiniteSetTheorems, SequenceTheorems,
        TLAPS

-----------------------------------------------------------------------------
(* Sessions: a run whose process got the signal of a Stop is released.     *)

\* The Stop that has signalled holds the lock until its event is committed.
SentIsOnRecord == sent => stopRow \/ stopper = "killed"

\* From its last steps on, the runner has reaped its driver: there is nobody
\* left to signal.
EndsReaped == runner \in {"end", "ask", "decided"} => driver = "reaped"

\* A runner that has had the lock after the signal finds the event.
AskedAfterStop ==
    /\ runner \in {"ask", "decided"} /\ sent => stopRow
    /\ runner = "decided" /\ sent => outcome = "stopped"

\* Inductive: the order of signal, commit and question.
StopInv == SentIsOnRecord /\ EndsReaped /\ AskedAfterStop

LEMMA StopInitInv == SessionsInit => StopInv
  BY DEF SessionsInit, StopInv, SentIsOnRecord, EndsReaped, AskedAfterStop

\* The runner's own steps.
LEMMA RunnerStepInv ==
  ASSUME StopInv,
         \/ StartsLaunched \/ Spawns \/ SetsPid \/ Reaps \/ EndsLaunched \/ AsksForStop
  PROVE  StopInv'
<1> USE DEF StopInv, SentIsOnRecord, EndsReaped, AskedAfterStop, LockIsFree,
            stopVars, linesVars, tableVars
<1>1. CASE StartsLaunched
  BY <1>1 DEF StartsLaunched
<1>2. CASE Spawns
  BY <1>2 DEF Spawns
<1>3. CASE SetsPid
  BY <1>3 DEF SetsPid
<1>4. CASE Reaps
  BY <1>4 DEF Reaps
<1>5. CASE EndsLaunched
  BY <1>5 DEF EndsLaunched
<1>6. CASE AsksForStop
  BY <1>6 DEF AsksForStop
<1> QED
  BY <1>1, <1>2, <1>3, <1>4, <1>5, <1>6

\* The agent's, the drain's and the Stop's.
LEMMA DriverStepInv ==
  ASSUME StopInv,
         \/ AgentExits \/ HookSpools \/ FoldsLine \/ Redrains
         \/ StopReads \/ ChecksLeader \/ RecordsStop \/ Kills \/ CommitsStop
  PROVE  StopInv'
<1> USE DEF StopInv, SentIsOnRecord, EndsReaped, AskedAfterStop, runnerVars,
            stopVars, linesVars, tableVars
<1>1. CASE AgentExits
  BY <1>1 DEF AgentExits
<1>2. CASE HookSpools \/ FoldsLine \/ Redrains
  BY <1>2 DEF HookSpools, FoldsLine, Redrains
<1>3. CASE StopReads
  BY <1>3 DEF StopReads
<1>4. CASE ChecksLeader
  BY <1>4 DEF ChecksLeader
<1>5. CASE RecordsStop
  BY <1>5 DEF RecordsStop
<1>6. CASE Kills
  \* A signal is sent only to a process that nobody has reaped.
  <2>1. CASE Leads
    <3>1. runner \notin {"end", "ask", "decided"}
      BY <2>1 DEF Leads
    <3> QED
      BY <1>6, <2>1, <3>1 DEF Kills
  <2>2. CASE ~Leads
    BY <1>6, <2>2 DEF Kills
  <2> QED
    BY <2>1, <2>2
<1>7. CASE CommitsStop
  BY <1>7 DEF CommitsStop
<1> QED
  BY <1>1, <1>2, <1>3, <1>4, <1>5, <1>6, <1>7

\* For every sequence of lines, number of Stops and of drains that begin again:
\* a run whose process was signalled is released, never failed or done.
THEOREM StoppedRunsAreReleased == SessionsSpec => []StoppedIsReleased
<1>1. StopInv /\ [SessionsNext]_sessionsVars => StopInv'
  <2> SUFFICES ASSUME StopInv, [SessionsNext]_sessionsVars
               PROVE  StopInv'
    OBVIOUS
  <2>1. CASE UNCHANGED sessionsVars
    BY <2>1 DEF sessionsVars, StopInv, SentIsOnRecord, EndsReaped, AskedAfterStop
  <2> QED
    BY <2>1, RunnerStepInv, DriverStepInv DEF SessionsNext
<1>2. StopInv => StoppedIsReleased
  BY DEF StopInv, AskedAfterStop, StoppedIsReleased
<1> QED
  BY <1>1, <1>2, StopInitInv, PTL DEF SessionsSpec

-----------------------------------------------------------------------------
(* Sessions: an agent the daemon launched is folded into the run it was    *)
(* launched as.                                                            *)

\* The row, and how far the drain and the hooks have come.
RunTyped ==
    /\ run \in [exists : BOOLEAN, pid : BOOLEAN, ended : BOOLEAN, waiting : BOOLEAN]
    /\ spooled \in Nat /\ folds \in Nat
    /\ folds <= spooled /\ spooled <= Len(AgentLines)

\* A hook writes only for an agent that was spawned, and the row was there before.
RowComesFirst ==
    /\ runner # "start" => run.exists
    /\ runner \in {"start", "spawn"} => driver = "unborn"
    /\ driver = "unborn" => spooled = 0

\* Once the runner has ended the run, only a line can open it again, and a last
\* line that is session-end does not leave it open.
EndsWithTheLastLine ==
    /\ runner \in {"ask", "decided"} /\ folds = Len(AgentLines)
    /\ Len(AgentLines) = 0 \/ AgentLines[Len(AgentLines)] = "session-end"
    => run.ended

\* Inductive: the lines of a run belong to its row.
OneSessionInv == RunTyped /\ RowComesFirst /\ folded # "hand" /\ EndsWithTheLastLine

LEMMA LinesLength == Len(AgentLines) \in Nat
  BY SessionsAssumption, LenProperties

LEMMA OneSessionInitInv == SessionsInit => OneSessionInv
  BY LinesLength
     DEF SessionsInit, OneSessionInv, RunTyped, RowComesFirst, EndsWithTheLastLine, NoRun

LEMMA OneSessionStepInv == OneSessionInv /\ [SessionsNext]_sessionsVars => OneSessionInv'
<1> SUFFICES ASSUME OneSessionInv, [SessionsNext]_sessionsVars
             PROVE  OneSessionInv'
  OBVIOUS
<1> USE LinesLength
    DEF OneSessionInv, RunTyped, RowComesFirst, EndsWithTheLastLine,
        runnerVars, tableVars, linesVars, stopVars
<1>1. CASE StartsLaunched
  BY <1>1 DEF StartsLaunched, NoRun
<1>2. CASE Spawns \/ SetsPid
  BY <1>2 DEF Spawns, SetsPid
<1>3. CASE Reaps \/ AsksForStop
  BY <1>3 DEF Reaps, AsksForStop
<1>4. CASE EndsLaunched
  BY <1>4 DEF EndsLaunched
<1>5. CASE AgentExits \/ HookSpools
  BY <1>5 DEF AgentExits, HookSpools
<1>6. CASE FoldsLine
  <2>1. run.exists
    BY <1>6 DEF FoldsLine
  <2> DEFINE etype == AgentLines[folds + 1]
  <2>2. /\ folds' = folds + 1 /\ folds < spooled
        /\ run' = [run EXCEPT !.waiting = etype = "stop",
                              !.ended = etype = "session-end" \/ (@ /\ etype # "session-start")]
        /\ folded' = IF folded = "none" THEN "alias" ELSE folded
        /\ UNCHANGED <<runner, driver, outcome, spooled>>
    BY <1>6, <2>1 DEF FoldsLine, IsRun
  <2>3. /\ run'.exists /\ run'.ended = (etype = "session-end" \/ (run.ended /\ etype # "session-start"))
        /\ run' \in [exists : BOOLEAN, pid : BOOLEAN, ended : BOOLEAN, waiting : BOOLEAN]
    BY <2>1, <2>2
  <2> QED
    BY <2>1, <2>2, <2>3
<1>7. CASE Redrains
  BY <1>7 DEF Redrains
<1>8. CASE StopReads \/ RecordsStop \/ CommitsStop
  BY <1>8 DEF StopReads, RecordsStop, CommitsStop
<1>9. CASE ChecksLeader
  BY <1>9 DEF ChecksLeader
<1>10. CASE Kills
  <2>1. CASE Leads
    BY <1>10, <2>1 DEF Kills, Leads
  <2>2. CASE ~Leads
    BY <1>10, <2>2 DEF Kills
  <2> QED
    BY <2>1, <2>2
<1>11. CASE UNCHANGED sessionsVars
  BY <1>11 DEF sessionsVars
<1> QED
  BY <1>1, <1>2, <1>3, <1>4, <1>5, <1>6, <1>7, <1>8, <1>9, <1>10, <1>11 DEF SessionsNext

\* For every sequence of lines and any number of drains and Stops: an agent's
\* lines stay in the session of its run, and end it.
THEOREM LaunchedRunIsOneSession == SessionsSpec => []RunIsOneSession
<1>1. OneSessionInv => RunIsOneSession
  BY DEF OneSessionInv, EndsWithTheLastLine, RunIsOneSession
<1> QED
  BY <1>1, OneSessionInitInv, OneSessionStepInv, PTL DEF SessionsSpec

-----------------------------------------------------------------------------
(* TurnGate: what is pushed was done, and a busy stop leaves its line.     *)

\* The rows, and the session.
TurnTyped ==
    /\ status \in [Nodes -> {"ready", "in_progress", "done", "blocked"}]
    /\ attempt \in [Nodes -> Nat]
    /\ notes \in [Nodes -> [attempt : Nat, names : SUBSET Components]]
    /\ wasDone \in [Nodes -> Nat]
    /\ current \in Nodes \cup {NoNode}
    /\ hook \in [at : {"none", "notes", "components", "allow"}, node : Nodes \cup {NoNode},
                 attempt : Nat, busy : BOOLEAN]
    /\ commits \subseteq [node : Nodes, dones : Nat]

\* No note is of an attempt to come, and no hook was called in one.
AttemptsGrow ==
    /\ \A n \in Nodes : notes[n].attempt <= attempt[n]
    /\ hook.at \in {"notes", "components"} => hook.node \in Nodes
    /\ hook.at = "notes" => ~hook.busy /\ hook.attempt <= attempt[hook.node]

\* A hook that saw its node in progress found the note, and notes stay.
BusyIsLogged ==
    hook.busy => hook.node \in Nodes /\ notes[hook.node].attempt >= hook.attempt

\* A commit is made in progress: the node that is done was done since.
CommitsAreCounted ==
    \A c \in commits :
        /\ c.dones <= wasDone[c.node]
        /\ status[c.node] = "done" => c.dones < wasDone[c.node]

PushedIsCommitted == remote \subseteq commits

\* Inductive: what the two hooks let through.
TurnInv == /\ TurnTyped /\ AttemptsGrow /\ BusyIsLogged
           /\ CommitsAreCounted /\ PushedIsCommitted /\ PushedWorkWasDone

LEMMA TurnInitInv == TurnInit => TurnInv
  BY DEF TurnInit, TurnInv, TurnTyped, AttemptsGrow, BusyIsLogged, CommitsAreCounted,
         PushedIsCommitted, PushedWorkWasDone, NoHook

\* The steps of the rows.
LEMMA RowStepInv ==
  ASSUME TurnInv,
         \/ \E n \in Nodes, cli \in BOOLEAN :
                \/ NodeStarts(n, cli)
                \/ \E to \in {"done", "ready", "blocked"} : NodeEnds(n, to, cli)
         \/ \E n \in Nodes :
                \/ NodeResumes(n) \/ NodeConflicts(n)
                \/ \E names \in SUBSET Components : NoteAdded(n, names)
         \/ \E c \in Components : BecomesStale(c)
  PROVE  TurnInv'
<1> USE DEF TurnInv, TurnTyped, AttemptsGrow, BusyIsLogged, CommitsAreCounted,
            PushedIsCommitted, PushedWorkWasDone, sessionVars
<1>1. ASSUME NEW n \in Nodes, NEW cli \in BOOLEAN, NodeStarts(n, cli)
      PROVE  TurnInv'
  BY <1>1 DEF NodeStarts
<1>2. ASSUME NEW n \in Nodes, NEW cli \in BOOLEAN, NEW to \in {"done", "ready", "blocked"},
             NodeEnds(n, to, cli)
      PROVE  TurnInv'
  <2>1. CASE to = "done"
    BY <1>2, <2>1 DEF NodeEnds
  <2>2. CASE to # "done"
    BY <1>2, <2>2 DEF NodeEnds
  <2> QED
    BY <2>1, <2>2
<1>3. ASSUME NEW n \in Nodes, NodeResumes(n) \/ NodeConflicts(n)
      PROVE  TurnInv'
  BY <1>3 DEF NodeResumes, NodeConflicts
<1>4. ASSUME NEW n \in Nodes, NEW names \in SUBSET Components, NoteAdded(n, names)
      PROVE  TurnInv'
  <2>1. PICK known \in SUBSET Components :
            notes' = [notes EXCEPT ![n] = [attempt |-> attempt[n], names |-> names \cup known]]
    BY <1>4 DEF NoteAdded
  <2>2. /\ notes' \in [Nodes -> [attempt : Nat, names : SUBSET Components]]
        /\ notes'[n].attempt = attempt[n]
        /\ \A m \in Nodes \ {n} : notes'[m] = notes[m]
    BY <2>1
  <2> QED
    BY <1>4, <2>2 DEF NoteAdded
<1>5. ASSUME NEW c \in Components, BecomesStale(c)
      PROVE  TurnInv'
  BY <1>5 DEF BecomesStale
<1> QED
  BY <1>1, <1>2, <1>3, <1>4, <1>5

\* The steps of the session's hooks, its commits and its pushes.
\* A hook's step leaves the rows, the commits and the remote alone: what matters
\* is the hook it leaves behind.
LEMMA HookMoves ==
  ASSUME TurnInv, UNCHANGED <<rowsVars, current, commits, remote>>,
         hook' \in [at : {"none", "notes", "components", "allow"}, node : Nodes \cup {NoNode},
                   attempt : Nat, busy : BOOLEAN],
         hook'.at \in {"notes", "components"} => hook'.node \in Nodes,
         hook'.at = "notes" => ~hook'.busy /\ hook'.attempt <= attempt[hook'.node],
         hook'.busy => hook'.node \in Nodes /\ notes[hook'.node].attempt >= hook'.attempt
  PROVE  TurnInv'
  BY DEF TurnInv, TurnTyped, AttemptsGrow, BusyIsLogged, CommitsAreCounted,
         PushedIsCommitted, PushedWorkWasDone, rowsVars

\* The steps of the session's hooks, its commits and its pushes.
LEMMA SessionStepInv ==
  ASSUME TurnInv,
         StopCalled \/ HookStep \/ Prompted \/ Commits \/ Pushes
  PROVE  TurnInv'
<1>0. /\ NoHook \in [at : {"none", "notes", "components", "allow"}, node : Nodes \cup {NoNode},
                     attempt : Nat, busy : BOOLEAN]
      /\ NoHook.at = "none" /\ ~NoHook.busy
  BY DEF NoHook
<1>1. CASE hook' = NoHook /\ UNCHANGED <<rowsVars, current, commits, remote>>
  BY <1>0, <1>1, HookMoves
<1>2. CASE StopCalled
  <2>1. CASE ~forced
    <3>1. hook' = HookOn(current) /\ UNCHANGED <<rowsVars, current, commits, remote>>
      BY <1>2, <2>1 DEF StopCalled
    <3>2. CASE current = NoNode
      <4>1. hook' = [at |-> "allow", node |-> current, attempt |-> 0, busy |-> FALSE]
        BY <3>1, <3>2 DEF HookOn
      <4>2. /\ hook'.at = "allow" /\ hook'.busy = FALSE
            /\ hook' \in [at : {"none", "notes", "components", "allow"}, node : Nodes \cup {NoNode},
                          attempt : Nat, busy : BOOLEAN]
        BY <3>2, <4>1
      <4> QED
        BY <3>1, <4>2, HookMoves
    <3>3. CASE current # NoNode
      <4>1. hook' = [at |-> "notes", node |-> current, attempt |-> attempt[current], busy |-> FALSE]
        BY <3>1, <3>3 DEF HookOn
      <4>2. current \in Nodes /\ attempt[current] \in Nat
        BY <3>3 DEF TurnInv, TurnTyped
      <4> QED
        BY <3>1, <4>1, <4>2, HookMoves
    <3> QED
      BY <3>2, <3>3
  <2> QED
    BY <1>1, <1>2, <2>1 DEF StopCalled, TurnEndsAs
<1>3. CASE ChecksNotes
  <2>1. CASE ~Unlogged(hook.node)
    <3>1. /\ hook' = [hook EXCEPT !.at = "components",
                                  !.busy = status[hook.node] = "in_progress"]
          /\ hook.at = "notes" /\ UNCHANGED <<rowsVars, current, commits, remote>>
      BY <1>3, <2>1 DEF ChecksNotes
    <3>2. status[hook.node] = "in_progress" => notes[hook.node].attempt = attempt[hook.node]
      BY <2>1 DEF Unlogged, Noted
    <3>3. hook \in [at : {"none", "notes", "components", "allow"}, node : Nodes \cup {NoNode},
                    attempt : Nat, busy : BOOLEAN]
      BY DEF TurnInv, TurnTyped
    <3>4. /\ hook'.at = "components" /\ hook'.node = hook.node /\ hook'.attempt = hook.attempt
          /\ hook'.busy = (status[hook.node] = "in_progress")
          /\ hook' \in [at : {"none", "notes", "components", "allow"}, node : Nodes \cup {NoNode},
                        attempt : Nat, busy : BOOLEAN]
      BY <3>1, <3>3
    <3>5. hook.node \in Nodes /\ hook.attempt <= attempt[hook.node]
      BY <3>1 DEF TurnInv, AttemptsGrow
    <3>6. hook'.busy => notes[hook.node].attempt >= hook.attempt
      BY <3>2, <3>3, <3>4, <3>5 DEF TurnInv, TurnTyped
    <3> QED
      BY <3>1, <3>4, <3>5, <3>6, HookMoves
  <2> QED
    BY <1>1, <1>3, <2>1 DEF ChecksNotes, Refuses
<1>4. CASE /\ \E step \in {"allow", "none"} : hook' = [hook EXCEPT !.at = step]
           /\ UNCHANGED <<rowsVars, current, commits, remote>>
  <2>1. /\ hook'.at \in {"allow", "none"} /\ hook'.busy = hook.busy /\ hook'.node = hook.node
        /\ hook'.attempt = hook.attempt
        /\ hook' \in [at : {"none", "notes", "components", "allow"}, node : Nodes \cup {NoNode},
                      attempt : Nat, busy : BOOLEAN]
    BY <1>4 DEF TurnInv, TurnTyped
  <2> QED
    BY <1>4, <2>1, HookMoves DEF TurnInv, BusyIsLogged
<1>5. CASE ChecksComponents
  BY <1>1, <1>4, <1>5 DEF ChecksComponents, Refuses
<1>6. CASE StopAllowed \/ StopFailsOpen \/ Prompted
  BY <1>1, <1>4, <1>6 DEF StopAllowed, StopFailsOpen, Prompted, TurnEndsAs
<1>7. CASE Commits
  <2>1. /\ current \in Nodes /\ status[current] = "in_progress"
        /\ commits' = commits \cup {[node |-> current, dones |-> wasDone[current]]}
        /\ UNCHANGED <<rowsVars, current, hook, remote>>
    BY <1>7 DEF Commits, EditAllowed, TurnInv, TurnTyped
  <2> QED
    BY <2>1 DEF TurnInv, TurnTyped, AttemptsGrow, BusyIsLogged, CommitsAreCounted,
                PushedIsCommitted, PushedWorkWasDone, rowsVars
<1>8. CASE Pushes
  BY <1>8 DEF Pushes, PushAccepted, TurnInv, TurnTyped, AttemptsGrow, BusyIsLogged,
              CommitsAreCounted, PushedIsCommitted, PushedWorkWasDone, rowsVars
<1> QED
  BY <1>2, <1>3, <1>5, <1>6, <1>7, <1>8 DEF HookStep

LEMMA TurnStepInv == TurnInv /\ [TurnNext]_turnVars => TurnInv'
<1> SUFFICES ASSUME TurnInv, [TurnNext]_turnVars
             PROVE  TurnInv'
  OBVIOUS
<1>1. CASE UNCHANGED turnVars
  BY <1>1 DEF turnVars, TurnInv, TurnTyped, AttemptsGrow, BusyIsLogged, CommitsAreCounted,
              PushedIsCommitted, PushedWorkWasDone
<1> QED
  BY <1>1, RowStepInv, SessionStepInv DEF TurnNext

\* For any nodes, components and number of attempts: no commit of a node that
\* was not done since gets past the push gate.
THEOREM OnlyDoneWorkIsPushed == TurnSpec => []PushedWorkWasDone
<1>1. TurnInv => PushedWorkWasDone
  BY DEF TurnInv
<1> QED
  BY <1>1, TurnInitInv, TurnStepInv, PTL DEF TurnSpec

\* And no turn ends with the Stop gate's consent before the work it saw is
\* logged.
THEOREM StopsAreLogged == TurnSpec => []StopIsLogged
<1>1. TurnInv => StopIsLogged
  BY DEF TurnInv, BusyIsLogged, StopIsLogged
<1> QED
  BY <1>1, TurnInitInv, TurnStepInv, PTL DEF TurnSpec

-----------------------------------------------------------------------------
(* Asks: what a wait told an agent stays on record.                        *)

GivenAnswers == {"human", "default"}

\* The rows, and what was told.
AsksTyped ==
    /\ question \in [Questions -> [status : {"unasked", "open", "answered", "timed_out"},
                                   answer : GivenAnswers \cup {"none"}, defaultOk : BOOLEAN]]
    /\ told \in [Questions -> GivenAnswers \cup {"pending", "blocked"}]
    /\ wait \in [question : Questions \cup {NoQuestion},
                 does : {"nothing", "default", "block"}]
    /\ wait.does # "nothing" => wait.question \in Questions
    /\ wait.does = "nothing" => wait = NoWait

\* An answer is in the notes as soon as the question has it.
AnsweredIsNoted ==
    \A q \in Questions : question[q].status = "answered" =>
        question[q].answer \in GivenAnswers /\ <<q, question[q].answer>> \in feedback

\* A question that a wait is about to default or to block was open when it was
\* read: no wait has told its outcome, and no other will in the meantime.
WaitedIsUntold ==
    wait.does # "nothing" =>
        /\ told[wait.question] = "pending"
        /\ question[wait.question].status \in {"open", "answered"}

\* Inductive: what was told was settled, and what is settled stays.
AsksInv == AsksTyped /\ AnsweredIsNoted /\ WaitedIsUntold /\ ToldIsRecorded

LEMMA AsksInitInv == AsksInit => AsksInv
  BY DEF AsksInit, AsksInv, AsksTyped, AnsweredIsNoted, WaitedIsUntold, ToldIsRecorded,
         Unasked, NoWait, GivenAnswers

\* The steps of the agent's wait.
LEMMA WaitStepInv ==
  ASSUME AsksInv,
         \/ \E q \in Questions : WaitReturns(q) \/ \E ok \in BOOLEAN : WaitGoesOn(q, ok)
         \/ AppliesDefault \/ TimesOut \/ WaitRaises \/ WaitDies
  PROVE  AsksInv'
<1> USE AsksAssumption
    DEF AsksInv, AsksTyped, AnsweredIsNoted, WaitedIsUntold, ToldIsRecorded, NoWait, GivenAnswers
<1>1. ASSUME NEW q \in Questions, WaitReturns(q)
      PROVE  AsksInv'
  BY <1>1 DEF WaitReturns, Resolved
<1>2. ASSUME NEW q \in Questions, NEW ok \in BOOLEAN, WaitGoesOn(q, ok)
      PROVE  AsksInv'
  BY <1>2 DEF WaitGoesOn, Resolved
<1>3. CASE AppliesDefault
  BY <1>3 DEF AppliesDefault, AnswerIs
<1>4. CASE TimesOut
  BY <1>4 DEF TimesOut
<1>5. CASE WaitRaises \/ WaitDies
  BY <1>5 DEF WaitRaises, WaitDies
<1> QED
  BY <1>1, <1>2, <1>3, <1>4, <1>5

\* The others' steps.
LEMMA AskStepInv ==
  ASSUME AsksInv,
         \/ \E q \in Questions : \/ \E ok \in BOOLEAN : Ask(q, ok)
                                 \/ Answer(q) \/ TimePasses(q)
         \/ \E s \in {"ready", "in_progress", "done", "blocked"} : StatusMoves(s)
  PROVE  AsksInv'
<1> USE AsksAssumption
    DEF AsksInv, AsksTyped, AnsweredIsNoted, WaitedIsUntold, ToldIsRecorded, NoWait, GivenAnswers
<1>1. ASSUME NEW q \in Questions, NEW ok \in BOOLEAN, Ask(q, ok)
      PROVE  AsksInv'
  BY <1>1 DEF Ask, Unasked
<1>2. ASSUME NEW q \in Questions, Answer(q)
      PROVE  AsksInv'
  BY <1>2 DEF Answer, AnswerIs, MayAnswer
<1>3. ASSUME NEW q \in Questions, TimePasses(q)
      PROVE  AsksInv'
  BY <1>3 DEF TimePasses
<1>4. ASSUME NEW s, StatusMoves(s)
      PROVE  AsksInv'
  BY <1>4 DEF StatusMoves
<1> QED
  BY <1>1, <1>2, <1>3, <1>4

\* For any number of questions: what the agent was told, the question and the
\* notes of its node say from then on.
THEOREM ToldStaysRecorded == AsksSpec => []ToldIsRecorded
<1>1. AsksInv /\ [AsksNext]_asksVars => AsksInv'
  <2> SUFFICES ASSUME AsksInv, [AsksNext]_asksVars
               PROVE  AsksInv'
    OBVIOUS
  <2>1. CASE UNCHANGED asksVars
    BY <2>1 DEF asksVars, AsksInv, AsksTyped, AnsweredIsNoted, WaitedIsUntold, ToldIsRecorded, NoWait
  <2>2. CASE AsksNext
    BY <2>2, WaitStepInv, AskStepInv DEF AsksNext
  <2> QED
    BY <2>1, <2>2
<1>2. AsksInv => ToldIsRecorded
  BY DEF AsksInv
<1> QED
  BY <1>1, <1>2, AsksInitInv, PTL DEF AsksSpec

-----------------------------------------------------------------------------
(* Requests: a verb that is retried under one key runs once, but for the   *)
(* windows in which nothing recorded it yet.                               *)

CallSteps == {"waiting", "running", "recording", "replied", "died"}

\* A verb that ran has a result, and only one that is not atomic is ever under
\* way in a state of its own.
CallsTyped ==
    /\ atomic \in BOOLEAN
    /\ recorded \in Nat /\ runs \in Nat /\ windows \in Nat
    /\ call \in [Calls -> [at : CallSteps, result : Nat]]
    /\ \A c \in Calls : call[c].at = "recording" => call[c].result # 0
    /\ exposed \subseteq Calls /\ IsFiniteSet(exposed)
    /\ atomic => Running \cup Died = {}

\* Calls that looked while another one ran, and are past their own run.
ExposedRuns == {c \in exposed : call[c].at \notin {"waiting", "running"}}

\* A call that looked when nobody else was there.
Unexposed(phases) == {c \in Calls \ exposed : call[c].at \in phases}

\* Of those at work, and of the dead, one at most looked alone.
OneLookedAlone ==
    \A c, d \in Unexposed({"running", "recording", "died"}) : c = d

\* A window pays for one run besides those of the exposed calls.  It is not
\* spent as long as nothing is recorded, or the call that looked alone has not
\* run; and nobody who looked alone has run without recording.
WindowIsSpent ==
    /\ runs <= 1 + windows + Cardinality(ExposedRuns)
    /\ /\ Unexposed({"recording", "died"}) = {}
       /\ recorded = 0 \/ Unexposed({"running"}) # {}
       => runs <= windows + Cardinality(ExposedRuns)

\* Inductive: what the runs of a verb are counted against.
RequestsInv == CallsTyped /\ OneLookedAlone /\ WindowIsSpent

\* The exposed runs are a finite set, which grows by the call that runs.
LEMMA ExposedRunsCount ==
  ASSUME IsFiniteSet(exposed)
  PROVE  /\ IsFiniteSet(ExposedRuns)
         /\ Cardinality(ExposedRuns) \in Nat
         /\ Cardinality(ExposedRuns) <= Cardinality(exposed)
<1>1. ExposedRuns \subseteq exposed
  BY DEF ExposedRuns
<1> QED
  BY <1>1, FS_Subset, FS_CardinalityType

LEMMA RequestsInitInv == RequestsInit => RequestsInv
<1> SUFFICES ASSUME RequestsInit PROVE RequestsInv
  OBVIOUS
<1>1. exposed = {} /\ ExposedRuns = {} /\ IsFiniteSet({}) /\ Cardinality({}) = 0
  BY FS_EmptySet DEF RequestsInit, ExposedRuns
<1>2. CallsTyped
  BY <1>1 DEF RequestsInit, CallsTyped, Waiting, CallSteps, Running, Died
<1>3. OneLookedAlone
  BY DEF RequestsInit, OneLookedAlone, Unexposed, Waiting
<1>4. WindowIsSpent
  BY <1>1 DEF RequestsInit, WindowIsSpent
<1> QED
  BY <1>2, <1>3, <1>4 DEF RequestsInv

\* What becomes of the count when call c moves on, and of the calls that looked
\* alone.
LEMMA CallMoves ==
  ASSUME CallsTyped, NEW c \in Calls, NEW at \in CallSteps, NEW result \in Nat,
         Goes(c, at, result),
         at \in {"waiting", "running"} => call[c].at \in {"waiting", "running"},
         exposed' = exposed \/ (exposed' = exposed \cup {c} /\ at = "running")
  PROVE  /\ call' \in [Calls -> [at : CallSteps, result : Nat]]
         /\ call'[c] = [at |-> at, result |-> result]
         /\ \A d \in Calls \ {c} : call'[d] = call[d]
         /\ IsFiniteSet(exposed') /\ exposed' \subseteq Calls
         /\ Cardinality(ExposedRuns) \in Nat
         /\ IF /\ c \in exposed /\ call[c].at \in {"waiting", "running"}
               /\ at \notin {"waiting", "running"}
            THEN Cardinality(ExposedRuns') = Cardinality(ExposedRuns) + 1
            ELSE Cardinality(ExposedRuns') = Cardinality(ExposedRuns)
<1>1. /\ call' \in [Calls -> [at : CallSteps, result : Nat]]
      /\ call'[c] = [at |-> at, result |-> result]
      /\ \A d \in Calls \ {c} : call'[d] = call[d]
  BY DEF CallsTyped, Goes
<1>2. IsFiniteSet(exposed') /\ exposed' \subseteq Calls
  BY FS_AddElement DEF CallsTyped
<1>3. IsFiniteSet(ExposedRuns) /\ Cardinality(ExposedRuns) \in Nat
  BY ExposedRunsCount DEF CallsTyped
<1>4. CASE /\ c \in exposed /\ call[c].at \in {"waiting", "running"}
           /\ at \notin {"waiting", "running"}
  <2>1. exposed' = exposed
    BY <1>4
  <2>2. ExposedRuns' = ExposedRuns \cup {c} /\ c \notin ExposedRuns
    BY <1>1, <1>4, <2>1 DEF ExposedRuns, CallsTyped
  <2> QED
    BY <1>1, <1>2, <1>3, <1>4, <2>2, FS_AddElement
<1>5. CASE ~ /\ c \in exposed /\ call[c].at \in {"waiting", "running"}
             /\ at \notin {"waiting", "running"}
  <2>1. ExposedRuns' = ExposedRuns
    BY <1>1, <1>5 DEF ExposedRuns, CallsTyped
  <2> QED
    BY <1>1, <1>2, <1>3, <1>5, <2>1
<1> QED
  BY <1>4, <1>5

LEMMA RequestsStepInv == RequestsInv /\ [RequestsNext]_requestsVars => RequestsInv'
<1> SUFFICES ASSUME RequestsInv, [RequestsNext]_requestsVars
             PROVE  RequestsInv'
  OBVIOUS
<1>0. /\ Cardinality(ExposedRuns) \in Nat
      /\ CallsTyped /\ OneLookedAlone /\ WindowIsSpent
  BY ExposedRunsCount DEF RequestsInv, CallsTyped
<1> USE DEF Running, Died
<1>1. ASSUME NEW c \in Calls, Replies(c)
      PROVE  RequestsInv'
  <2>1. Goes(c, "replied", recorded) /\ UNCHANGED <<atomic, recorded, runs, windows, exposed>>
        /\ call[c].at = "waiting" /\ recorded \in Nat
    BY <1>0, <1>1 DEF Replies, Stored, CallsTyped
  <2>2. /\ call' \in [Calls -> [at : CallSteps, result : Nat]]
        /\ call'[c] = [at |-> "replied", result |-> recorded]
        /\ \A d \in Calls \ {c} : call'[d] = call[d]
        /\ IsFiniteSet(exposed') /\ exposed' \subseteq Calls
        /\ Cardinality(ExposedRuns') \in {Cardinality(ExposedRuns), Cardinality(ExposedRuns) + 1}
    BY <1>0, <2>1, CallMoves DEF CallSteps
  <2>3. CallsTyped'
    BY <1>0, <2>1, <2>2 DEF CallsTyped
  <2>4. /\ Unexposed({"running", "recording", "died"})' = Unexposed({"running", "recording", "died"})
        /\ Unexposed({"recording", "died"})' = Unexposed({"recording", "died"})
        /\ Unexposed({"running"})' = Unexposed({"running"})
    BY <1>0, <2>1, <2>2 DEF Unexposed, CallsTyped
  <2> QED
    BY <1>0, <2>1, <2>2, <2>3, <2>4 DEF RequestsInv, OneLookedAlone, WindowIsSpent, CallsTyped
<1>2. ASSUME NEW c \in Calls, RunsAtomic(c)
      PROVE  RequestsInv'
  <2>1. Goes(c, "replied", runs + 1) /\ UNCHANGED <<atomic, windows, exposed>>
        /\ call[c].at = "waiting" /\ runs' = runs + 1 /\ recorded' = runs + 1 /\ recorded = 0
        /\ atomic /\ runs + 1 \in Nat
    BY <1>0, <1>2 DEF RunsAtomic, Stored, CallsTyped
  <2>2. /\ call' \in [Calls -> [at : CallSteps, result : Nat]]
        /\ call'[c] = [at |-> "replied", result |-> runs + 1]
        /\ \A d \in Calls \ {c} : call'[d] = call[d]
        /\ IsFiniteSet(exposed') /\ exposed' \subseteq Calls
        /\ Cardinality(ExposedRuns') \in {Cardinality(ExposedRuns), Cardinality(ExposedRuns) + 1}
    BY <1>0, <2>1, CallMoves DEF CallSteps
  <2>3. CallsTyped'
    BY <1>0, <2>1, <2>2 DEF CallsTyped
  <2>4. Unexposed({"running", "recording", "died"}) = {} /\ Unexposed({"recording", "died"}) = {}
    BY <1>0, <2>1 DEF Unexposed, CallsTyped
  <2>5. Unexposed({"running", "recording", "died"})' = {} /\ Unexposed({"running"})' = {}
    BY <2>1, <2>3 DEF Unexposed, CallsTyped
  <2> QED
    BY <1>0, <2>1, <2>2, <2>3, <2>4, <2>5 DEF RequestsInv, OneLookedAlone, WindowIsSpent, CallsTyped
<1>3. ASSUME NEW c \in Calls, LooksFirst(c)
      PROVE  RequestsInv'
  <2>1. /\ Goes(c, "running", 0) /\ UNCHANGED <<atomic, recorded, runs, windows>>
        /\ call[c].at = "waiting" /\ recorded = 0 /\ ~atomic
        /\ exposed' = IF Running \cup Died = {} THEN exposed ELSE exposed \cup {c}
    BY <1>3 DEF LooksFirst, Stored
  <2>2. /\ call' \in [Calls -> [at : CallSteps, result : Nat]]
        /\ call'[c] = [at |-> "running", result |-> 0]
        /\ \A d \in Calls \ {c} : call'[d] = call[d]
        /\ IsFiniteSet(exposed') /\ exposed' \subseteq Calls
        /\ Cardinality(ExposedRuns') = Cardinality(ExposedRuns)
    BY <1>0, <2>1, CallMoves DEF CallSteps
  <2>3. CallsTyped'
    BY <1>0, <2>1, <2>2 DEF CallsTyped
  <2>4. Unexposed({"recording", "died"})' = Unexposed({"recording", "died"})
    BY <1>0, <2>1, <2>2 DEF Unexposed, CallsTyped
  <2>5. OneLookedAlone'
    <3>1. CASE Running \cup Died = {}
      BY <1>0, <2>1, <2>2, <3>1 DEF OneLookedAlone, Unexposed, CallsTyped
    <3>2. CASE Running \cup Died # {}
      BY <1>0, <2>1, <2>2, <3>2 DEF OneLookedAlone, Unexposed, CallsTyped
    <3> QED
      BY <3>1, <3>2
  <2> QED
    BY <1>0, <2>1, <2>2, <2>3, <2>4, <2>5 DEF RequestsInv, WindowIsSpent, CallsTyped
<1>4. ASSUME NEW c \in Calls, RunsVerb(c)
      PROVE  RequestsInv'
  <2>1. /\ Goes(c, "recording", runs + 1) /\ UNCHANGED <<atomic, recorded, windows, exposed>>
        /\ call[c].at = "running" /\ runs' = runs + 1 /\ runs + 1 \in Nat
    BY <1>0, <1>4 DEF RunsVerb, CallsTyped
  <2>2. /\ call' \in [Calls -> [at : CallSteps, result : Nat]]
        /\ call'[c] = [at |-> "recording", result |-> runs + 1]
        /\ \A d \in Calls \ {c} : call'[d] = call[d]
        /\ IsFiniteSet(exposed') /\ exposed' \subseteq Calls
        /\ IF c \in exposed THEN Cardinality(ExposedRuns') = Cardinality(ExposedRuns) + 1
           ELSE Cardinality(ExposedRuns') = Cardinality(ExposedRuns)
    BY <1>0, <2>1, CallMoves DEF CallSteps
  <2>3. CallsTyped'
    BY <1>0, <2>1, <2>2 DEF CallsTyped
  <2>4. Unexposed({"running", "recording", "died"})' = Unexposed({"running", "recording", "died"})
    BY <1>0, <2>1, <2>2 DEF Unexposed, CallsTyped
  <2>5. CASE c \in exposed
    <3>1. /\ Unexposed({"recording", "died"})' = Unexposed({"recording", "died"})
          /\ Unexposed({"running"})' = Unexposed({"running"})
      BY <1>0, <2>1, <2>2, <2>5 DEF Unexposed, CallsTyped
    <3> QED
      BY <1>0, <2>1, <2>2, <2>3, <2>4, <2>5, <3>1
         DEF RequestsInv, OneLookedAlone, WindowIsSpent, CallsTyped
  <2>6. CASE c \notin exposed
    <3>1. Unexposed({"recording", "died"}) = {} /\ c \in Unexposed({"running"})
      BY <1>0, <2>1, <2>6 DEF Unexposed, OneLookedAlone
    <3>2. c \in Unexposed({"recording", "died"})'
      BY <2>1, <2>2, <2>6 DEF Unexposed
    <3> QED
      BY <1>0, <2>1, <2>2, <2>3, <2>4, <2>6, <3>1, <3>2
         DEF RequestsInv, OneLookedAlone, WindowIsSpent, CallsTyped
  <2> QED
    BY <2>5, <2>6
<1>5. ASSUME NEW c \in Calls, RecordsResult(c)
      PROVE  RequestsInv'
  <2>1. /\ Goes(c, "replied", call[c].result) /\ UNCHANGED <<atomic, runs, windows, exposed>>
        /\ call[c].at = "recording" /\ recorded' = call[c].result /\ call[c].result \in Nat \ {0}
    BY <1>0, <1>5 DEF RecordsResult, CallsTyped
  <2>2. /\ call' \in [Calls -> [at : CallSteps, result : Nat]]
        /\ call'[c] = [at |-> "replied", result |-> call[c].result]
        /\ \A d \in Calls \ {c} : call'[d] = call[d]
        /\ IsFiniteSet(exposed') /\ exposed' \subseteq Calls
        /\ Cardinality(ExposedRuns') = Cardinality(ExposedRuns)
    BY <1>0, <2>1, CallMoves DEF CallSteps
  <2>3. CallsTyped'
    BY <1>0, <2>1, <2>2 DEF CallsTyped
  <2>4. /\ Unexposed({"running", "recording", "died"})'
             = Unexposed({"running", "recording", "died"}) \ {c}
        /\ Unexposed({"recording", "died"})' = Unexposed({"recording", "died"}) \ {c}
        /\ Unexposed({"running"})' = Unexposed({"running"})
    BY <1>0, <2>1, <2>2 DEF Unexposed, CallsTyped
  <2>5. CASE c \in exposed
    <3>1. Unexposed({"recording", "died"})' = Unexposed({"recording", "died"})
      BY <2>4, <2>5 DEF Unexposed
    <3> QED
      BY <1>0, <2>1, <2>2, <2>3, <2>4, <3>1
         DEF RequestsInv, OneLookedAlone, WindowIsSpent, CallsTyped
  <2>6. CASE c \notin exposed
    <3>1. Unexposed({"running"})' = {}
      BY <1>0, <2>1, <2>4, <2>6 DEF Unexposed, OneLookedAlone
    <3> QED
      BY <1>0, <2>1, <2>2, <2>3, <2>4, <3>1
         DEF RequestsInv, OneLookedAlone, WindowIsSpent, CallsTyped
  <2> QED
    BY <2>5, <2>6
<1>6. ASSUME NEW c \in Calls, VerbRaises(c)
      PROVE  RequestsInv'
  <2>1. /\ Goes(c, "waiting", 0) /\ UNCHANGED <<atomic, recorded, runs, windows, exposed>>
        /\ call[c].at = "running"
    BY <1>6 DEF VerbRaises
  <2>2. /\ call' \in [Calls -> [at : CallSteps, result : Nat]]
        /\ call'[c] = [at |-> "waiting", result |-> 0]
        /\ \A d \in Calls \ {c} : call'[d] = call[d]
        /\ IsFiniteSet(exposed') /\ exposed' \subseteq Calls
        /\ Cardinality(ExposedRuns') = Cardinality(ExposedRuns)
    BY <1>0, <2>1, CallMoves DEF CallSteps
  <2>3. CallsTyped'
    BY <1>0, <2>1, <2>2 DEF CallsTyped
  <2>4. /\ Unexposed({"running", "recording", "died"})'
             \subseteq Unexposed({"running", "recording", "died"})
        /\ Unexposed({"recording", "died"})' = Unexposed({"recording", "died"})
        /\ Unexposed({"running"})' \subseteq Unexposed({"running"})
    BY <1>0, <2>1, <2>2 DEF Unexposed, CallsTyped
  <2> QED
    BY <1>0, <2>1, <2>2, <2>3, <2>4 DEF RequestsInv, OneLookedAlone, WindowIsSpent, CallsTyped
<1>7. ASSUME NEW c \in Calls, CallerDies(c)
      PROVE  RequestsInv'
  <2>1. /\ Goes(c, "died", call[c].result) /\ UNCHANGED <<atomic, recorded, runs, windows, exposed>>
        /\ call[c].at \in {"running", "recording"} /\ call[c].result \in Nat
    BY <1>0, <1>7 DEF CallerDies, CallsTyped
  <2>2. /\ call' \in [Calls -> [at : CallSteps, result : Nat]]
        /\ call'[c] = [at |-> "died", result |-> call[c].result]
        /\ \A d \in Calls \ {c} : call'[d] = call[d]
        /\ IsFiniteSet(exposed') /\ exposed' \subseteq Calls
        /\ Cardinality(ExposedRuns') \in {Cardinality(ExposedRuns), Cardinality(ExposedRuns) + 1}
    BY <1>0, <2>1, CallMoves DEF CallSteps
  <2>3. CallsTyped'
    BY <1>0, <2>1, <2>2 DEF CallsTyped
  <2>4. /\ Unexposed({"running", "recording", "died"})' = Unexposed({"running", "recording", "died"})
        /\ Unexposed({"recording", "died"}) \subseteq Unexposed({"recording", "died"})'
        /\ Unexposed({"running"})' \subseteq Unexposed({"running"})
    BY <1>0, <2>1, <2>2 DEF Unexposed, CallsTyped
  <2> QED
    BY <1>0, <2>1, <2>2, <2>3, <2>4 DEF RequestsInv, OneLookedAlone, WindowIsSpent, CallsTyped
<1>8. CASE WindowPasses
  BY <1>0, <1>8 DEF WindowPasses, RequestsInv, CallsTyped, OneLookedAlone, WindowIsSpent,
                   Unexposed, ExposedRuns
<1>9. CASE UNCHANGED requestsVars
  BY <1>0, <1>9 DEF requestsVars, RequestsInv, CallsTyped, OneLookedAlone, WindowIsSpent,
                   Unexposed, ExposedRuns
<1> QED
  BY <1>1, <1>2, <1>3, <1>4, <1>5, <1>6, <1>7, <1>8, <1>9 DEF RequestsNext

\* For any number of calls, of windows and of deaths: a verb runs once for each
\* window, and once more for each call that looked while another ran or after
\* one died.
THEOREM VerbsRunOnce == RequestsSpec => []RunsOnce
<1>1. RequestsInv => RunsOnce
  BY ExposedRunsCount, FS_CardinalityType
     DEF RequestsInv, CallsTyped, WindowIsSpent, RunsOnce
<1> QED
  BY <1>1, RequestsInitInv, RequestsStepInv, PTL DEF RequestsSpec

=============================================================================
