------------------------------ MODULE TurnGate -------------------------------
(***************************************************************************)
(* The hooks that decide: muvue._hook for one session of an agent in the   *)
(* user's checkout, and the git hooks of its commits and pushes.           *)
(*                                                                         *)
(* .muvue/current_node tells them which node the session works on.  A hook *)
(* reads the database by single queries, so that other processes change it *)
(* between two of them; past its deadline it lets the agent through.       *)
(***************************************************************************)
EXTENDS Integers

CONSTANTS
    Nodes,
    Components,   \* structure components, which commits make stale
    Touches,      \* the components a node's touches cover
    NoNode,       \* no node: an empty current_node, a commit without trailer
    MaxAttempts,  \* bound on how often a node is started, and is done
    MaxStale      \* bound on how often components become stale

ASSUME TurnGateAssumption ==
    /\ Touches \in [Nodes -> SUBSET Components]
    /\ MaxAttempts \in Nat \ {0} /\ MaxStale \in Nat

VARIABLES
    status,    \* nodes.status
    attempt,   \* node.start events of a node
    notes,     \* note.added events: the last attempt of a node that has one,
               \* and the components they name since its start
    stale,     \* stale components
    staled,    \* how often a component became stale
    current,   \* .muvue/current_node
    hook,      \* the Stop hook that is running, if any
    forced,    \* stop_hook_active: a Stop of this turn was refused
    turn,      \* "idle" before the first, "working", or how it ended
    commits,   \* the checkout's commits with a trailer: its node, and how often
               \* the node was done before
    remote,    \* those pushed
    wasDone    \* history: how often a node became done

turnVars == <<status, attempt, notes, stale, staled, current, hook, forced, turn,
              commits, remote, wasDone>>

rowsVars    == <<status, attempt, notes, stale, staled, wasDone>>
sessionVars == <<current, hook, forced, turn, commits, remote>>

NoHook == [at |-> "none", node |-> NoNode, attempt |-> 0, busy |-> FALSE]

\* A hook that goes on with node n.
HookOn(n) == [at |-> IF n = NoNode THEN "allow" ELSE "notes", node |-> n,
              attempt |-> IF n = NoNode THEN 0 ELSE attempt[n], busy |-> FALSE]

-----------------------------------------------------------------------------
(* The other processes, and the agent's own verbs.                         *)

\* The CLI writes current_node after the transaction, MCP and runner never do.
NodeStarts(n, cli) ==
    /\ status[n] = "ready"
    /\ attempt[n] < MaxAttempts
    /\ status' = [status EXCEPT ![n] = "in_progress"]
    /\ attempt' = [attempt EXCEPT ![n] = @ + 1]
    /\ current' = IF cli THEN n ELSE current
    /\ UNCHANGED <<notes, stale, staled, hook, forced, turn, commits, remote, wasDone>>

\* `done` and `fail` of the CLI empty current_node, others leave it.
NodeEnds(n, to, cli) ==
    /\ status[n] = "in_progress"
    /\ to = "done" => wasDone[n] < MaxAttempts
    /\ status' = [status EXCEPT ![n] = to]
    /\ current' = IF cli /\ current = n THEN NoNode ELSE current
    /\ wasDone' = IF to = "done" THEN [wasDone EXCEPT ![n] = @ + 1] ELSE wasDone
    /\ UNCHANGED <<attempt, notes, stale, staled, hook, forced, turn, commits, remote>>

\* Approved after an edit of its criteria, handed off after a conflict: in
\* progress again, without a node.start.
NodeResumes(n) ==
    /\ status[n] = "blocked"
    /\ status' = [status EXCEPT ![n] = "in_progress"]
    /\ UNCHANGED <<attempt, notes, stale, staled, sessionVars, wasDone>>

\* A done node whose merge conflicts.
NodeConflicts(n) ==
    /\ status[n] = "done"
    /\ status' = [status EXCEPT ![n] = "blocked"]
    /\ UNCHANGED <<attempt, notes, stale, staled, sessionVars, wasDone>>

\* A note, which may name components as C<id>.
NoteAdded(n, names) ==
    /\ attempt[n] > 0
    /\ notes' = [notes EXCEPT ![n] =
           [attempt |-> attempt[n],
            names |-> names \cup IF @.attempt = attempt[n] THEN @.names ELSE {}]]
    /\ UNCHANGED <<status, attempt, stale, staled, sessionVars, wasDone>>

BecomesStale(c) ==
    /\ c \notin stale /\ staled < MaxStale
    /\ stale' = stale \cup {c} /\ staled' = staled + 1
    /\ UNCHANGED <<status, attempt, notes, sessionVars, wasDone>>

-----------------------------------------------------------------------------
(* Stop.                                                                   *)

\* _notes_since_start, and what these notes name.
Noted(n) == notes[n].attempt = attempt[n]
Named(n) == IF Noted(n) THEN notes[n].names ELSE {}

\* Mutant of Unlogged: a note of any attempt will do.
UnloggedEver(n) == status[n] = "in_progress" /\ notes[n].attempt = 0

\* _unlogged_work_reason.
Unlogged(n) == status[n] = "in_progress" /\ ~Noted(n)

\* _stale_component_reason.
Unreconciled(n) ==
    IF status[n] = "in_progress" THEN (Touches[n] \cap stale) \ Named(n) ELSE {}

TurnEndsAs(verdict) == turn' = verdict /\ hook' = NoHook

\* Mutant of StopCalled: the hook decides although a Stop was refused before.
StopDecidesAgain ==
    /\ turn = "working" /\ hook.at = "none"
    /\ hook' = HookOn(current)
    /\ UNCHANGED <<rowsVars, current, forced, turn, commits, remote>>

\* `run` resolves the node; while a Stop forces the turn on, it is not asked.
StopCalled ==
    /\ turn = "working" /\ hook.at = "none"
    /\ IF forced THEN TurnEndsAs("unchecked")
       ELSE hook' = HookOn(current) /\ UNCHANGED turn
    /\ UNCHANGED <<rowsVars, current, forced, commits, remote>>

Refuses == hook' = NoHook /\ forced' = TRUE /\ UNCHANGED turn

ChecksNotes ==
    /\ hook.at = "notes"
    /\ IF Unlogged(hook.node) THEN Refuses
       ELSE /\ hook' = [hook EXCEPT !.at = "components",
                                    !.busy = status[hook.node] = "in_progress"]
            /\ UNCHANGED <<forced, turn>>
    /\ UNCHANGED <<rowsVars, current, commits, remote>>

ChecksComponents ==
    /\ hook.at = "components"
    /\ IF Unreconciled(hook.node) # {} THEN Refuses
       ELSE hook' = [hook EXCEPT !.at = "allow"] /\ UNCHANGED <<forced, turn>>
    /\ UNCHANGED <<rowsVars, current, commits, remote>>

StopAllowed ==
    /\ hook.at = "allow"
    /\ turn' = "checked"
    /\ hook' = [hook EXCEPT !.at = "none"]
    /\ UNCHANGED <<rowsVars, current, forced, commits, remote>>

\* The deadline, or a database that cannot be read.
StopFailsOpen ==
    /\ hook.at \in {"notes", "components"}
    /\ TurnEndsAs("unchecked")
    /\ UNCHANGED <<rowsVars, current, forced, commits, remote>>

\* A prompt begins the next turn.
Prompted ==
    /\ turn # "working"
    /\ turn' = "working" /\ forced' = FALSE /\ hook' = NoHook
    /\ UNCHANGED <<rowsVars, current, commits, remote>>

-----------------------------------------------------------------------------
(* Edits, commits and pushes.                                              *)

\* _decide, for Edit and Write.
EditAllowed == current # NoNode /\ status[current] = "in_progress"

\* prepare-commit-msg names the current node if it is in progress; when it
\* fails, the commit has no trailer and nothing holds it back.
Commits ==
    /\ turn = "working" /\ hook.at = "none"
    /\ EditAllowed
    /\ commits' = commits \cup {[node |-> current, dones |-> wasDone[current]]}
    /\ UNCHANGED <<rowsVars, current, hook, forced, turn, remote>>

\* Mutant of PushAccepted: a push is held back only by work still going on.
PushWhileNotActive(c) == status[c.node] # "in_progress"

\* pre_push, in strict mode.
PushAccepted(c) == status[c.node] = "done"

\* A push takes every commit of the checkout's branch.
Pushes ==
    /\ commits # {}
    /\ \A c \in commits \ remote : PushAccepted(c)
    /\ remote' = commits
    /\ UNCHANGED <<rowsVars, current, hook, forced, turn, commits>>

-----------------------------------------------------------------------------
TurnInit ==
    /\ status = [n \in Nodes |-> "ready"]
    /\ attempt = [n \in Nodes |-> 0]
    /\ notes = [n \in Nodes |-> [attempt |-> 0, names |-> {}]]
    /\ stale = {} /\ staled = 0
    /\ current = NoNode
    /\ hook = NoHook /\ forced = FALSE /\ turn = "idle"
    /\ commits = {} /\ remote = {} /\ wasDone = [n \in Nodes |-> 0]

HookStep == ChecksNotes \/ ChecksComponents \/ StopAllowed \/ StopFailsOpen

TurnNext ==
    \/ \E n \in Nodes, cli \in BOOLEAN :
           \/ NodeStarts(n, cli)
           \/ \E to \in {"done", "ready", "blocked"} : NodeEnds(n, to, cli)
    \/ \E n \in Nodes :
           \/ NodeResumes(n) \/ NodeConflicts(n)
           \/ \E names \in SUBSET Components : NoteAdded(n, names)
    \/ \E c \in Components : BecomesStale(c)
    \/ StopCalled \/ HookStep \/ Prompted
    \/ Commits \/ Pushes

\* An agent stops whenever it thinks it is done, and a hook returns.
TurnFairness == WF_turnVars(StopCalled) /\ WF_turnVars(HookStep)

TurnSpec == TurnInit /\ [][TurnNext]_turnVars /\ TurnFairness

-----------------------------------------------------------------------------
(* Properties.                                                             *)

\* Every turn ends, whatever the agent refuses to note and however many
\* components become stale meanwhile: no hook keeps a session going for ever.
TurnEnds == turn = "working" ~> turn # "working"

\* A turn that ended with the hook's consent, on a node the hook saw in progress,
\* has a note of the attempt the hook was called in or of a later one: the notes
\* of the attempts before, which the node lost, do not count.
StopIsLogged ==
    turn = "checked" /\ hook.busy => notes[hook.node].attempt >= hook.attempt

\* A pushed commit's node was done after the commit was made: a node that a
\* conflict or a hand-off takes back to work keeps its new commits at home, and
\* those of an earlier time it was done may be on the remote.
PushedWorkWasDone == \A c \in remote : wasDone[c.node] > c.dones
=============================================================================
