--------------------------- MODULE NodeLifecycle ---------------------------
(***************************************************************************)
(* The life of a plan node: the verbs of core/nodes.py and core/gates.py,  *)
(* the daemon's lease sweep, and the project phase that gates `start`.     *)
(*                                                                         *)
(* Every verb commits in one `write_txn` (BEGIN IMMEDIATE), so it is one   *)
(* action here.  The exception is `start`: it checks the phase, the block  *)
(* and the lease before it opens its transaction, and may run a worktree   *)
(* set-up in between.  It is two actions, and `starting` holds the calls   *)
(* that are between them.                                                  *)
(*                                                                         *)
(* The specification is open: any agent may issue any verb on any node, as *)
(* the CLI, the API and MCP let it.  What stops a verb is what stops it in *)
(* the code: its own guards and the table of legal transitions.            *)
(***************************************************************************)
EXTENDS Integers, FiniteSets

CONSTANTS
    Nodes,          \* rows of the table `nodes` (ids)
    Agents,         \* lease identities, the values of nodes.owner
    NoOwner,        \* nodes.owner IS NULL
    Contents,       \* what criteria_json can hold, up to its hash
    NoHash,         \* criteria_hash IS NULL
    Specs,          \* the nodes of kind `spec`; the others are (sub)tasks
    AutoChecked,    \* the nodes whose criteria_mode is `auto`
    ParentOf,       \* nodes.parent_id of each node; a node is not its own
                    \* parent, so that value stands for NULL
    ComputedTiers,  \* what risk.compute_tier can return
    AutoAbove,      \* [planning] require_auto_criterion_above_tier
    MaxAttempts,    \* nodes.max_attempts
    MaxVersion,     \* bound on nodes.version
    MaxExpiries     \* bound on nodes.lease_expiries

Low  == 0
High == 2
Tiers == Low .. High

ASSUME OwnerAssumption == NoOwner \notin Agents
ASSUME HashAssumption  == NoHash \notin Contents /\ Contents # {}
ASSUME KindAssumption  == Specs \subseteq Nodes /\ AutoChecked \subseteq Nodes
ASSUME TreeAssumption  == ParentOf \in [Nodes -> Nodes]
ASSUME TierAssumption  == ComputedTiers \subseteq Tiers /\ AutoAbove \in Tiers
ASSUME BoundAssumption == /\ MaxAttempts \in Nat \ {0}
                          /\ MaxVersion \in Nat
                          /\ MaxExpiries \in Nat

VARIABLES
    phase,      \* projects.phase of the one project
    status,     \* nodes.status, or "absent" before create_node
    owner,      \* nodes.owner
    lease,      \* nodes.lease_until: NULL, in the future or in the past
    reason,     \* nodes.block_reason
    attempts,   \* nodes.attempts
    expiries,   \* nodes.lease_expiries
    version,    \* nodes.version
    criteria,   \* nodes.criteria_json
    hash,       \* nodes.criteria_hash, as the contents it was taken of
    tier,       \* nodes.risk_tier
    deleted,    \* the nodes with a deleted_at
    starting,   \* agents whose `start` is past its checks, not yet committed
    started,    \* history: the row the last successful `start` returned
    retiered    \* history: nodes whose approved criteria were edited

planVars  == <<criteria, hash, tier, retiered>>
leaseVars == <<owner, lease>>
countVars == <<attempts, expiries>>
callVars  == <<starting, started>>
vars == <<phase, status, reason, leaseVars, countVars, version, planVars,
          deleted, callVars>>

-----------------------------------------------------------------------------
(* The table of legal transitions (core/state_machine.py).                 *)

OwnerEdges == {
    <<"in_progress", "review">>,            <<"review", "done">>,
    <<"review", "in_progress">>,            <<"in_progress", "awaiting_approval">>,
    <<"awaiting_approval", "in_progress">>, <<"in_progress", "blocked">>,
    <<"awaiting_approval", "blocked">>,     <<"blocked", "in_progress">>,
    <<"in_progress", "failed">>,            <<"blocked", "failed">>,
    <<"in_progress", "ready">> }

\* Mutant of FreeEdges: a failed node may be made ready again.
FreeEdgesFromFailed == {
    <<"pending", "ready">>, <<"ready", "pending">>, <<"ready", "in_progress">>,
    <<"blocked", "ready">>, <<"done", "blocked">>, <<"failed", "ready">> }

FreeEdges == {
    <<"pending", "ready">>, <<"ready", "pending">>, <<"ready", "in_progress">>,
    <<"blocked", "ready">>, <<"done", "blocked">> }

Statuses == {"absent", "pending", "ready", "in_progress", "review", "done",
             "awaiting_approval", "blocked", "failed"}

\* validate_transition: the edge exists and, where it asks for the owner,
\* the node has one and the actor is it.
Legal(n, to, actor) ==
    \/ <<status[n], to>> \in FreeEdges
    \/ /\ <<status[n], to>> \in OwnerEdges
       /\ owner[n] # NoOwner
       /\ actor = owner[n]

\* The part of _apply_transition every caller shares: the status is written,
\* and so is block_reason, to NULL unless the caller gives one.
MoveTo(n, to, why) ==
    /\ status' = [status EXCEPT ![n] = to]
    /\ reason' = [reason EXCEPT ![n] = why]

NoReason == "none"
BlockReasons == {"conflict", "rate_limit", "question", "external"}

GiveLease(n, a) ==
    /\ owner' = [owner EXCEPT ![n] = a]
    /\ lease' = [lease EXCEPT ![n] = "live"]

DropLease(n) ==
    /\ owner' = [owner EXCEPT ![n] = NoOwner]
    /\ lease' = [lease EXCEPT ![n] = "none"]

EndLease(n) == lease' = [lease EXCEPT ![n] = "none"]

BumpVersion(n) ==
    /\ version[n] < MaxVersion
    /\ version' = [version EXCEPT ![n] = @ + 1]

Exists(n) == status[n] # "absent"
Held == {"in_progress", "review", "awaiting_approval"}

-----------------------------------------------------------------------------
(* Planning: create, approve, edit and remove nodes; the project's phase.  *)

\* create_node, as submit_spec and `muvue task` call it.
AddNode(n, c) ==
    /\ status[n] = "absent"
    /\ status' = [status EXCEPT ![n] = "pending"]
    /\ criteria' = [criteria EXCEPT ![n] = c]
    /\ started' = [started EXCEPT ![n] = [version |-> version[n], criteria |-> c]]
    /\ UNCHANGED <<phase, reason, leaseVars, countVars, version, hash, tier,
                   retiered, deleted, starting>>

\* approve_spec is nodes.ready for a spec: any status with an edge to `ready`
\* is accepted, and neither the owner nor the lease is touched.
ApproveSpec(n) ==
    /\ n \in Specs
    /\ Legal(n, "ready", owner[n])
    /\ MoveTo(n, "ready", NoReason)
    /\ UNCHANGED <<phase, leaseVars, countVars, version, planVars, deleted,
                   callVars>>

\* Mutant of ApprovalTier: a re-approval computes the tier again.
RecomputedTier(n, computed) == IF n \notin Specs THEN computed ELSE tier[n]

\* approve_node computes a task's tier only when it freezes it for the first
\* time.
ApprovalTier(n, computed) ==
    IF hash[n] = NoHash /\ n \notin Specs THEN computed ELSE tier[n]

\* Mutant of PassesHardBlock: the tier from before the approval is checked.
PassesOldTier(n, t) == n \in Specs \/ n \in AutoChecked \/ tier[n] <= AutoAbove

\* _tier_requires_auto: a task above the tier needs an auto criterion.
PassesHardBlock(n, t) == n \in Specs \/ n \in AutoChecked \/ t <= AutoAbove

ApprovedStatus(n) == IF status[n] = "awaiting_approval" THEN "in_progress"
                                                        ELSE "ready"

\* The loop of approve_node calls, all or nothing: one refusal rolls the
\* whole transaction back.
Approve(S) ==
    \E computed \in [S -> ComputedTiers] :
        LET newTier == [n \in S |-> ApprovalTier(n, computed[n])] IN
        /\ \A n \in S : /\ PassesHardBlock(n, newTier[n])
                        /\ Legal(n, ApprovedStatus(n), owner[n])
        /\ tier'   = [n \in Nodes |-> IF n \in S THEN newTier[n] ELSE tier[n]]
        /\ hash'   = [n \in Nodes |-> IF n \in S THEN criteria[n] ELSE hash[n]]
        /\ status' = [n \in Nodes |-> IF n \in S THEN ApprovedStatus(n)
                                                 ELSE status[n]]
        /\ reason' = [n \in Nodes |-> IF n \in S THEN NoReason ELSE reason[n]]
        /\ UNCHANGED <<leaseVars, countVars, version, criteria, retiered,
                       deleted, callVars>>

ApproveNode(n) ==
    /\ status[n] \in {"pending", "awaiting_approval"}
    /\ Approve({n})
    /\ UNCHANGED phase

\* Mutant of LivePending: Gate 2 skips the nodes it would refuse.
AutoPending == {n \in AutoChecked \ (Specs \cup deleted) : status[n] = "pending"}

\* The nodes Gate 2 approves.
LivePending == {n \in Nodes \ (Specs \cup deleted) : status[n] = "pending"}

ApproveGate2 ==
    /\ LivePending # {}
    /\ Approve(LivePending)
    /\ phase' = "executing"

\* edit_node: title and body, until the criteria are frozen.
EditNode(n) ==
    /\ Exists(n)
    /\ hash[n] = NoHash
    /\ BumpVersion(n)
    /\ UNCHANGED <<phase, status, reason, leaseVars, countVars, planVars,
                   deleted, callVars>>

\* add_note by a human, with a text the node does not have yet.
HumanNote(n) ==
    /\ Exists(n)
    /\ BumpVersion(n)
    /\ UNCHANGED <<phase, status, reason, leaseVars, countVars, planVars,
                   deleted, callVars>>

\* edit_criteria.  `changed` is what the code calls re_approval_required: a
\* frozen node is pulled back from `ready`, or parked if it is running.
EditCriteria(n, c) ==
    LET changed == hash[n] # NoHash /\ c # hash[n]
        to == IF ~changed THEN status[n]
              ELSE IF status[n] = "in_progress" THEN "awaiting_approval"
              ELSE "pending"
    IN
    /\ status[n] \in {"ready", "pending", "in_progress"}
    /\ to # status[n] => Legal(n, to, owner[n])
    /\ BumpVersion(n)
    /\ criteria' = [criteria EXCEPT ![n] = c]
    /\ tier' = [tier EXCEPT ![n] = IF changed THEN High ELSE @]
    /\ retiered' = IF changed THEN retiered \cup {n} ELSE retiered
    /\ status' = [status EXCEPT ![n] = to]
    /\ UNCHANGED <<phase, reason, leaseVars, countVars, hash, deleted, callVars>>

\* removal._descendants: the least set closed under live children.
LiveChildren(S) == {m \in Nodes \ deleted : /\ Exists(m)
                                            /\ ParentOf[m] # m
                                            /\ ParentOf[m] \in S}
Subtree(n) ==
    {m \in Nodes : \A S \in SUBSET Nodes :
                       n \in S /\ LiveChildren(S) \subseteq S => m \in S}

\* Mutant of RemoveNode: only the root is looked at.
RemoveUncheckedSubtree(n) ==
    /\ Exists(n)
    /\ hash[n] = NoHash
    /\ deleted' = deleted \cup Subtree(n)
    /\ UNCHANGED <<phase, status, reason, leaseVars, countVars, version,
                   planVars, callVars>>

RemoveNode(n) ==
    /\ Exists(n)
    /\ \A m \in Subtree(n) : hash[m] = NoHash
    /\ deleted' = deleted \cup Subtree(n)
    /\ UNCHANGED <<phase, status, reason, leaseVars, countVars, version,
                   planVars, callVars>>

\* pause_project takes a project in any phase.
Pause ==
    /\ phase' = "paused"
    /\ UNCHANGED <<status, reason, leaseVars, countVars, version, planVars,
                   deleted, callVars>>

Resume ==
    /\ phase = "paused"
    /\ phase' = "executing"
    /\ UNCHANGED <<status, reason, leaseVars, countVars, version, planVars,
                   deleted, callVars>>

-----------------------------------------------------------------------------
(* Work: start, done, fail, review, handoff, block.                        *)

\* The reads of `start` before its transaction.
StartCheck(n, a) ==
    /\ Exists(n)
    /\ status[n] # "blocked"
    /\ phase \notin {"planning", "paused"}
    /\ ~ (status[n] = "in_progress" /\ owner[n] \notin {NoOwner, a}
                                    /\ lease[n] = "live")
    /\ starting' = [starting EXCEPT ![n] = @ \cup {a}]
    /\ UNCHANGED <<phase, status, reason, leaseVars, countVars, version,
                   planVars, deleted, started>>

\* The transaction of `start`: only the table is consulted again.
StartCommit(n, a) ==
    /\ a \in starting[n]
    /\ Legal(n, "in_progress", a)
    /\ MoveTo(n, "in_progress", NoReason)
    /\ GiveLease(n, a)
    /\ starting' = [starting EXCEPT ![n] = @ \ {a}]
    /\ started' = [started EXCEPT ![n] = [version |-> version[n],
                                          criteria |-> criteria[n]]]
    /\ UNCHANGED <<phase, countVars, version, planVars, deleted>>

\* The call ends without effect: the table refuses it, the worktree cannot
\* be bound, or the process dies first.
StartEnds(n, a) ==
    /\ a \in starting[n]
    /\ starting' = [starting EXCEPT ![n] = @ \ {a}]
    /\ UNCHANGED <<phase, status, reason, leaseVars, countVars, version,
                   planVars, deleted, started>>

\* expected_version is optional in `done` and `fail`.
NoVersion == -1

\* Mutant of VersionCurrent: any version the node has had is accepted.
VersionSeen(n, expected) == expected <= version[n]

VersionCurrent(n, expected) == expected = NoVersion \/ expected = version[n]

\* Mutant of MaxTier: the tiers add up.
SumTier(s, t) == s + t

MaxTier(s, t) == IF s >= t THEN s ELSE t

\* in_progress -> review, and on to `done` in the same transaction when the
\* tier is low and nothing flags the node.  A node without auto criteria is
\* always flagged; failed checks, tests touched and stale components may flag
\* any other.
Done(n, a, expected) ==
    /\ Legal(n, "review", a)
    /\ VersionCurrent(n, expected)
    /\ \E computed \in ComputedTiers :
          tier' = [tier EXCEPT ![n] = MaxTier(computed, @)]
    /\ \/ /\ tier'[n] = Low
          /\ n \in AutoChecked
          /\ MoveTo(n, "done", NoReason)
          /\ EndLease(n)
       \/ /\ MoveTo(n, "review", NoReason)
          /\ UNCHANGED lease
    /\ UNCHANGED <<phase, owner, countVars, version, criteria, hash, retiered,
                   deleted, callVars>>

\* Mutant of FailedStatus: expired leases burn attempts.
FailedStatusConflated(n) ==
    IF attempts[n] + expiries[n] + 1 >= MaxAttempts THEN "failed" ELSE "ready"

\* The status a failure leads to, decided from the counter before the edge
\* is validated.
FailedStatus(n) == IF attempts[n] + 1 >= MaxAttempts THEN "failed" ELSE "ready"

Fail(n, a, expected) ==
    /\ VersionCurrent(n, expected)
    /\ Legal(n, FailedStatus(n), a)
    /\ MoveTo(n, FailedStatus(n), NoReason)
    /\ attempts' = [attempts EXCEPT ![n] = @ + 1]
    /\ DropLease(n)
    /\ UNCHANGED <<phase, expiries, version, planVars, deleted, callVars>>

ApproveReview(n) ==
    /\ status[n] = "review"
    /\ Legal(n, "done", owner[n])
    /\ MoveTo(n, "done", NoReason)
    /\ EndLease(n)
    /\ UNCHANGED <<phase, owner, countVars, version, planVars, deleted,
                   callVars>>

\* The feedback is a human note: a text the node already has is not added
\* again, and then the version stays.
RejectReview(n) ==
    /\ status[n] = "review"
    /\ Legal(n, "in_progress", owner[n])
    /\ MoveTo(n, "in_progress", NoReason)
    /\ BumpVersion(n) \/ UNCHANGED version
    /\ UNCHANGED <<phase, leaseVars, countVars, planVars, deleted, callVars>>

\* Mutant of Handoff: the new owner inherits whatever lease there is.
HandoffOldLease(n, a) ==
    /\ status[n] \in {"in_progress", "blocked"}
    /\ status[n] = "blocked" => Legal(n, "in_progress", owner[n])
    /\ MoveTo(n, "in_progress", NoReason)
    /\ owner' = [owner EXCEPT ![n] = a]
    /\ UNCHANGED <<phase, lease, countVars, version, planVars, deleted, callVars>>

Handoff(n, a) ==
    /\ status[n] \in {"in_progress", "blocked"}
    /\ status[n] = "blocked" => Legal(n, "in_progress", owner[n])
    /\ MoveTo(n, "in_progress", NoReason)
    /\ GiveLease(n, a)
    /\ UNCHANGED <<phase, countVars, version, planVars, deleted, callVars>>

\* asks.wait past its timeout blocks the node in the name of its owner.
BlockOnQuestion(n) ==
    /\ Legal(n, "blocked", owner[n])
    /\ MoveTo(n, "blocked", "question")
    /\ UNCHANGED <<phase, leaseVars, countVars, version, planVars, deleted,
                   callVars>>

-----------------------------------------------------------------------------
(* Time and the daemon.                                                    *)

LeaseExpires(n) ==
    /\ lease[n] = "live"
    /\ lease' = [lease EXCEPT ![n] = "expired"]
    /\ UNCHANGED <<phase, status, reason, owner, countVars, version, planVars,
                   deleted, callVars>>

\* Mutant of Lapsed: any lease is taken for an expired one.
LapsedAny == {n \in Nodes \ deleted : /\ status[n] = "in_progress"
                                      /\ lease[n] # "none"}

\* What reconcile_leases selects.
Lapsed == {n \in Nodes \ deleted : /\ status[n] = "in_progress"
                                   /\ lease[n] = "expired"}

\* One transaction for all of them: one row the table refuses would undo the
\* sweep.
ReconcileLeases ==
    /\ Lapsed # {}
    /\ \A n \in Lapsed : Legal(n, "ready", owner[n]) /\ expiries[n] < MaxExpiries
    /\ status'   = [n \in Nodes |-> IF n \in Lapsed THEN "ready" ELSE status[n]]
    /\ reason'   = [n \in Nodes |-> IF n \in Lapsed THEN NoReason ELSE reason[n]]
    /\ owner'    = [n \in Nodes |-> IF n \in Lapsed THEN NoOwner ELSE owner[n]]
    /\ lease'    = [n \in Nodes |-> IF n \in Lapsed THEN "none" ELSE lease[n]]
    /\ expiries' = [n \in Nodes |-> IF n \in Lapsed THEN expiries[n] + 1
                                                    ELSE expiries[n]]
    /\ UNCHANGED <<phase, attempts, version, planVars, deleted, callVars>>

-----------------------------------------------------------------------------
Init ==
    /\ phase    = "planning"
    /\ status   = [n \in Nodes |-> "absent"]
    /\ owner    = [n \in Nodes |-> NoOwner]
    /\ lease    = [n \in Nodes |-> "none"]
    /\ reason   = [n \in Nodes |-> NoReason]
    /\ attempts = [n \in Nodes |-> 0]
    /\ expiries = [n \in Nodes |-> 0]
    /\ version  = [n \in Nodes |-> 1]
    /\ criteria = [n \in Nodes |-> CHOOSE c \in Contents : TRUE]
    /\ hash     = [n \in Nodes |-> NoHash]
    /\ tier     = [n \in Nodes |-> Low]
    /\ deleted  = {}
    /\ starting = [n \in Nodes |-> {}]
    /\ started  = [n \in Nodes |-> [version |-> 1, criteria |-> criteria[n]]]
    /\ retiered = {}

HumanStep(n) ==
    \/ ApproveSpec(n)
    \/ ApproveNode(n)
    \/ EditNode(n)
    \/ HumanNote(n)
    \/ \E c \in Contents : EditCriteria(n, c)
    \/ RemoveNode(n)
    \/ ApproveReview(n)
    \/ RejectReview(n)
    \/ \E a \in Agents : Handoff(n, a)

AgentStep(n, a) ==
    \/ StartCheck(n, a)
    \/ StartCommit(n, a)
    \/ StartEnds(n, a)
    \/ \E expected \in {NoVersion, started[n].version} :
          Done(n, a, expected) \/ Fail(n, a, expected)

NodeStep(n) ==
    \/ \E c \in Contents : AddNode(n, c)
    \/ HumanStep(n)
    \/ \E a \in Agents : AgentStep(n, a)
    \/ BlockOnQuestion(n)
    \/ LeaseExpires(n)

Next ==
    \/ \E n \in Nodes : NodeStep(n)
    \/ ApproveGate2
    \/ Pause
    \/ Resume
    \/ ReconcileLeases

Spec == Init /\ [][Next]_vars

-----------------------------------------------------------------------------
(* Properties.                                                             *)

\* Every column holds a value of its type.
TypeOK ==
    /\ phase \in {"planning", "executing", "paused"}
    /\ status \in [Nodes -> Statuses]
    /\ owner \in [Nodes -> Agents \cup {NoOwner}]
    /\ lease \in [Nodes -> {"none", "live", "expired"}]
    /\ reason \in [Nodes -> BlockReasons \cup {NoReason}]
    /\ attempts \in [Nodes -> Nat]
    /\ expiries \in [Nodes -> Nat]
    /\ version \in [Nodes -> Nat]
    /\ criteria \in [Nodes -> Contents]
    /\ hash \in [Nodes -> Contents \cup {NoHash}]
    /\ tier \in [Nodes -> Tiers]
    /\ deleted \in SUBSET Nodes
    /\ starting \in [Nodes -> SUBSET Agents]
    /\ started \in [Nodes -> [version : Nat, criteria : Contents]]
    /\ retiered \in SUBSET Nodes

\* Work in hand always has an owner and a lease that can lapse, on every path
\* into in_progress, review and awaiting_approval (a rejected review and a
\* re-approval bring a node back without a new lease).  reconcile_leases
\* skips a NULL lease_until and its one transaction fails on a NULL owner,
\* so a node that broke this would never be reclaimed.
HeldNodesHaveLease ==
    \A n \in Nodes : status[n] \in Held => owner[n] # NoOwner /\ lease[n] # "none"

\* `failed` is reached only by max_attempts failures the agents reported: no
\* number of lease expiries, releases or rejections leads there.
FailedMeansExhausted ==
    \A n \in Nodes : status[n] = "failed" => attempts[n] >= MaxAttempts

\* Nobody changes criteria without a new version: while the version is the one
\* a start returned, the criteria are the ones it returned.
EditsAreVersioned ==
    \A n \in Nodes :
        /\ started[n].version <= version[n]
        /\ started[n].version = version[n] => started[n].criteria = criteria[n]

\* Once approved criteria have been edited the tier is high and stays high.
RetieredStaysHigh ==
    \A n \in retiered : hash[n] # NoHash /\ tier[n] = High

\* A node running under a live lease changes owner only when a human hands it
\* off or its holder reports a failure: no start in flight, no sweep and no
\* other agent takes it, in any order of the calls.
LeaseIsExclusive ==
    [][\A n \in Nodes :
           status[n] = "in_progress" /\ lease[n] = "live" /\ owner'[n] # owner[n]
               => \/ \E a \in Agents : Handoff(n, a)
                  \/ Fail(n, owner[n], NoVersion)]_vars

\* A `done` that passes the version its `start` returned finds the criteria of
\* that start, whatever was edited and edited back in between.
NoStaleFinish ==
    [][\A n \in Nodes, a \in Agents :
           Done(n, a, started[n].version) => criteria[n] = started[n].criteria]_vars

\* A node becomes done without a human review only with auto criteria, a low
\* tier, and no edit of its criteria after they were approved: re-approval
\* must not bring an edited node back under automatic approval.
AutoApprovalIsLowRisk ==
    [][\A n \in Nodes :
           status[n] # "done" /\ status'[n] = "done" =>
               \/ status[n] = "review"
               \/ n \in AutoChecked \ retiered /\ tier'[n] = Low]_vars

\* Criteria are frozen, by Gate 2 or one by one, only if the tier computed by
\* that same approval lets them: no task above the tier without auto criteria.
HardBlockHolds ==
    [][\A n \in Nodes \ (Specs \cup AutoChecked) :
           hash'[n] # hash[n] => tier'[n] <= AutoAbove]_vars

\* Gate 2 opens the project with every live pending task approved, or not at
\* all.
Gate2IsComplete ==
    [][phase = "planning" /\ phase' = "executing" =>
           \A n \in Nodes \ (Specs \cup deleted') : status'[n] # "pending"]_vars

\* Removing a node never takes along a descendant whose criteria a human has
\* approved.
ApprovedWorkSurvives ==
    [][\A n \in deleted' \ deleted : hash[n] = NoHash]_vars

\* The stage of a node's work, and who has it: the owner column means a holder
\* only while the work is held, parked or done.
Stage(n) ==
    CASE status[n] \in Held -> "held"
      [] status[n] = "blocked" -> "parked"
      [] status[n] = "done" -> "done"
      [] status[n] = "failed" -> "failed"
      [] OTHER -> "free"

Holder(n) == IF Stage(n) \in {"held", "parked", "done"} THEN owner[n] ELSE NoOwner

Ledger == INSTANCE LeaseLedger WITH
              Items  <- Nodes,
              Nobody <- NoOwner,
              stage  <- [n \in Nodes |-> Stage(n)],
              holder <- [n \in Nodes |-> Holder(n)]

\* The verbs implement the ledger: whatever order they come in, work changes
\* hands only by way of free or by a hand-off, and `failed` is final.
LedgerSpec == Ledger!Spec

\* As documented: a task is worked on only after a human has frozen its
\* criteria.
WorkIsApproved ==
    \A n \in Nodes \ Specs : status[n] = "in_progress" => hash[n] # NoHash

\* As documented: `pause` refuses start.
PauseRefusesStart ==
    [][\A n \in Nodes, a \in Agents : StartCommit(n, a) => phase # "paused"]_vars
=============================================================================
