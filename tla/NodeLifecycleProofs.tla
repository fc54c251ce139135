------------------------ MODULE NodeLifecycleProofs ------------------------
(* Theorems about NodeLifecycle, for every value of its constants.         *)
EXTENDS NodeLifecycle, TLAPS

USE OwnerAssumption, HashAssumption, KindAssumption, TreeAssumption,
    TierAssumption, BoundAssumption

\* The status a node is moved to is a status, the tier of an approval a tier.
LEMMA ApprovalTypes ==
    ASSUME TypeOK, NEW n \in Nodes, NEW c \in ComputedTiers
    PROVE  ApprovalTier(n, c) \in Tiers /\ ApprovedStatus(n) \in Statuses
BY DEF TypeOK, ApprovalTier, ApprovedStatus, Statuses, Tiers, Low, High

\* A round of approvals keeps the types.
LEMMA ApproveTypes ==
    ASSUME TypeOK, NEW S \in SUBSET Nodes, Approve(S)
    PROVE  /\ status' \in [Nodes -> Statuses]
           /\ reason' \in [Nodes -> BlockReasons \cup {NoReason}]
           /\ hash' \in [Nodes -> Contents \cup {NoHash}]
           /\ tier' \in [Nodes -> Tiers]
           /\ UNCHANGED <<leaseVars, countVars, version, criteria, retiered,
                          deleted, callVars>>
<1>1. PICK computed \in [S -> ComputedTiers] :
        /\ tier' = [n \in Nodes |-> IF n \in S THEN ApprovalTier(n, computed[n])
                                              ELSE tier[n]]
        /\ hash' = [n \in Nodes |-> IF n \in S THEN criteria[n] ELSE hash[n]]
        /\ status' = [n \in Nodes |-> IF n \in S THEN ApprovedStatus(n)
                                                ELSE status[n]]
        /\ reason' = [n \in Nodes |-> IF n \in S THEN NoReason ELSE reason[n]]
        /\ UNCHANGED <<leaseVars, countVars, version, criteria, retiered,
                       deleted, callVars>>
  BY DEF Approve
<1>2. \A n \in S : ApprovalTier(n, computed[n]) \in Tiers
  BY <1>1, ApprovalTypes
<1>3. \A n \in Nodes : ApprovedStatus(n) \in Statuses
  BY DEF ApprovedStatus, Statuses
<1>4. QED
  BY <1>1, <1>2, <1>3 DEF TypeOK

\* What `done` leaves behind: the node is done with its lease ended, on a low
\* tier and with auto criteria, or waits for review with its lease.
LEMMA DoneOutcome ==
    ASSUME TypeOK, NEW n \in Nodes, NEW a \in Agents, NEW e, Done(n, a, e)
    PROVE  /\ status[n] = "in_progress" /\ owner[n] = a /\ VersionCurrent(n, e)
           /\ \E t \in Tiers : t >= tier[n] /\ tier' = [tier EXCEPT ![n] = t]
           /\ reason' = [reason EXCEPT ![n] = NoReason]
           /\ \/ /\ status' = [status EXCEPT ![n] = "done"]
                 /\ lease' = [lease EXCEPT ![n] = "none"]
                 /\ n \in AutoChecked /\ tier'[n] = Low
              \/ /\ status' = [status EXCEPT ![n] = "review"]
                 /\ lease' = lease
           /\ UNCHANGED <<phase, owner, countVars, version, criteria, hash,
                          retiered, deleted, callVars>>
<1>1. status[n] = "in_progress" /\ owner[n] = a
  BY DEF Done, Legal, FreeEdges, OwnerEdges
<1>2. PICK computed \in ComputedTiers :
        tier' = [tier EXCEPT ![n] = MaxTier(computed, tier[n])]
  BY DEF Done
<1>3. /\ MaxTier(computed, tier[n]) \in Tiers
      /\ MaxTier(computed, tier[n]) >= tier[n]
  BY DEF TypeOK, MaxTier, Tiers, Low, High
<1>4. \E t \in Tiers : t >= tier[n] /\ tier' = [tier EXCEPT ![n] = t]
  BY <1>2, <1>3
<1>5. /\ VersionCurrent(n, e)
      /\ UNCHANGED <<phase, owner, countVars, version, criteria, hash, retiered,
                     deleted, callVars>>
  BY DEF Done
<1>6. reason' = [reason EXCEPT ![n] = NoReason]
  BY DEF Done, MoveTo
<1>7. \/ /\ status' = [status EXCEPT ![n] = "done"]
         /\ lease' = [lease EXCEPT ![n] = "none"]
         /\ n \in AutoChecked /\ tier'[n] = Low
      \/ /\ status' = [status EXCEPT ![n] = "review"]
         /\ lease' = lease
  BY DEF Done, MoveTo, EndLease
<1>8. QED
  BY <1>1, <1>4, <1>5, <1>6, <1>7

LEMMA TypeInit == Init => TypeOK
BY DEF Init, TypeOK, Statuses, NoReason, Tiers, Low, High

LEMMA TypeNext == TypeOK /\ [Next]_vars => TypeOK'
<1> SUFFICES ASSUME TypeOK, [Next]_vars PROVE TypeOK'
  OBVIOUS
<1> USE DEF TypeOK, MoveTo, GiveLease, DropLease, EndLease, BumpVersion,
            planVars, leaseVars, countVars, callVars
<1>1. ASSUME NEW n \in Nodes, NodeStep(n) PROVE TypeOK'
  <2>1. ASSUME NEW c \in Contents, AddNode(n, c) PROVE TypeOK'
    BY <2>1 DEF AddNode, Statuses
  <2>2. CASE HumanStep(n)
    <3>1. CASE ApproveSpec(n)
      BY <3>1 DEF ApproveSpec, Statuses
    <3>2. CASE ApproveNode(n)
      BY <3>2, ApproveTypes DEF ApproveNode
    <3>3. CASE EditNode(n)
      BY <3>3 DEF EditNode
    <3>4. CASE HumanNote(n)
      BY <3>4 DEF HumanNote
    <3>5. ASSUME NEW c \in Contents, EditCriteria(n, c) PROVE TypeOK'
      <4>1. tier' \in [Nodes -> Tiers]
        BY <3>5 DEF EditCriteria, Tiers, Low, High
      <4>2. status' \in [Nodes -> Statuses] /\ retiered' \in SUBSET Nodes
        BY <3>5 DEF EditCriteria, Statuses
      <4>3. QED
        BY <3>5, <4>1, <4>2 DEF EditCriteria
    <3>6. CASE RemoveNode(n)
      BY <3>6 DEF RemoveNode, Subtree
    <3>7. CASE ApproveReview(n)
      BY <3>7 DEF ApproveReview, Statuses
    <3>8. CASE RejectReview(n)
      BY <3>8 DEF RejectReview, Statuses
    <3>9. ASSUME NEW a \in Agents, Handoff(n, a) PROVE TypeOK'
      BY <3>9 DEF Handoff, Statuses
    <3>10. QED
      BY <2>2, <3>1, <3>2, <3>3, <3>4, <3>5, <3>6, <3>7, <3>8, <3>9 DEF HumanStep
  <2>3. ASSUME NEW a \in Agents, AgentStep(n, a) PROVE TypeOK'
    <3>1. CASE StartCheck(n, a)
      BY <3>1 DEF StartCheck
    <3>2. CASE StartCommit(n, a)
      BY <3>2 DEF StartCommit, Statuses
    <3>3. CASE StartEnds(n, a)
      BY <3>3 DEF StartEnds
    <3>4. ASSUME NEW e \in {NoVersion, started[n].version}, Done(n, a, e)
          PROVE  TypeOK'
      <4>1. PICK t \in Tiers : tier' = [tier EXCEPT ![n] = t]
        BY <3>4, DoneOutcome
      <4>2. reason' = [reason EXCEPT ![n] = NoReason]
        BY <3>4, DoneOutcome
      <4>3. \/ /\ status' = [status EXCEPT ![n] = "done"]
               /\ lease' = [lease EXCEPT ![n] = "none"]
            \/ /\ status' = [status EXCEPT ![n] = "review"]
               /\ lease' = lease
        BY <3>4, DoneOutcome
      <4>4. UNCHANGED <<phase, owner, countVars, version, criteria, hash,
                        retiered, deleted, callVars>>
        BY <3>4, DoneOutcome
      <4>5. /\ status' \in [Nodes -> Statuses]
            /\ lease' \in [Nodes -> {"none", "live", "expired"}]
        <5>1. \E s \in Statuses : status' = [status EXCEPT ![n] = s]
          BY <4>3 DEF Statuses
        <5>2. lease' = lease \/ lease' = [lease EXCEPT ![n] = "none"]
          BY <4>3
        <5>3. status \in [Nodes -> Statuses] /\ lease \in [Nodes -> {"none", "live", "expired"}]
          BY DEF TypeOK
        <5>4. QED
          BY <5>1, <5>2, <5>3
      <4>6. /\ reason' \in [Nodes -> BlockReasons \cup {NoReason}]
            /\ tier' \in [Nodes -> Tiers]
        BY <4>1, <4>2
      <4>7. QED
        BY <4>4, <4>5, <4>6
    <3>5. ASSUME NEW e \in {NoVersion, started[n].version}, Fail(n, a, e)
          PROVE  TypeOK'
      BY <3>5 DEF Fail, FailedStatus, Statuses
    <3>6. QED
      BY <2>3, <3>1, <3>2, <3>3, <3>4, <3>5 DEF AgentStep
  <2>4. CASE BlockOnQuestion(n)
    BY <2>4 DEF BlockOnQuestion, Statuses, BlockReasons
  <2>5. CASE LeaseExpires(n)
    BY <2>5 DEF LeaseExpires
  <2>6. QED
    BY <1>1, <2>1, <2>2, <2>3, <2>4, <2>5 DEF NodeStep
<1>2. CASE ApproveGate2
  <2>1. LivePending \in SUBSET Nodes
    BY DEF LivePending
  <2>2. QED
    BY <1>2, <2>1, ApproveTypes DEF ApproveGate2
<1>3. CASE Pause
  BY <1>3 DEF Pause
<1>4. CASE Resume
  BY <1>4 DEF Resume
<1>5. CASE ReconcileLeases
  BY <1>5 DEF ReconcileLeases, Statuses
<1>6. CASE UNCHANGED vars
  BY <1>6 DEF vars
<1>7. QED
  BY <1>1, <1>2, <1>3, <1>4, <1>5, <1>6 DEF Next

\* Every column of the node table keeps its type, whatever verbs are called.
THEOREM TypeCorrect == Spec => []TypeOK
BY TypeInit, TypeNext, PTL DEF Spec

-----------------------------------------------------------------------------
\* The steps of the specification, one disjunct per operation.
LEMMA StepCases ==
    ASSUME [Next]_vars
    PROVE  \/ \E n \in Nodes, c \in Contents : AddNode(n, c) \/ EditCriteria(n, c)
           \/ \E n \in Nodes : \/ ApproveSpec(n)   \/ ApproveNode(n)
                             \/ EditNode(n)      \/ HumanNote(n)
                             \/ RemoveNode(n)    \/ ApproveReview(n)
                             \/ RejectReview(n)  \/ BlockOnQuestion(n)
                             \/ LeaseExpires(n)
           \/ \E n \in Nodes, a \in Agents : \/ Handoff(n, a)
                                           \/ StartCheck(n, a)
                                           \/ StartCommit(n, a)
                                           \/ StartEnds(n, a)
           \/ \E n \in Nodes, a \in Agents :
                 \E e \in {NoVersion, started[n].version} :
                    Done(n, a, e) \/ Fail(n, a, e)
           \/ ApproveGate2 \/ Pause \/ Resume \/ ReconcileLeases
           \/ UNCHANGED vars
<1>1. CASE \E n \in Nodes : NodeStep(n)
  BY <1>1 DEF NodeStep, HumanStep, AgentStep
<1>2. QED
  BY <1>1 DEF Next

\* What a round of approvals does to one node.
LEMMA ApproveOutcome ==
    ASSUME TypeOK, NEW S \in SUBSET Nodes, Approve(S), NEW n \in Nodes
    PROVE  /\ n \notin S => status'[n] = status[n] /\ hash'[n] = hash[n]
                            /\ tier'[n] = tier[n]
           /\ n \in S => /\ status'[n] = ApprovedStatus(n)
                         /\ Legal(n, ApprovedStatus(n), owner[n])
                         /\ hash'[n] = criteria[n]
                         /\ hash[n] # NoHash => tier'[n] = tier[n]
           /\ UNCHANGED <<leaseVars, countVars, version, criteria, retiered,
                          deleted, callVars>>
<1>1. PICK computed \in [S -> ComputedTiers] :
        /\ tier' = [m \in Nodes |-> IF m \in S THEN ApprovalTier(m, computed[m])
                                              ELSE tier[m]]
        /\ hash' = [m \in Nodes |-> IF m \in S THEN criteria[m] ELSE hash[m]]
        /\ status' = [m \in Nodes |-> IF m \in S THEN ApprovedStatus(m)
                                                ELSE status[m]]
        /\ \A m \in S : Legal(m, ApprovedStatus(m), owner[m])
        /\ UNCHANGED <<leaseVars, countVars, version, criteria, retiered,
                       deleted, callVars>>
  BY DEF Approve
<1>2. QED
  BY <1>1 DEF ApprovalTier

\* Both approvals of plan nodes are rounds of approvals.
LEMMA ApprovalRounds ==
    /\ \A n \in Nodes : ApproveNode(n) => Approve({n}) /\ {n} \in SUBSET Nodes
    /\ ApproveGate2 => Approve(LivePending) /\ LivePending \in SUBSET Nodes
BY DEF ApproveNode, ApproveGate2, LivePending

LEMMA HeldInit == Init => HeldNodesHaveLease
BY DEF Init, HeldNodesHaveLease, Held

LEMMA HeldApprove ==
    ASSUME TypeOK, HeldNodesHaveLease, NEW S \in SUBSET Nodes, Approve(S)
    PROVE  HeldNodesHaveLease'
<1> SUFFICES ASSUME NEW n \in Nodes, status'[n] \in Held
             PROVE  owner'[n] # NoOwner /\ lease'[n] # "none"
  BY DEF HeldNodesHaveLease
<1>1. owner' = owner /\ lease' = lease
  BY ApproveOutcome DEF leaseVars
<1>2. CASE n \notin S
  BY <1>1, <1>2, ApproveOutcome DEF HeldNodesHaveLease
<1>3. CASE n \in S
  <2>1. status'[n] = ApprovedStatus(n)
    BY <1>3, ApproveOutcome
  <2>2. status[n] = "awaiting_approval"
    BY <2>1 DEF ApprovedStatus, Held
  <2>3. QED
    BY <1>1, <2>2 DEF HeldNodesHaveLease, Held
<1>4. QED
  BY <1>2, <1>3

\* Held nodes keep an owner and a lease: the states a node leaves are what
\* matters, review and awaiting_approval carry the lease back.
LEMMA HeldNext ==
    TypeOK /\ HeldNodesHaveLease /\ [Next]_vars => HeldNodesHaveLease'
<1> SUFFICES ASSUME TypeOK, HeldNodesHaveLease, [Next]_vars
             PROVE  HeldNodesHaveLease'
  OBVIOUS
<1> USE DEF HeldNodesHaveLease, Held, TypeOK, leaseVars, MoveTo
<1>1. ASSUME NEW n \in Nodes, NEW c \in Contents, AddNode(n, c)
      PROVE  HeldNodesHaveLease'
  BY <1>1 DEF AddNode
<1>2. ASSUME NEW n \in Nodes, NEW c \in Contents, EditCriteria(n, c)
      PROVE  HeldNodesHaveLease'
  BY <1>2 DEF EditCriteria
<1>3. ASSUME NEW n \in Nodes, ApproveSpec(n) PROVE HeldNodesHaveLease'
  BY <1>3 DEF ApproveSpec
<1>4. ASSUME NEW n \in Nodes, ApproveNode(n) PROVE HeldNodesHaveLease'
  <2>1. {n} \in SUBSET Nodes /\ Approve({n})
    BY <1>4, ApprovalRounds
  <2>2. QED
    BY <2>1, HeldApprove
<1>5. ASSUME NEW n \in Nodes,
             EditNode(n) \/ HumanNote(n) \/ RemoveNode(n)
      PROVE  HeldNodesHaveLease'
  BY <1>5 DEF EditNode, HumanNote, RemoveNode
<1>6. ASSUME NEW n \in Nodes, ApproveReview(n) PROVE HeldNodesHaveLease'
  BY <1>6 DEF ApproveReview, EndLease
<1>7. ASSUME NEW n \in Nodes, RejectReview(n) PROVE HeldNodesHaveLease'
  BY <1>7 DEF RejectReview
<1>8. ASSUME NEW n \in Nodes, BlockOnQuestion(n) PROVE HeldNodesHaveLease'
  BY <1>8 DEF BlockOnQuestion
<1>9. ASSUME NEW n \in Nodes, LeaseExpires(n) PROVE HeldNodesHaveLease'
  BY <1>9 DEF LeaseExpires
<1>10. ASSUME NEW n \in Nodes, NEW a \in Agents, Handoff(n, a)
       PROVE  HeldNodesHaveLease'
  BY <1>10 DEF Handoff, GiveLease
<1>11. ASSUME NEW n \in Nodes, NEW a \in Agents, StartCommit(n, a)
       PROVE  HeldNodesHaveLease'
  BY <1>11 DEF StartCommit, GiveLease
<1>12. ASSUME NEW n \in Nodes, NEW a \in Agents,
              StartCheck(n, a) \/ StartEnds(n, a)
       PROVE  HeldNodesHaveLease'
  BY <1>12 DEF StartCheck, StartEnds
<1>13. ASSUME NEW n \in Nodes, NEW a \in Agents, NEW e, Done(n, a, e)
       PROVE  HeldNodesHaveLease'
  <2>1. owner' = owner /\ status[n] = "in_progress"
    BY <1>13, DoneOutcome
  <2>2. \/ status' = [status EXCEPT ![n] = "done"]
           /\ lease' = [lease EXCEPT ![n] = "none"]
        \/ status' = [status EXCEPT ![n] = "review"] /\ lease' = lease
    BY <1>13, DoneOutcome
  <2>3. QED
    BY <2>1, <2>2
<1>14. ASSUME NEW n \in Nodes, NEW a \in Agents, NEW e, Fail(n, a, e)
       PROVE  HeldNodesHaveLease'
  BY <1>14 DEF Fail, FailedStatus, DropLease
<1>15. CASE ApproveGate2
  BY <1>15, HeldApprove, ApprovalRounds
<1>16. CASE Pause \/ Resume
  BY <1>16 DEF Pause, Resume
<1>17. CASE ReconcileLeases
  BY <1>17 DEF ReconcileLeases
<1>18. CASE UNCHANGED vars
  BY <1>18 DEF vars
<1>19. QED
  BY StepCases, <1>1, <1>2, <1>3, <1>4, <1>5, <1>6, <1>7, <1>8, <1>9, <1>10,
     <1>11, <1>12, <1>13, <1>14, <1>15, <1>16, <1>17, <1>18

\* Whatever path leads to work in hand, it has an owner and a lease that can
\* lapse, so the sweep can always take it back.
THEOREM HeldHaveLease == Spec => []HeldNodesHaveLease
<1>1. Init => TypeOK /\ HeldNodesHaveLease
  BY TypeInit, HeldInit
<1>2. (TypeOK /\ HeldNodesHaveLease) /\ [Next]_vars
        => (TypeOK /\ HeldNodesHaveLease)'
  BY TypeNext, HeldNext
<1>3. QED
  BY <1>1, <1>2, PTL DEF Spec

-----------------------------------------------------------------------------
LEMMA FailedNext ==
    TypeOK /\ FailedMeansExhausted /\ [Next]_vars => FailedMeansExhausted'
<1> SUFFICES ASSUME TypeOK, FailedMeansExhausted, [Next]_vars,
                    NEW m \in Nodes, status'[m] = "failed"
             PROVE  attempts'[m] >= MaxAttempts
  BY DEF FailedMeansExhausted
<1> USE DEF FailedMeansExhausted, TypeOK, MoveTo, countVars
<1>1. ASSUME NEW n \in Nodes, NEW c \in Contents,
             AddNode(n, c) \/ EditCriteria(n, c)
      PROVE  attempts'[m] >= MaxAttempts
  BY <1>1 DEF AddNode, EditCriteria
<1>2. ASSUME NEW n \in Nodes,
             \/ ApproveSpec(n)   \/ ApproveReview(n)   \/ RejectReview(n)
             \/ BlockOnQuestion(n)
      PROVE  attempts'[m] >= MaxAttempts
  BY <1>2 DEF ApproveSpec, ApproveReview, RejectReview, BlockOnQuestion
<1>3. ASSUME NEW n \in Nodes,
             EditNode(n) \/ HumanNote(n) \/ RemoveNode(n) \/ LeaseExpires(n)
      PROVE  attempts'[m] >= MaxAttempts
  BY <1>3 DEF EditNode, HumanNote, RemoveNode, LeaseExpires
<1>4. ASSUME NEW S \in SUBSET Nodes, Approve(S)
      PROVE  attempts'[m] >= MaxAttempts
  <2>1. attempts' = attempts
    BY <1>4, ApproveTypes
  <2>2. m \notin S
    <3>1. m \in S => status'[m] = ApprovedStatus(m)
      BY <1>4, ApproveOutcome
    <3>2. QED
      BY <3>1 DEF ApprovedStatus
  <2>3. status'[m] = status[m]
    BY <1>4, <2>2, ApproveOutcome
  <2>4. QED
    BY <2>1, <2>3
<1>5. ASSUME NEW n \in Nodes, NEW a \in Agents,
             Handoff(n, a) \/ StartCommit(n, a)
      PROVE  attempts'[m] >= MaxAttempts
  BY <1>5 DEF Handoff, StartCommit
<1>6. ASSUME NEW n \in Nodes, NEW a \in Agents,
             StartCheck(n, a) \/ StartEnds(n, a)
      PROVE  attempts'[m] >= MaxAttempts
  BY <1>6 DEF StartCheck, StartEnds
<1>7. ASSUME NEW n \in Nodes, NEW a \in Agents, NEW e, Done(n, a, e)
      PROVE  attempts'[m] >= MaxAttempts
  <2>1. attempts' = attempts
    BY <1>7, DoneOutcome
  <2>2. \/ status' = [status EXCEPT ![n] = "done"]
        \/ status' = [status EXCEPT ![n] = "review"]
    BY <1>7, DoneOutcome
  <2>3. status'[m] = status[m]
    BY <2>2
  <2>4. QED
    BY <2>1, <2>3
<1>8. ASSUME NEW n \in Nodes, NEW a \in Agents, NEW e, Fail(n, a, e)
      PROVE  attempts'[m] >= MaxAttempts
  BY <1>8 DEF Fail, FailedStatus
<1>9. CASE Pause \/ Resume
  BY <1>9 DEF Pause, Resume
<1>10. CASE ReconcileLeases
  BY <1>10 DEF ReconcileLeases
<1>11. CASE UNCHANGED vars
  BY <1>11 DEF vars
<1>12. QED
  <2>1. ASSUME NEW n \in Nodes, ApproveNode(n) PROVE attempts'[m] >= MaxAttempts
    <3>1. {n} \in SUBSET Nodes /\ Approve({n})
      BY <2>1, ApprovalRounds
    <3>2. QED
      BY <1>4, <3>1
  <2>2. ApproveGate2 => attempts'[m] >= MaxAttempts
    BY <1>4, ApprovalRounds
  <2>3. QED
    BY StepCases, <1>1, <1>2, <1>3, <1>5, <1>6, <1>7, <1>8, <1>9, <1>10,
       <1>11, <2>1, <2>2

\* A node fails for good only after max_attempts reported failures.
THEOREM FailedIsExhausted == Spec => []FailedMeansExhausted
<1>1. Init => TypeOK /\ FailedMeansExhausted
  BY TypeInit DEF Init, FailedMeansExhausted
<1>2. (TypeOK /\ FailedMeansExhausted) /\ [Next]_vars
        => (TypeOK /\ FailedMeansExhausted)'
  BY TypeNext, FailedNext
<1>3. QED
  BY <1>1, <1>2, PTL DEF Spec

-----------------------------------------------------------------------------
LEMMA VersionedNext ==
    TypeOK /\ EditsAreVersioned /\ [Next]_vars => EditsAreVersioned'
<1> SUFFICES ASSUME TypeOK, EditsAreVersioned, [Next]_vars
             PROVE  EditsAreVersioned'
  OBVIOUS
<1> USE DEF EditsAreVersioned, TypeOK, BumpVersion, planVars, callVars
<1>1. ASSUME NEW n \in Nodes, NEW c \in Contents, AddNode(n, c)
      PROVE  EditsAreVersioned'
  BY <1>1 DEF AddNode
<1>2. ASSUME NEW n \in Nodes, NEW c \in Contents, EditCriteria(n, c)
      PROVE  EditsAreVersioned'
  BY <1>2 DEF EditCriteria
<1>3. ASSUME NEW n \in Nodes, EditNode(n) \/ HumanNote(n) \/ RejectReview(n)
      PROVE  EditsAreVersioned'
  BY <1>3 DEF EditNode, HumanNote, RejectReview
<1>4. ASSUME NEW n \in Nodes,
             \/ ApproveSpec(n)  \/ RemoveNode(n)       \/ ApproveReview(n)
             \/ LeaseExpires(n) \/ BlockOnQuestion(n)
      PROVE  UNCHANGED <<version, criteria, started>>
  BY <1>4 DEF ApproveSpec, RemoveNode, ApproveReview, LeaseExpires,
              BlockOnQuestion
<1>5. ASSUME NEW S \in SUBSET Nodes, Approve(S)
      PROVE  UNCHANGED <<version, criteria, started>>
  BY <1>5, ApproveTypes
<1>6. ASSUME NEW n \in Nodes, NEW a \in Agents,
             Handoff(n, a) \/ StartCheck(n, a) \/ StartEnds(n, a)
      PROVE  UNCHANGED <<version, criteria, started>>
  BY <1>6 DEF Handoff, StartCheck, StartEnds
<1>7. ASSUME NEW n \in Nodes, NEW a \in Agents, StartCommit(n, a)
      PROVE  EditsAreVersioned'
  BY <1>7 DEF StartCommit
<1>8. ASSUME NEW n \in Nodes, NEW a \in Agents, NEW e,
             Done(n, a, e) \/ Fail(n, a, e)
      PROVE  UNCHANGED <<version, criteria, started>>
  BY <1>8 DEF Done, Fail
<1>9. CASE Pause \/ Resume \/ ReconcileLeases \/ UNCHANGED vars
  BY <1>9 DEF Pause, Resume, ReconcileLeases, vars
<1>10. UNCHANGED <<version, criteria, started>> => EditsAreVersioned'
  OBVIOUS
<1>11. QED
  <2>1. ASSUME NEW n \in Nodes, ApproveNode(n) PROVE EditsAreVersioned'
    <3>1. {n} \in SUBSET Nodes /\ Approve({n})
      BY <2>1, ApprovalRounds
    <3>2. QED
      BY <1>5, <1>10, <3>1
  <2>2. ApproveGate2 => EditsAreVersioned'
    BY <1>5, <1>10, ApprovalRounds
  <2>3. QED
    BY StepCases, <1>1, <1>2, <1>3, <1>4, <1>6, <1>7, <1>8, <1>9, <1>10,
       <2>1, <2>2

\* While the version is the one `start` returned, so are the criteria.
THEOREM VersionsGuardCriteria == Spec => []EditsAreVersioned
<1>1. Init => TypeOK /\ EditsAreVersioned
  BY TypeInit DEF Init, TypeOK, EditsAreVersioned
<1>2. (TypeOK /\ EditsAreVersioned) /\ [Next]_vars
        => (TypeOK /\ EditsAreVersioned)'
  BY TypeNext, VersionedNext
<1>3. QED
  BY <1>1, <1>2, PTL DEF Spec

\* No `done` that names its version grades criteria other than its start's.
THEOREM FinishIsCurrent == Spec => NoStaleFinish
<1>1. TypeOK /\ EditsAreVersioned /\ [Next]_vars =>
        [\A n \in Nodes, a \in Agents :
            Done(n, a, started[n].version) =>
                criteria[n] = started[n].criteria]_vars
  BY DEF Done, VersionCurrent, NoVersion, EditsAreVersioned, TypeOK
<1>2. QED
  BY <1>1, TypeCorrect, VersionsGuardCriteria, PTL DEF Spec, NoStaleFinish

-----------------------------------------------------------------------------
LEMMA RetieredNext ==
    TypeOK /\ RetieredStaysHigh /\ [Next]_vars => RetieredStaysHigh'
<1> SUFFICES ASSUME TypeOK, RetieredStaysHigh, [Next]_vars
             PROVE  RetieredStaysHigh'
  OBVIOUS
<1>0. retiered \in SUBSET Nodes /\ tier \in [Nodes -> Tiers]
      /\ hash \in [Nodes -> Contents \cup {NoHash}]
  BY DEF TypeOK
<1>1. ASSUME NEW n \in Nodes, NEW c \in Contents, AddNode(n, c)
      PROVE  UNCHANGED <<hash, tier, retiered>>
  BY <1>1 DEF AddNode
<1>2. ASSUME NEW n \in Nodes, NEW c \in Contents, EditCriteria(n, c)
      PROVE  RetieredStaysHigh'
  BY <1>0, <1>2 DEF EditCriteria, RetieredStaysHigh
<1>3. ASSUME NEW n \in Nodes,
             \/ ApproveSpec(n)   \/ EditNode(n)     \/ HumanNote(n)
             \/ RemoveNode(n)    \/ ApproveReview(n) \/ RejectReview(n)
             \/ BlockOnQuestion(n) \/ LeaseExpires(n)
      PROVE  UNCHANGED <<hash, tier, retiered>>
  BY <1>3 DEF ApproveSpec, EditNode, HumanNote, RemoveNode, ApproveReview,
              RejectReview, BlockOnQuestion, LeaseExpires, planVars
<1>4. ASSUME NEW S \in SUBSET Nodes, Approve(S)
      PROVE  RetieredStaysHigh'
  <2>1. retiered' = retiered
    BY <1>4, ApproveTypes
  <2>2. ASSUME NEW m \in retiered PROVE hash'[m] # NoHash /\ tier'[m] = High
    <3>1. m \in Nodes /\ hash[m] # NoHash /\ tier[m] = High
      BY <1>0 DEF RetieredStaysHigh
    <3>2. criteria[m] # NoHash
      BY <3>1 DEF TypeOK
    <3>3. tier'[m] = tier[m] /\ hash'[m] \in {hash[m], criteria[m]}
      BY <1>4, <3>1, ApproveOutcome
    <3>4. QED
      BY <3>1, <3>2, <3>3
  <2>3. QED
    BY <2>1, <2>2 DEF RetieredStaysHigh
<1>5. ASSUME NEW n \in Nodes, NEW a \in Agents,
             \/ Handoff(n, a)     \/ StartCheck(n, a)
             \/ StartCommit(n, a) \/ StartEnds(n, a)
      PROVE  UNCHANGED <<hash, tier, retiered>>
  BY <1>5 DEF Handoff, StartCheck, StartCommit, StartEnds, planVars
<1>6. ASSUME NEW n \in Nodes, NEW a \in Agents, NEW e, Done(n, a, e)
      PROVE  RetieredStaysHigh'
  <2>1. PICK t \in Tiers : t >= tier[n] /\ tier' = [tier EXCEPT ![n] = t]
    BY <1>6, DoneOutcome
  <2>2. hash' = hash /\ retiered' = retiered
    BY <1>6, DoneOutcome
  <2>3. tier[n] = High => t = High
    BY <2>1 DEF Tiers, Low, High
  <2>4. QED
    BY <1>0, <2>1, <2>2, <2>3 DEF RetieredStaysHigh
<1>7. ASSUME NEW n \in Nodes, NEW a \in Agents, NEW e, Fail(n, a, e)
      PROVE  UNCHANGED <<hash, tier, retiered>>
  BY <1>7 DEF Fail, planVars
<1>8. CASE Pause \/ Resume \/ ReconcileLeases \/ UNCHANGED vars
  BY <1>8 DEF Pause, Resume, ReconcileLeases, vars, planVars, RetieredStaysHigh
<1>9. UNCHANGED <<hash, tier, retiered>> => RetieredStaysHigh'
  BY DEF RetieredStaysHigh
<1>10. QED
  <2>1. ASSUME NEW n \in Nodes, ApproveNode(n) PROVE RetieredStaysHigh'
    <3>1. {n} \in SUBSET Nodes /\ Approve({n})
      BY <2>1, ApprovalRounds
    <3>2. QED
      BY <1>4, <3>1
  <2>2. ApproveGate2 => RetieredStaysHigh'
    BY <1>4, ApprovalRounds
  <2>3. QED
    BY StepCases, <1>1, <1>2, <1>3, <1>5, <1>6, <1>7, <1>8, <1>9, <2>1, <2>2

\* Once approved criteria were edited, no re-approval and no `done` lowers the
\* tier again.
THEOREM RetieredIsHigh == Spec => []RetieredStaysHigh
<1>1. Init => TypeOK /\ RetieredStaysHigh
  BY TypeInit DEF Init, RetieredStaysHigh
<1>2. (TypeOK /\ RetieredStaysHigh) /\ [Next]_vars
        => (TypeOK /\ RetieredStaysHigh)'
  BY TypeNext, RetieredNext
<1>3. QED
  BY <1>1, <1>2, PTL DEF Spec

\* The step that makes a node done without a review is a `done` on a low tier.
LEMMA AutoApprovalStep ==
    ASSUME TypeOK, RetieredStaysHigh, [Next]_vars, NEW m \in Nodes,
           status[m] # "done", status'[m] = "done", status[m] # "review"
    PROVE  m \in AutoChecked \ retiered /\ tier'[m] = Low
<1> USE DEF TypeOK, MoveTo
<1>1. ASSUME NEW n \in Nodes, NEW c \in Contents,
             AddNode(n, c) \/ EditCriteria(n, c)
      PROVE  FALSE
  BY <1>1 DEF AddNode, EditCriteria
<1>2. ASSUME NEW n \in Nodes,
             \/ ApproveSpec(n)     \/ EditNode(n)      \/ HumanNote(n)
             \/ RemoveNode(n)      \/ ApproveReview(n) \/ RejectReview(n)
             \/ BlockOnQuestion(n) \/ LeaseExpires(n)
      PROVE  FALSE
  BY <1>2 DEF ApproveSpec, EditNode, HumanNote, RemoveNode, ApproveReview,
              RejectReview, BlockOnQuestion, LeaseExpires
<1>3. ASSUME NEW S \in SUBSET Nodes, Approve(S) PROVE FALSE
  <2>1. status'[m] \in {status[m], ApprovedStatus(m)}
    BY <1>3, ApproveOutcome
  <2>2. QED
    BY <2>1 DEF ApprovedStatus
<1>4. ASSUME NEW n \in Nodes, NEW a \in Agents,
             \/ Handoff(n, a)     \/ StartCheck(n, a)
             \/ StartCommit(n, a) \/ StartEnds(n, a)
      PROVE  FALSE
  BY <1>4 DEF Handoff, StartCheck, StartCommit, StartEnds
<1>5. ASSUME NEW n \in Nodes, NEW a \in Agents, NEW e, Done(n, a, e)
      PROVE  m \in AutoChecked \ retiered /\ tier'[m] = Low
  <2>1. \/ /\ status' = [status EXCEPT ![n] = "done"]
           /\ n \in AutoChecked /\ tier'[n] = Low
        \/ status' = [status EXCEPT ![n] = "review"]
    BY <1>5, DoneOutcome
  <2>2. m = n /\ n \in AutoChecked /\ tier'[n] = Low
    BY <2>1
  <2>3. PICK t \in Tiers : t >= tier[n] /\ tier' = [tier EXCEPT ![n] = t]
    BY <1>5, DoneOutcome
  <2>4. tier[n] # High
    BY <2>2, <2>3 DEF Tiers, Low, High
  <2>5. QED
    BY <2>2, <2>4 DEF RetieredStaysHigh
<1>6. ASSUME NEW n \in Nodes, NEW a \in Agents, NEW e, Fail(n, a, e)
      PROVE  FALSE
  BY <1>6 DEF Fail, FailedStatus
<1>7. CASE Pause \/ Resume \/ ReconcileLeases \/ UNCHANGED vars
  BY <1>7 DEF Pause, Resume, ReconcileLeases, vars
<1>8. QED
  <2>1. ASSUME NEW n \in Nodes, ApproveNode(n) PROVE FALSE
    <3>1. {n} \in SUBSET Nodes /\ Approve({n})
      BY <2>1, ApprovalRounds
    <3>2. QED
      BY <1>3, <3>1
  <2>2. ~ ApproveGate2
    BY <1>3, ApprovalRounds
  <2>3. QED
    BY StepCases, <1>1, <1>2, <1>4, <1>5, <1>6, <1>7, <2>1, <2>2

\* Automatic approval is for low-tier work with auto criteria that nobody
\* edited after they were approved.
THEOREM AutoApprovalIsSafe == Spec => AutoApprovalIsLowRisk
<1>1. TypeOK /\ RetieredStaysHigh /\ [Next]_vars =>
        [\A n \in Nodes :
            status[n] # "done" /\ status'[n] = "done" =>
                \/ status[n] = "review"
                \/ n \in AutoChecked \ retiered /\ tier'[n] = Low]_vars
  BY AutoApprovalStep
<1>2. QED
  BY <1>1, TypeCorrect, RetieredIsHigh, PTL DEF Spec, AutoApprovalIsLowRisk

-----------------------------------------------------------------------------
\* The step that changes the owner of a node running under a live lease.
LEMMA ExclusiveStep ==
    ASSUME TypeOK, [Next]_vars, NEW m \in Nodes, status[m] = "in_progress",
           lease[m] = "live", owner'[m] # owner[m]
    PROVE  (\E a \in Agents : Handoff(m, a)) \/ Fail(m, owner[m], NoVersion)
<1> USE DEF TypeOK, leaseVars
<1>1. ASSUME NEW n \in Nodes, NEW c \in Contents,
             AddNode(n, c) \/ EditCriteria(n, c)
      PROVE  FALSE
  BY <1>1 DEF AddNode, EditCriteria
<1>2. ASSUME NEW n \in Nodes,
             \/ ApproveSpec(n)     \/ EditNode(n)      \/ HumanNote(n)
             \/ RemoveNode(n)      \/ ApproveReview(n) \/ RejectReview(n)
             \/ BlockOnQuestion(n) \/ LeaseExpires(n)
      PROVE  FALSE
  BY <1>2 DEF ApproveSpec, EditNode, HumanNote, RemoveNode, ApproveReview,
              RejectReview, BlockOnQuestion, LeaseExpires
<1>3. ASSUME NEW S \in SUBSET Nodes, Approve(S) PROVE FALSE
  BY <1>3, ApproveTypes
<1>4. ASSUME NEW n \in Nodes, NEW a \in Agents, Handoff(n, a)
      PROVE  \E b \in Agents : Handoff(m, b)
  <2>1. n = m
    BY <1>4 DEF Handoff, GiveLease
  <2>2. QED
    BY <1>4, <2>1
<1>5. ASSUME NEW n \in Nodes, NEW a \in Agents, StartCommit(n, a) PROVE FALSE
  <2>1. n = m
    BY <1>5 DEF StartCommit, GiveLease
  <2>2. QED
    BY <1>5, <2>1 DEF StartCommit, Legal, FreeEdges, OwnerEdges
<1>6. ASSUME NEW n \in Nodes, NEW a \in Agents,
             StartCheck(n, a) \/ StartEnds(n, a)
      PROVE  FALSE
  BY <1>6 DEF StartCheck, StartEnds
<1>7. ASSUME NEW n \in Nodes, NEW a \in Agents, NEW e, Done(n, a, e)
      PROVE  FALSE
  BY <1>7 DEF Done
<1>8. ASSUME NEW n \in Nodes, NEW a \in Agents, NEW e, Fail(n, a, e)
      PROVE  Fail(m, owner[m], NoVersion)
  <2>1. n = m
    BY <1>8 DEF Fail, DropLease
  <2>2. Legal(m, FailedStatus(m), a)
    BY <1>8, <2>1 DEF Fail
  <2>3. a = owner[m]
    BY <2>2 DEF Legal, FreeEdges, OwnerEdges, FailedStatus
  <2>4. QED
    BY <1>8, <2>1, <2>3 DEF Fail, VersionCurrent
<1>9. CASE Pause \/ Resume \/ UNCHANGED vars
  BY <1>9 DEF Pause, Resume, vars
<1>10. CASE ReconcileLeases
  BY <1>10 DEF ReconcileLeases, Lapsed
<1>11. QED
  <2>1. ASSUME NEW n \in Nodes, ApproveNode(n) PROVE FALSE
    <3>1. {n} \in SUBSET Nodes /\ Approve({n})
      BY <2>1, ApprovalRounds
    <3>2. QED
      BY <1>3, <3>1
  <2>2. ~ ApproveGate2
    BY <1>3, ApprovalRounds
  <2>3. QED
    BY StepCases, <1>1, <1>2, <1>4, <1>5, <1>6, <1>7, <1>8, <1>9, <1>10,
       <2>1, <2>2

\* A live lease is lost only by a hand-off or by its holder's own report.
THEOREM LeasesAreExclusive == Spec => LeaseIsExclusive
<1>1. TypeOK /\ [Next]_vars =>
        [\A n \in Nodes :
            status[n] = "in_progress" /\ lease[n] = "live" /\ owner'[n] # owner[n]
                => \/ \E a \in Agents : Handoff(n, a)
                   \/ Fail(n, owner[n], NoVersion)]_vars
  BY ExclusiveStep
<1>2. QED
  BY <1>1, TypeCorrect, PTL DEF Spec, LeaseIsExclusive

-----------------------------------------------------------------------------
(* What approvals and removals may never do to a plan, for every number of *)
(* nodes.                                                                  *)

\* A round of approvals lets a task through only if its own tier does, and it
\* freezes nothing outside the round.
LEMMA RoundPassesHardBlock ==
    ASSUME TypeOK, NEW S \in SUBSET Nodes, Approve(S), NEW n \in Nodes,
           hash'[n] # hash[n]
    PROVE  n \in S /\ PassesHardBlock(n, tier'[n])
<1>1. n \in S
  BY ApproveOutcome
<1>2. PICK computed \in [S -> ComputedTiers] :
        /\ tier' = [m \in Nodes |-> IF m \in S THEN ApprovalTier(m, computed[m])
                                              ELSE tier[m]]
        /\ \A m \in S : PassesHardBlock(m, ApprovalTier(m, computed[m]))
  BY DEF Approve
<1>3. tier'[n] = ApprovalTier(n, computed[n])
  BY <1>1, <1>2
<1>4. QED
  BY <1>1, <1>2, <1>3

HardBlockStep ==
    \A n \in Nodes \ (Specs \cup AutoChecked) :
        hash'[n] # hash[n] => tier'[n] <= AutoAbove

LEMMA HardBlockNext == TypeOK /\ [Next]_vars => HardBlockStep
<1> SUFFICES ASSUME TypeOK, [Next]_vars
             PROVE  HardBlockStep
  OBVIOUS
<1>1. ASSUME NEW S \in SUBSET Nodes, Approve(S)
      PROVE  HardBlockStep
  <2> SUFFICES ASSUME NEW n \in Nodes \ (Specs \cup AutoChecked),
                      hash'[n] # hash[n]
               PROVE  tier'[n] <= AutoAbove
    BY DEF HardBlockStep
  <2>1. PassesHardBlock(n, tier'[n])
    BY <1>1, RoundPassesHardBlock
  <2>2. QED
    BY <2>1 DEF PassesHardBlock
<1>2. ASSUME NEW n \in Nodes, ApproveNode(n)
      PROVE  HardBlockStep
  <2>1. {n} \in SUBSET Nodes /\ Approve({n})
    BY <1>2, ApprovalRounds
  <2>2. QED
    BY <2>1, <1>1
<1>3. CASE ApproveGate2
  <2>1. LivePending \in SUBSET Nodes /\ Approve(LivePending)
    BY <1>3, ApprovalRounds
  <2>2. QED
    BY <2>1, <1>1
<1>4. CASE hash' = hash
  BY <1>4 DEF HardBlockStep
<1>5. ASSUME NEW n \in Nodes, NEW c \in Contents, AddNode(n, c) \/ EditCriteria(n, c)
      PROVE  hash' = hash
  BY <1>5 DEF AddNode, EditCriteria
<1>6. ASSUME NEW n \in Nodes,
             \/ ApproveSpec(n) \/ EditNode(n) \/ HumanNote(n) \/ RemoveNode(n)
             \/ ApproveReview(n) \/ RejectReview(n) \/ BlockOnQuestion(n)
             \/ LeaseExpires(n)
      PROVE  hash' = hash
  BY <1>6 DEF ApproveSpec, EditNode, HumanNote, RemoveNode, ApproveReview,
              RejectReview, BlockOnQuestion, LeaseExpires, planVars
<1>7. ASSUME NEW n \in Nodes, NEW a \in Agents,
             Handoff(n, a) \/ StartCheck(n, a) \/ StartCommit(n, a) \/ StartEnds(n, a)
      PROVE  hash' = hash
  BY <1>7 DEF Handoff, StartCheck, StartCommit, StartEnds, planVars
<1>8. ASSUME NEW n \in Nodes, NEW a \in Agents, NEW e, Done(n, a, e) \/ Fail(n, a, e)
      PROVE  hash' = hash
  BY <1>8 DEF Done, Fail, planVars
<1>9. CASE Pause \/ Resume \/ ReconcileLeases \/ UNCHANGED vars
  BY <1>9, <1>4 DEF Pause, Resume, ReconcileLeases, planVars, vars
<1>10. QED
  BY <1>2, <1>3, <1>4, <1>5, <1>6, <1>7, <1>8, <1>9, StepCases

\* No task above the tier is ever frozen without auto criteria, whichever
\* approval does it and however many nodes it takes along.
THEOREM HardBlockIsAlways == Spec => HardBlockHolds
<1>1. TypeOK /\ [Next]_vars => [HardBlockStep]_vars
  BY HardBlockNext
<1>2. QED
  BY <1>1, TypeCorrect, PTL DEF Spec, HardBlockHolds, HardBlockStep

Gate2Step ==
    phase = "planning" /\ phase' = "executing" =>
        \A n \in Nodes \ (Specs \cup deleted') : status'[n] # "pending"

LEMMA OpeningIsGate2 ==
    ASSUME [Next]_vars, phase = "planning", phase' = "executing"
    PROVE  ApproveGate2
<1>1. phase' # phase
  OBVIOUS
<1>2. ASSUME NEW n \in Nodes, NEW c \in Contents, AddNode(n, c) \/ EditCriteria(n, c)
      PROVE  FALSE
  BY <1>1, <1>2 DEF AddNode, EditCriteria
<1>3. ASSUME NEW n \in Nodes,
             \/ ApproveSpec(n) \/ ApproveNode(n) \/ EditNode(n) \/ HumanNote(n)
             \/ RemoveNode(n) \/ ApproveReview(n) \/ RejectReview(n)
             \/ BlockOnQuestion(n) \/ LeaseExpires(n)
      PROVE  FALSE
  BY <1>1, <1>3 DEF ApproveSpec, ApproveNode, EditNode, HumanNote, RemoveNode,
                    ApproveReview, RejectReview, BlockOnQuestion, LeaseExpires
<1>4. ASSUME NEW n \in Nodes, NEW a \in Agents,
             Handoff(n, a) \/ StartCheck(n, a) \/ StartCommit(n, a) \/ StartEnds(n, a)
      PROVE  FALSE
  BY <1>1, <1>4 DEF Handoff, StartCheck, StartCommit, StartEnds
<1>5. ASSUME NEW n \in Nodes, NEW a \in Agents, NEW e, Done(n, a, e) \/ Fail(n, a, e)
      PROVE  FALSE
  BY <1>1, <1>5 DEF Done, Fail
<1>6. ~ (Pause \/ Resume \/ ReconcileLeases \/ UNCHANGED vars)
  BY <1>1 DEF Pause, Resume, ReconcileLeases, vars
<1>7. QED
  BY <1>2, <1>3, <1>4, <1>5, <1>6, StepCases

LEMMA Gate2Next == TypeOK /\ [Next]_vars => Gate2Step
<1> SUFFICES ASSUME TypeOK, [Next]_vars, phase = "planning", phase' = "executing",
                    NEW n \in Nodes \ (Specs \cup deleted'), status'[n] = "pending"
             PROVE  FALSE
  BY DEF Gate2Step
<1>1. LivePending \in SUBSET Nodes /\ Approve(LivePending)
  BY OpeningIsGate2, ApprovalRounds
<1>2. deleted' = deleted
  BY <1>1, ApproveTypes
<1>3. CASE n \in LivePending
  <2>1. status'[n] = ApprovedStatus(n)
    BY <1>1, <1>3, ApproveOutcome
  <2>2. QED
    BY <2>1 DEF ApprovedStatus
<1>4. CASE n \notin LivePending
  <2>1. status'[n] = status[n]
    BY <1>1, <1>4, ApproveOutcome
  <2>2. QED
    BY <1>2, <1>4, <2>1 DEF LivePending
<1>5. QED
  BY <1>3, <1>4

\* The project goes from planning to executing only with every live pending
\* task approved.
THEOREM Gate2IsAlways == Spec => Gate2IsComplete
<1>1. TypeOK /\ [Next]_vars => [Gate2Step]_vars
  BY Gate2Next
<1>2. QED
  BY <1>1, TypeCorrect, PTL DEF Spec, Gate2IsComplete, Gate2Step

RemovalStep == \A n \in deleted' \ deleted : hash[n] = NoHash

LEMMA RemovalNext == [Next]_vars => RemovalStep
<1> SUFFICES ASSUME [Next]_vars
             PROVE  RemovalStep
  OBVIOUS
<1>1. ASSUME NEW n \in Nodes, RemoveNode(n)
      PROVE  RemovalStep
  BY <1>1 DEF RemoveNode, RemovalStep
<1>2. CASE deleted' = deleted
  BY <1>2 DEF RemovalStep
<1>3. ASSUME NEW n \in Nodes, NEW c \in Contents, AddNode(n, c) \/ EditCriteria(n, c)
      PROVE  deleted' = deleted
  BY <1>3 DEF AddNode, EditCriteria
<1>4. ASSUME NEW n \in Nodes,
             \/ ApproveSpec(n) \/ ApproveNode(n) \/ EditNode(n) \/ HumanNote(n)
             \/ ApproveReview(n) \/ RejectReview(n)
             \/ BlockOnQuestion(n) \/ LeaseExpires(n)
      PROVE  deleted' = deleted
  BY <1>4 DEF ApproveSpec, ApproveNode, Approve, EditNode, HumanNote,
              ApproveReview, RejectReview, BlockOnQuestion, LeaseExpires
<1>5. ASSUME NEW n \in Nodes, NEW a \in Agents,
             Handoff(n, a) \/ StartCheck(n, a) \/ StartCommit(n, a) \/ StartEnds(n, a)
      PROVE  deleted' = deleted
  BY <1>5 DEF Handoff, StartCheck, StartCommit, StartEnds
<1>6. ASSUME NEW n \in Nodes, NEW a \in Agents, NEW e, Done(n, a, e) \/ Fail(n, a, e)
      PROVE  deleted' = deleted
  BY <1>6 DEF Done, Fail
<1>7. CASE ApproveGate2
  BY <1>7, <1>2 DEF ApproveGate2, Approve
<1>8. CASE Pause \/ Resume \/ ReconcileLeases \/ UNCHANGED vars
  BY <1>8, <1>2 DEF Pause, Resume, ReconcileLeases, vars
<1>9. QED
  BY <1>1, <1>2, <1>3, <1>4, <1>5, <1>6, <1>7, <1>8, StepCases

\* A removal takes no approved node along, however deep the tree under it.
THEOREM ApprovedSurvives == Spec => ApprovedWorkSurvives
<1>1. [Next]_vars => [RemovalStep]_vars
  BY RemovalNext
<1>2. QED
  BY <1>1, PTL DEF Spec, ApprovedWorkSurvives, RemovalStep

-----------------------------------------------------------------------------
(* The verbs implement LeaseLedger, step by step.                          *)

StageMap  == [n \in Nodes |-> Stage(n)]
HolderMap == [n \in Nodes |-> Holder(n)]

LedgerStep == [Ledger!Next]_<<StageMap, HolderMap>>

\* A step leaves every node but n alone.
OnlyTouches(n) ==
    \A m \in Nodes \ {n} : status'[m] = status[m] /\ owner'[m] = owner[m]

\* Such a step moves one item, or none if stage and holder of n stay.
LEMMA OneItemMoves ==
    ASSUME NEW n \in Nodes, OnlyTouches(n)
    PROVE  /\ Ledger!Move(n, StageMap'[n], HolderMap'[n])
           /\ StageMap'[n] = StageMap[n] /\ HolderMap'[n] = HolderMap[n] => LedgerStep
<1>1. \A m \in Nodes \ {n} : StageMap'[m] = StageMap[m] /\ HolderMap'[m] = HolderMap[m]
  BY DEF OnlyTouches, StageMap, HolderMap, Stage, Holder
<1>2. StageMap' = [StageMap EXCEPT ![n] = StageMap'[n]]
  BY <1>1 DEF StageMap
<1>3. HolderMap' = [HolderMap EXCEPT ![n] = HolderMap'[n]]
  BY <1>1 DEF HolderMap
<1>4. Ledger!Move(n, StageMap'[n], HolderMap'[n])
  BY <1>2, <1>3 DEF Ledger!Move, StageMap, HolderMap
<1>5. StageMap'[n] = StageMap[n] /\ HolderMap'[n] = HolderMap[n] =>
        UNCHANGED <<StageMap, HolderMap>>
  BY <1>1 DEF StageMap, HolderMap
<1>6. QED
  BY <1>4, <1>5 DEF LedgerStep

\* A step that leaves status and owner alone is a stutter of the ledger.
LEMMA Stutters ==
    ASSUME status' = status, owner' = owner
    PROVE  LedgerStep
BY DEF LedgerStep, StageMap, HolderMap, Stage, Holder

\* The moves of one item, by the stage it leaves and the stage it enters.
LEMMA ItemSteps ==
    ASSUME NEW n \in Nodes, OnlyTouches(n)
    PROVE  /\ StageMap[n] = "free" /\ StageMap'[n] = "held" /\ HolderMap'[n] \in Agents
                => LedgerStep
           /\ StageMap[n] \in {"held", "parked"} /\ StageMap'[n] = "held"
              /\ HolderMap'[n] \in Agents => LedgerStep
           /\ StageMap[n] \in {"held", "done"} /\ StageMap'[n] = "parked"
              /\ HolderMap'[n] = HolderMap[n] => LedgerStep
           /\ StageMap[n] = "held" /\ StageMap'[n] = "done" /\ HolderMap'[n] = HolderMap[n]
                => LedgerStep
           /\ StageMap[n] \in {"held", "parked"} /\ StageMap'[n] = "failed"
              /\ HolderMap'[n] = NoOwner => LedgerStep
           /\ StageMap[n] \in {"held", "parked"} /\ StageMap'[n] = "free"
              /\ HolderMap'[n] = NoOwner => LedgerStep
<1>1. Ledger!Move(n, StageMap'[n], HolderMap'[n])
  BY OneItemMoves
<1>2. ASSUME StageMap[n] = "free", StageMap'[n] = "held", HolderMap'[n] \in Agents
      PROVE  LedgerStep
  <2>1. Ledger!Claim(n, HolderMap'[n])
    BY <1>1, <1>2 DEF Ledger!Claim, StageMap
  <2>2. QED
    BY <1>2, <2>1 DEF LedgerStep, Ledger!Next
<1>3. ASSUME StageMap[n] \in {"held", "parked"}, StageMap'[n] = "held",
             HolderMap'[n] \in Agents
      PROVE  LedgerStep
  <2>1. Ledger!Transfer(n, HolderMap'[n])
    BY <1>1, <1>3 DEF Ledger!Transfer, StageMap
  <2>2. QED
    BY <1>3, <2>1 DEF LedgerStep, Ledger!Next
<1>4. ASSUME StageMap[n] \in {"held", "done"}, StageMap'[n] = "parked",
             HolderMap'[n] = HolderMap[n]
      PROVE  LedgerStep
  <2>1. Ledger!Park(n)
    BY <1>1, <1>4 DEF Ledger!Park, StageMap, HolderMap
  <2>2. QED
    BY <2>1 DEF LedgerStep, Ledger!Next
<1>5. ASSUME StageMap[n] = "held", StageMap'[n] = "done", HolderMap'[n] = HolderMap[n]
      PROVE  LedgerStep
  <2>1. Ledger!Finish(n)
    BY <1>1, <1>5 DEF Ledger!Finish, StageMap, HolderMap
  <2>2. QED
    BY <2>1 DEF LedgerStep, Ledger!Next
<1>6. ASSUME StageMap[n] \in {"held", "parked"}, StageMap'[n] = "failed",
             HolderMap'[n] = NoOwner
      PROVE  LedgerStep
  <2>1. Ledger!Abandon(n)
    BY <1>1, <1>6 DEF Ledger!Abandon, StageMap
  <2>2. QED
    BY <2>1 DEF LedgerStep, Ledger!Next
<1>7. ASSUME StageMap[n] \in {"held", "parked"}, StageMap'[n] = "free",
             HolderMap'[n] = NoOwner
      PROVE  LedgerStep
  <2>1. StageMap' = [i \in Nodes |-> IF i \in {n} THEN "free" ELSE StageMap[i]]
    BY <1>7 DEF OnlyTouches, StageMap, Stage
  <2>2. HolderMap' = [i \in Nodes |-> IF i \in {n} THEN NoOwner ELSE HolderMap[i]]
    BY <1>7 DEF OnlyTouches, HolderMap, Holder, Stage
  <2>3. Ledger!GiveBack({n})
    BY <1>7, <2>1, <2>2 DEF Ledger!GiveBack, StageMap, HolderMap
  <2>4. QED
    BY <2>3 DEF LedgerStep, Ledger!Next
<1>8. QED
  BY <1>2, <1>3, <1>4, <1>5, <1>6, <1>7

LEMMA LedgerInit == Init => Ledger!Init
BY DEF Init, Ledger!Init, Stage, Holder, Held

\* The stage and the holder a status and an owner stand for, before and after
\* a step.
LEMMA StageValues ==
    ASSUME NEW n \in Nodes
    PROVE  /\ status[n] \in {"absent", "pending", "ready"} /\ TypeOK
                => StageMap[n] = "free" /\ HolderMap[n] = NoOwner
           /\ status'[n] \in {"absent", "pending", "ready"}
                => StageMap'[n] = "free" /\ HolderMap'[n] = NoOwner
           /\ status[n] \in Held => StageMap[n] = "held" /\ HolderMap[n] = owner[n]
           /\ status'[n] \in Held => StageMap'[n] = "held" /\ HolderMap'[n] = owner'[n]
           /\ status[n] = "blocked" => StageMap[n] = "parked" /\ HolderMap[n] = owner[n]
           /\ status'[n] = "blocked" => StageMap'[n] = "parked" /\ HolderMap'[n] = owner'[n]
           /\ status[n] = "done" => StageMap[n] = "done" /\ HolderMap[n] = owner[n]
           /\ status'[n] = "done" => StageMap'[n] = "done" /\ HolderMap'[n] = owner'[n]
           /\ status'[n] = "failed" => StageMap'[n] = "failed" /\ HolderMap'[n] = NoOwner
BY DEF StageMap, HolderMap, Stage, Holder, Held

\* Approvals move no work: what they touch stays free, or stays held.
LEMMA ApproveStutters ==
    ASSUME TypeOK, NEW S \in SUBSET Nodes, Approve(S),
           \A n \in S : status[n] \in {"pending", "awaiting_approval"}
    PROVE  LedgerStep
<1>1. owner' = owner
  BY ApproveTypes DEF leaseVars
<1>2. ASSUME NEW n \in Nodes
      PROVE  StageMap'[n] = StageMap[n] /\ HolderMap'[n] = HolderMap[n]
  <2>1. CASE n \notin S
    <3>1. status'[n] = status[n]
      BY <2>1, ApproveOutcome
    <3>2. QED
      BY <1>1, <3>1 DEF StageMap, HolderMap, Stage, Holder
  <2>2. CASE n \in S
    <3>1. status'[n] = ApprovedStatus(n)
      BY <2>2, ApproveOutcome
    <3>2. QED
      BY <1>1, <2>2, <3>1
         DEF ApprovedStatus, StageMap, HolderMap, Stage, Holder, Held
  <2>3. QED
    BY <2>1, <2>2
<1>3. StageMap' = StageMap /\ HolderMap' = HolderMap
  BY <1>2 DEF StageMap, HolderMap
<1>4. QED
  BY <1>3 DEF LedgerStep

\* The sweep gives back everything it selects, at once.
LEMMA SweepGivesBack ==
    ASSUME TypeOK, ReconcileLeases
    PROVE  LedgerStep
<1>1. Lapsed \in SUBSET Nodes /\ \A n \in Lapsed : status[n] = "in_progress"
  BY DEF Lapsed
<1>2. \A n \in Nodes : /\ n \in Lapsed => status'[n] = "ready"
                       /\ n \notin Lapsed => /\ status'[n] = status[n]
                                            /\ owner'[n] = owner[n]
  BY DEF ReconcileLeases
<1>3. StageMap' = [n \in Nodes |-> IF n \in Lapsed THEN "free" ELSE StageMap[n]]
  BY <1>1, <1>2 DEF StageMap, Stage, Held
<1>4. HolderMap' = [n \in Nodes |-> IF n \in Lapsed THEN NoOwner ELSE HolderMap[n]]
  BY <1>1, <1>2 DEF HolderMap, Holder, Stage, Held
<1>5. \A n \in Lapsed : StageMap[n] = "held"
  BY <1>1 DEF StageMap, Stage, Held
<1>6. Ledger!GiveBack(Lapsed)
  BY <1>3, <1>4, <1>5 DEF Ledger!GiveBack, StageMap, HolderMap
<1>7. QED
  BY <1>1, <1>6 DEF LedgerStep, Ledger!Next

\* The verbs of one node, by how the ledger sees them.
LEMMA HumanSteps ==
    ASSUME TypeOK, NEW n \in Nodes
    PROVE  /\ ApproveSpec(n) => LedgerStep
           /\ ApproveReview(n) => LedgerStep
           /\ RejectReview(n) => LedgerStep
           /\ BlockOnQuestion(n) => LedgerStep
           /\ \A c \in Contents : AddNode(n, c) \/ EditCriteria(n, c) => LedgerStep
           /\ \A a \in Agents : Handoff(n, a) => LedgerStep
<1>1. ASSUME ApproveSpec(n)
      PROVE  LedgerStep
  <2>1. OnlyTouches(n) /\ status'[n] = "ready"
    BY <1>1 DEF ApproveSpec, MoveTo, OnlyTouches, leaseVars, TypeOK
  <2>2. status[n] \in {"pending", "blocked", "in_progress"}
    BY <1>1 DEF ApproveSpec, Legal, FreeEdges, OwnerEdges
  <2>3. StageMap'[n] = "free" /\ HolderMap'[n] = NoOwner
    BY <2>1, StageValues
  <2>4. CASE status[n] = "pending"
    BY <2>1, <2>3, <2>4, StageValues, OneItemMoves
  <2>5. CASE status[n] \in {"blocked", "in_progress"}
    <3>1. StageMap[n] \in {"held", "parked"}
      BY <2>5, StageValues DEF Held
    <3>2. QED
      BY <2>1, <2>3, <3>1, ItemSteps
  <2>6. QED
    BY <2>2, <2>4, <2>5
<1>2. ASSUME ApproveReview(n)
      PROVE  LedgerStep
  <2>1. /\ OnlyTouches(n) /\ status[n] = "review" /\ status'[n] = "done"
        /\ owner'[n] = owner[n]
    BY <1>2 DEF ApproveReview, MoveTo, OnlyTouches, TypeOK
  <2>2. StageMap[n] = "held" /\ StageMap'[n] = "done" /\ HolderMap'[n] = HolderMap[n]
    BY <2>1, StageValues DEF Held
  <2>3. QED
    BY <2>1, <2>2, ItemSteps
<1>3. ASSUME RejectReview(n)
      PROVE  LedgerStep
  <2>1. /\ OnlyTouches(n) /\ status[n] = "review" /\ status'[n] = "in_progress"
        /\ owner'[n] = owner[n]
    BY <1>3 DEF RejectReview, MoveTo, OnlyTouches, leaseVars, TypeOK
  <2>2. StageMap'[n] = StageMap[n] /\ HolderMap'[n] = HolderMap[n]
    BY <2>1, StageValues DEF Held
  <2>3. QED
    BY <2>1, <2>2, OneItemMoves
<1>4. ASSUME BlockOnQuestion(n)
      PROVE  LedgerStep
  <2>1. /\ OnlyTouches(n) /\ status'[n] = "blocked" /\ owner'[n] = owner[n]
    BY <1>4 DEF BlockOnQuestion, MoveTo, OnlyTouches, leaseVars, TypeOK
  <2>2. status[n] \in {"in_progress", "awaiting_approval", "done"}
    BY <1>4 DEF BlockOnQuestion, Legal, FreeEdges, OwnerEdges
  <2>3. /\ StageMap[n] \in {"held", "done"} /\ StageMap'[n] = "parked"
        /\ HolderMap'[n] = HolderMap[n]
    BY <2>1, <2>2, StageValues DEF Held
  <2>4. QED
    BY <2>1, <2>3, ItemSteps
<1>5. ASSUME NEW c \in Contents, AddNode(n, c)
      PROVE  LedgerStep
  <2>1. OnlyTouches(n) /\ status[n] = "absent" /\ status'[n] = "pending"
    BY <1>5 DEF AddNode, OnlyTouches, leaseVars, TypeOK
  <2>2. StageMap'[n] = StageMap[n] /\ HolderMap'[n] = HolderMap[n]
    BY <2>1, StageValues
  <2>3. QED
    BY <2>1, <2>2, OneItemMoves
<1>6. ASSUME NEW c \in Contents, EditCriteria(n, c)
      PROVE  LedgerStep
  <2>1. OnlyTouches(n) /\ owner'[n] = owner[n]
    BY <1>6 DEF EditCriteria, OnlyTouches, leaseVars, TypeOK
  <2>2. \/ status'[n] = status[n]
        \/ status[n] = "in_progress" /\ status'[n] = "awaiting_approval"
        \/ status[n] \in {"ready", "pending"} /\ status'[n] = "pending"
    BY <1>6 DEF EditCriteria, TypeOK
  <2>3. StageMap'[n] = StageMap[n] /\ HolderMap'[n] = HolderMap[n]
    BY <2>1, <2>2 DEF StageMap, HolderMap, Stage, Holder, Held
  <2>4. QED
    BY <2>1, <2>3, OneItemMoves
<1>7. ASSUME NEW a \in Agents, Handoff(n, a)
      PROVE  LedgerStep
  <2>1. /\ OnlyTouches(n) /\ status[n] \in {"in_progress", "blocked"}
        /\ status'[n] = "in_progress" /\ owner'[n] = a
    BY <1>7 DEF Handoff, MoveTo, GiveLease, OnlyTouches, TypeOK
  <2>2. /\ StageMap[n] \in {"held", "parked"} /\ StageMap'[n] = "held"
        /\ HolderMap'[n] \in Agents
    BY <2>1, StageValues DEF Held
  <2>3. QED
    BY <2>1, <2>2, ItemSteps
<1>8. QED
  BY <1>1, <1>2, <1>3, <1>4, <1>5, <1>6, <1>7

LEMMA AgentSteps ==
    ASSUME TypeOK, NEW n \in Nodes, NEW a \in Agents
    PROVE  /\ StartCommit(n, a) => LedgerStep
           /\ \A e \in {NoVersion, started[n].version} :
                 Done(n, a, e) \/ Fail(n, a, e) => LedgerStep
<1>1. ASSUME StartCommit(n, a)
      PROVE  LedgerStep
  <2>1. OnlyTouches(n) /\ status'[n] = "in_progress" /\ owner'[n] = a
    BY <1>1 DEF StartCommit, MoveTo, GiveLease, OnlyTouches, TypeOK
  <2>2. StageMap'[n] = "held" /\ HolderMap'[n] \in Agents
    BY <2>1, StageValues DEF Held
  <2>3. status[n] \in {"ready", "review", "awaiting_approval", "blocked"}
    BY <1>1 DEF StartCommit, Legal, FreeEdges, OwnerEdges
  <2>4. StageMap[n] \in {"free", "held", "parked"}
    BY <2>3, StageValues DEF Held
  <2>5. QED
    BY <2>1, <2>2, <2>4, ItemSteps
<1>2. ASSUME NEW e, Done(n, a, e)
      PROVE  LedgerStep
  <2>1. /\ OnlyTouches(n) /\ status[n] = "in_progress" /\ owner'[n] = owner[n]
        /\ status'[n] \in {"done", "review"}
    BY <1>2, DoneOutcome DEF OnlyTouches, TypeOK
  <2>2. CASE status'[n] = "review"
    <3>1. StageMap'[n] = StageMap[n] /\ HolderMap'[n] = HolderMap[n]
      BY <2>1, <2>2, StageValues DEF Held
    <3>2. QED
      BY <2>1, <3>1, OneItemMoves
  <2>3. CASE status'[n] = "done"
    <3>1. /\ StageMap[n] = "held" /\ StageMap'[n] = "done"
          /\ HolderMap'[n] = HolderMap[n]
      BY <2>1, <2>3, StageValues DEF Held
    <3>2. QED
      BY <2>1, <3>1, ItemSteps
  <2>4. QED
    BY <2>1, <2>2, <2>3
<1>3. ASSUME NEW e, Fail(n, a, e)
      PROVE  LedgerStep
  <2>1. OnlyTouches(n) /\ status'[n] = FailedStatus(n)
    BY <1>3 DEF Fail, MoveTo, DropLease, OnlyTouches, TypeOK
  <2>2. /\ status'[n] \in {"failed", "ready"}
        /\ \/ status[n] \in {"in_progress", "blocked"}
           \/ status[n] = "pending" /\ status'[n] = "ready"
    BY <1>3, <2>1 DEF Fail, FailedStatus, Legal, FreeEdges, OwnerEdges
  <2>3. StageMap'[n] \in {"failed", "free"} /\ HolderMap'[n] = NoOwner
    BY <2>2, StageValues
  <2>4. CASE status[n] \in {"in_progress", "blocked"}
    <3>1. StageMap[n] \in {"held", "parked"}
      BY <2>4, StageValues DEF Held
    <3>2. QED
      BY <2>1, <2>3, <3>1, ItemSteps
  <2>5. CASE status[n] = "pending" /\ status'[n] = "ready"
    BY <2>1, <2>5, StageValues, OneItemMoves
  <2>6. QED
    BY <2>2, <2>4, <2>5
<1>4. QED
  BY <1>1, <1>2, <1>3

LEMMA LedgerNext == TypeOK /\ [Next]_vars => LedgerStep
<1> SUFFICES ASSUME TypeOK, [Next]_vars
             PROVE  LedgerStep
  OBVIOUS
<1>1. CASE \E n \in Nodes, c \in Contents : AddNode(n, c) \/ EditCriteria(n, c)
  BY <1>1, HumanSteps
<1>2. ASSUME NEW n \in Nodes,
             \/ ApproveSpec(n) \/ ApproveReview(n) \/ RejectReview(n)
             \/ BlockOnQuestion(n)
      PROVE  LedgerStep
  BY <1>2, HumanSteps
<1>3. ASSUME NEW n \in Nodes, ApproveNode(n)
      PROVE  LedgerStep
  <2>1. /\ {n} \in SUBSET Nodes /\ Approve({n})
        /\ \A m \in {n} : status[m] \in {"pending", "awaiting_approval"}
    BY <1>3, ApprovalRounds DEF ApproveNode
  <2>2. QED
    BY <2>1, ApproveStutters
<1>4. ASSUME NEW n \in Nodes,
             EditNode(n) \/ HumanNote(n) \/ RemoveNode(n) \/ LeaseExpires(n)
      PROVE  LedgerStep
  BY <1>4, Stutters
     DEF EditNode, HumanNote, RemoveNode, LeaseExpires, leaseVars
<1>5. ASSUME NEW n \in Nodes, NEW a \in Agents,
             StartCheck(n, a) \/ StartEnds(n, a)
      PROVE  LedgerStep
  BY <1>5, Stutters DEF StartCheck, StartEnds, leaseVars
<1>6. ASSUME NEW n \in Nodes, NEW a \in Agents, Handoff(n, a) \/ StartCommit(n, a)
      PROVE  LedgerStep
  BY <1>6, HumanSteps, AgentSteps
<1>7. ASSUME NEW n \in Nodes, NEW a \in Agents,
             \E e \in {NoVersion, started[n].version} : Done(n, a, e) \/ Fail(n, a, e)
      PROVE  LedgerStep
  BY <1>7, AgentSteps
<1>8. CASE ApproveGate2
  <2>1. /\ LivePending \in SUBSET Nodes /\ Approve(LivePending)
        /\ \A m \in LivePending : status[m] \in {"pending", "awaiting_approval"}
    BY <1>8, ApprovalRounds DEF LivePending
  <2>2. QED
    BY <2>1, ApproveStutters
<1>9. CASE Pause \/ Resume \/ UNCHANGED vars
  BY <1>9, Stutters DEF Pause, Resume, leaseVars, vars
<1>10. CASE ReconcileLeases
  BY <1>10, SweepGivesBack
<1>11. QED
  BY <1>1, <1>2, <1>3, <1>4, <1>5, <1>6, <1>7, <1>8, <1>9, <1>10, StepCases

\* Every behaviour of the verbs is a behaviour of the ledger: work changes
\* hands only by way of free or by a hand-off, only held work is finished, and
\* a failed node is never taken up again.
THEOREM ImplementsLedger == Spec => LedgerSpec
<1>1. Init => Ledger!Init
  BY LedgerInit
<1>2. TypeOK /\ [Next]_vars => [Ledger!Next]_<<StageMap, HolderMap>>
  BY LedgerNext DEF LedgerStep
<1>3. QED
  BY <1>1, <1>2, TypeCorrect, PTL DEF Spec, LedgerSpec, Ledger!Spec, StageMap, HolderMap
=============================================================================
