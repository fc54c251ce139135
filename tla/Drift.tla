-------------------------------- MODULE Drift --------------------------------
(***************************************************************************)
(* Structure drift: core/drift.py for one component and its anchor file.   *)
(*                                                                         *)
(* The drain links a commit to its node and, in a later transaction, marks *)
(* what it changed as stale; a drain that died starts again further back.  *)
(* A review that is approved verifies at the node's last commit, a close   *)
(* at HEAD: both hash the anchors in git before they open the transaction  *)
(* that writes them.                                                       *)
(***************************************************************************)
EXTENDS Integers, Sequences, FiniteSetsExt

CONSTANTS
    Authors,    \* nodes that commit
    Contents,   \* what the file may hold
    MaxHistory, \* bound on the commits
    MaxRewinds  \* bound on the drains that start again further back

ASSUME DriftAssumption ==
    Contents # {} /\ Contents \subseteq Nat \ {0}
    /\ MaxHistory \in Nat \ {0} /\ MaxRewinds \in Nat

VARIABLES
    history,   \* commits: how they change the file, its path and content then
    linked,    \* commits linked to their nodes in this pass of the drain
    drained,   \* those whose components were marked in this pass
    everLinked,
    row,       \* the components row, one anchor
    verifier,  \* the review and the close that are verifying
    rewinds,
    masked     \* history: a verification wrote over what a later commit left

driftVars == <<history, linked, drained, everLinked, row, verifier, rewinds, masked>>

Unanchored == [status |-> "none", path |-> 0, hash |-> 0, verified |-> 0]
Unoccupied == [at |-> "idle", path |-> 0, hash |-> 0, sha |-> 0]

HeadSha == Len(history)
Missing == 0

\* blob_hash of the file at a commit.
BlobHash(sha, path) ==
    IF history[sha].path = path THEN history[sha].content ELSE Missing

-----------------------------------------------------------------------------
(* Commits, and their lines in the spool.                                  *)

Committed(commit) ==
    /\ HeadSha < MaxHistory
    /\ history' = Append(history, commit)
    /\ UNCHANGED <<linked, drained, everLinked, row, verifier, rewinds, masked>>

CommitEdits(n, content) ==
    /\ content # history[HeadSha].content
    /\ Committed([by |-> n, renames |-> FALSE, path |-> history[HeadSha].path, content |-> content])

\* git detects a rename of a file that was edited, too.
CommitRenames(n, content) ==
    Committed([by |-> n, renames |-> TRUE, path |-> history[HeadSha].path + 1, content |-> content])

\* The transaction of handle_post_commit.
LinksCommit ==
    /\ linked = drained /\ linked < HeadSha
    /\ linked' = linked + 1
    /\ everLinked' = IF linked' > everLinked THEN linked' ELSE everLinked
    /\ UNCHANGED <<history, drained, row, verifier, rewinds, masked>>

\* A drain died: its lines are processed again.
Rewinds(to) ==
    /\ rewinds < MaxRewinds
    /\ to < drained
    /\ linked' = to /\ drained' = to
    /\ rewinds' = rewinds + 1
    /\ UNCHANGED <<history, everLinked, row, verifier, masked>>

Renamed(i) == history[i].renames /\ row.path = history[i - 1].path

\* Mutant of MarkedFor: a rename keeps the hash of the old path.
MarkedKeepingHash(i) ==
    IF row.status = "none" THEN row
    ELSE IF Renamed(i) THEN [row EXCEPT !.path = history[i].path]
    ELSE IF row.path = history[i].path /\ BlobHash(i, row.path) # row.hash
         THEN [row EXCEPT !.hash = BlobHash(i, row.path), !.status = "stale"]
    ELSE row

\* The row after mark_stale_for_commit: a rename takes the anchor along, with
\* the content the commit gave it; other content is stale.
MarkedFor(i) ==
    IF row.status = "none" THEN row
    ELSE IF Renamed(i)
         THEN [row EXCEPT !.path = history[i].path, !.hash = history[i].content]
    ELSE IF row.path = history[i].path /\ BlobHash(i, row.path) # row.hash
         THEN [row EXCEPT !.hash = BlobHash(i, row.path), !.status = "stale"]
    ELSE row

MarksStaleForCommit ==
    /\ drained < linked
    /\ drained' = linked
    /\ row' = MarkedFor(linked)
    /\ UNCHANGED <<history, linked, everLinked, verifier, rewinds, masked>>

-----------------------------------------------------------------------------
(* Verification.                                                           *)

\* The close of a project that touched a file nothing anchors.
CreatesAnchored ==
    /\ row.status = "none"
    /\ row' = [status |-> "current", path |-> history[HeadSha].path,
               hash |-> history[HeadSha].content, verified |-> HeadSha]
    /\ masked' = FALSE
    /\ UNCHANGED <<history, linked, drained, everLinked, verifier, rewinds>>

\* reverify_component, before its transaction.
HashesAnchors(v, sha) ==
    /\ row.status = "stale"
    /\ verifier[v].at = "idle"
    /\ verifier' = [verifier EXCEPT ![v] =
           [at |-> "hashed", path |-> row.path, hash |-> BlobHash(sha, row.path), sha |-> sha]]
    /\ UNCHANGED <<history, linked, drained, everLinked, row, rewinds, masked>>

\* Commits of a node, by the rows of node_commits.
CommitsOf(n) == {i \in 1 .. everLinked : history[i].by = n}

ReviewHashes(n) == CommitsOf(n) # {} /\ HashesAnchors("review", Max(CommitsOf(n)))
CloseHashes == HashesAnchors("close", HeadSha)

\* Mutant of Verified: the hash that was read, the commit that is HEAD now.
VerifiedAtHead(v) == [status |-> "current", path |-> v.path, hash |-> v.hash, verified |-> HeadSha]

Verified(v) == [status |-> "current", path |-> v.path, hash |-> v.hash, verified |-> v.sha]

WritesVerified(v) ==
    /\ verifier[v].at = "hashed"
    /\ row' = Verified(verifier[v])
    /\ masked' = (\E i \in verifier[v].sha + 1 .. everLinked : history[i].content # verifier[v].hash)
    /\ verifier' = [verifier EXCEPT ![v] = Unoccupied]
    /\ UNCHANGED <<history, linked, drained, everLinked, rewinds>>

-----------------------------------------------------------------------------
DriftInit ==
    /\ \E n \in Authors, c \in Contents :
           history = <<[by |-> n, renames |-> FALSE, path |-> 1, content |-> c]>>
    /\ linked = 1 /\ drained = 1 /\ everLinked = 1
    /\ row = Unanchored
    /\ verifier = [v \in {"review", "close"} |-> Unoccupied]
    /\ rewinds = 0 /\ masked = FALSE

DriftNext ==
    \/ \E n \in Authors, c \in Contents : CommitEdits(n, c) \/ CommitRenames(n, c)
    \/ LinksCommit \/ MarksStaleForCommit
    \/ \E to \in 0 .. MaxHistory : Rewinds(to)
    \/ CreatesAnchored
    \/ \E n \in Authors : ReviewHashes(n)
    \/ CloseHashes
    \/ \E v \in {"review", "close"} : WritesVerified(v)

DriftSpec == DriftInit /\ [][DriftNext]_driftVars

-----------------------------------------------------------------------------
(* Properties.                                                             *)

Moved == \E i \in DOMAIN history : history[i].renames

\* What a component that says current hashes is what its file held at the commit
\* it says it was verified at, whatever was committed, drained again or verified
\* meanwhile; a file that was renamed is excepted, for the rename takes over the
\* content of a commit nobody verified.
VerifiedIsAnchored ==
    row.status = "current" /\ ~Moved => row.hash = history[row.verified].content

\* When the drain has caught up, a component that says current holds what the
\* file holds, unless a verification wrote over what a later commit left:
\* reviews verify at the node's last commit, which is not the file's.
CurrentIsCurrent ==
    /\ row.status = "current" /\ row.path = history[HeadSha].path
    /\ drained = HeadSha /\ ~masked
    => row.hash = history[HeadSha].content
=============================================================================
