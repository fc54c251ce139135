-------------------------------- MODULE Asks ---------------------------------
(***************************************************************************)
(* Questions of an agent to the human: core/asks.py, for one node and the  *)
(* agent that works on it, which waits for one question at a time.         *)
(*                                                                         *)
(* `wait` reads the question outside the transaction in which it applies   *)
(* the default or blocks the node, so the human's answer may come between. *)
(***************************************************************************)
EXTENDS Integers, FiniteSets

CONSTANTS
    Questions,
    NoQuestion,     \* the agent is not between the two halves of a wait
    MaxStatusMoves  \* bound on the changes of the node's status by others

ASSUME AsksAssumption == NoQuestion \notin Questions /\ MaxStatusMoves \in Nat

VARIABLES
    question,    \* rows of the table `questions`
    late,        \* those older than planning.ask_timeout_minutes
    told,        \* what the last wait for a question returned
    wait,        \* the question a wait has read as open, and what it will do
    nodeStatus,
    feedback,    \* the node's feedback notes, by the text they keep
    statusMoves

asksVars == <<question, late, told, wait, nodeStatus, feedback, statusMoves>>

Unasked == [status |-> "unasked", answer |-> "none", defaultOk |-> FALSE]
NoWait  == [question |-> NoQuestion, does |-> "nothing"]

\* Statuses with an edge to blocked in TRANSITIONS; the wait passes the owner.
Blockable == {"in_progress", "awaiting_approval", "done"}

-----------------------------------------------------------------------------
Ask(q, ok) ==
    /\ question[q] = Unasked
    /\ question' = [question EXCEPT ![q] =
                      [status |-> "open", answer |-> "none", defaultOk |-> ok]]
    /\ UNCHANGED <<late, told, wait, nodeStatus, feedback, statusMoves>>

\* The question is answered and the node's notes get the text, which are
\* deduplicated; a human's note bumps the node's version too,
\* which NodeLifecycle has.
AnswerIs(q, text) ==
    /\ question' = [question EXCEPT ![q].status = "answered", ![q].answer = text]
    /\ feedback' = feedback \cup {<<q, text>>}

\* Mutant of MayAnswer: a question that timed out is answered all the same.
MayAnswerLate(q) == question[q].status \in {"open", "timed_out"}

MayAnswer(q) == question[q].status = "open"

Answer(q) ==
    /\ MayAnswer(q)
    /\ AnswerIs(q, "human")
    /\ UNCHANGED <<late, told, wait, nodeStatus, statusMoves>>

TimePasses(q) ==
    /\ question[q].status # "unasked" /\ q \notin late
    /\ late' = late \cup {q}
    /\ UNCHANGED <<question, told, wait, nodeStatus, feedback, statusMoves>>

\* Outcomes after which a wait only reports.
Resolved == {"answered", "timed_out"}

\* The first half of wait: what the row says, if it is settled or young.
WaitReturns(q) ==
    /\ wait = NoWait
    /\ question[q].status \in Resolved \/ (question[q].status = "open" /\ q \notin late)
    /\ told' = [told EXCEPT ![q] = CASE question[q].status = "answered"  -> question[q].answer
                                     [] question[q].status = "timed_out" -> "blocked"
                                     [] OTHER                            -> "pending"]
    /\ UNCHANGED <<question, late, wait, nodeStatus, feedback, statusMoves>>

\* And otherwise what it will do, by its --default-ok or the question's.
WaitGoesOn(q, ok) ==
    /\ wait = NoWait
    /\ question[q].status \notin Resolved \cup {"unasked"} /\ q \in late
    /\ wait' = [question |-> q,
                does |-> IF ok \/ question[q].defaultOk THEN "default" ELSE "block"]
    /\ UNCHANGED <<question, late, told, nodeStatus, feedback, statusMoves>>

\* The second half, in its transaction: the row is not read again.
AppliesDefault ==
    LET q == wait.question IN
    /\ wait.does = "default"
    /\ AnswerIs(q, "default")
    /\ told' = [told EXCEPT ![q] = "default"]
    /\ wait' = NoWait
    /\ UNCHANGED <<late, nodeStatus, statusMoves>>

TimesOut ==
    LET q == wait.question IN
    /\ wait.does = "block" /\ nodeStatus \in Blockable
    /\ question' = [question EXCEPT ![q].status = "timed_out"]
    /\ nodeStatus' = "blocked"
    /\ told' = [told EXCEPT ![q] = "blocked"]
    /\ wait' = NoWait
    /\ UNCHANGED <<late, feedback, statusMoves>>

\* block refuses the transition, and the transaction is rolled back.
WaitRaises ==
    /\ wait.does = "block" /\ nodeStatus \notin Blockable
    /\ wait' = NoWait
    /\ UNCHANGED <<question, late, told, nodeStatus, feedback, statusMoves>>

\* The CLI is interrupted while it polls, or its process dies.
WaitDies ==
    /\ wait # NoWait
    /\ wait' = NoWait
    /\ UNCHANGED <<question, late, told, nodeStatus, feedback, statusMoves>>

\* The agent finishes, the human unblocks, the sweep takes the lease back.
StatusMoves(s) ==
    /\ statusMoves < MaxStatusMoves /\ s # nodeStatus
    /\ nodeStatus' = s /\ statusMoves' = statusMoves + 1
    /\ UNCHANGED <<question, late, told, wait, feedback>>

-----------------------------------------------------------------------------
AsksInit ==
    /\ question = [q \in Questions |-> Unasked]
    /\ late = {}
    /\ told = [q \in Questions |-> "pending"]
    /\ wait = NoWait
    /\ nodeStatus = "in_progress"
    /\ feedback = {}
    /\ statusMoves = 0

AsksNext ==
    \/ \E q \in Questions :
        \/ \E ok \in BOOLEAN : Ask(q, ok) \/ WaitGoesOn(q, ok)
        \/ Answer(q) \/ TimePasses(q) \/ WaitReturns(q)
    \/ AppliesDefault \/ TimesOut \/ WaitRaises \/ WaitDies
    \/ \E s \in {"ready", "in_progress", "done", "blocked"} : StatusMoves(s)

AsksSpec == AsksInit /\ [][AsksNext]_asksVars

-----------------------------------------------------------------------------
(* Properties.                                                             *)

\* What an agent was told by its wait, the question and the node's notes say
\* too, from then on: the human's answer that came while a wait applied the
\* default, or blocked the node, is not one the agent was told before, nor will
\* it be told another answer later.  (Two waits for a question at a time, the
\* agent's and one of the dashboard, would break it.)
ToldIsRecorded ==
    \A q \in Questions :
        /\ told[q] = "blocked" => question[q].status = "timed_out"
        /\ told[q] \in {"human", "default"} =>
               /\ question[q].status = "answered" /\ question[q].answer = told[q]
               /\ <<q, told[q]>> \in feedback
=============================================================================
