----------------------------- MODULE Questions -----------------------------
(***************************************************************************)
(* What a session asks its operator, and how an answer reaches it.         *)
(*                                                                         *)
(* Four questions share the columns of one row: the brief, before anything  *)
(* is spent; a sub-task's question, at which the loop has returned; and the *)
(* two for which the loop stays, polling the row: more time, more money.    *)
(* An operator answers by a command bound to the state that was reviewed;   *)
(* an agent may answer some of them by a tool call.  A call waits for a     *)
(* storage check between reading the row and claiming it, so what it read   *)
(* may be gone.  The active clock stops when a human is asked; it goes on   *)
(* in a write of its own before the status does, and a process may die in   *)
(* between.                                                                 *)
(*                                                                         *)
(* A sub-task's answer may amend the plan; what it then does to the         *)
(* sub-tasks is in SubTasks.                                                *)
(***************************************************************************)
EXTENDS Integers

CONSTANTS
    MaxAsks,       \* questions asked by the loop (a bound)
    MaxReceipts,   \* challenges issued to the operator (a bound)
    Pages,         \* pages of a review
    Ceiling,       \* budgets.session_hard_ceiling_usd
    Delegated      \* loop.clarification_auto_accept_delegated

ASSUME LimitAssumption ==
    /\ MaxAsks \in Nat /\ MaxReceipts \in Nat /\ Pages \in Nat \ {0}
    /\ Ceiling \in Nat \ {0} /\ Delegated \in BOOLEAN

VARIABLES
    status,     \* the statuses of a running loop are one: "working"
    question,   \* kind and id of clarification_subtask and clarification_id
    answer,     \* clarification_answer, whose it is and what it was given for
    proposal,   \* the revised brief stored with the pause, 0 for none
    budget,     \* budget_usd
    clock,      \* of active_segment_started_at and human_pause_started_at
    beat,       \* clarification_heartbeat_at is at most 20 s old
    amended,    \* task_contract_amendments.status, by clarification_id
    asks,
    loop,       \* the promise of this process, or what it is listening for;
                \* "down" when there is no process
    window,     \* a listener's waitUntilMs is ahead
    receipts,   \* human_answer_challenges
    calls       \* the answers whose storage check is awaited

row   == <<status, question, answer, proposal, budget>>
loops == <<asks, loop, window>>
vars  == <<row, clock, beat, amended, loops, receipts, calls>>

Callers    == {"human", "agent"}
Texts      == {"yes", "no", "abort", "fix", "exact"}
Extensions == {"time", "money"}
NoQuestion == [kind |-> "none", id |-> 0]
NoAnswer   == [by |-> "none", text |-> "none", to |-> NoQuestion]
Questions  == [kind : {"none", "brief", "task", "time", "money"}, id : 0..MaxAsks]
Closed     == {"done", "aborted"}

\* pendingAnswerState: what the operator reviews, and the hash stands for.
Shown  == [status |-> status, question |-> question, answer |-> answer,
           proposal |-> proposal, budget |-> budget, alive |-> beat]
NoCall == [on |-> FALSE, question |-> NoQuestion, text |-> "none", receipt |-> 0,
           resumed |-> FALSE]

Statuses == {"awaiting", "working"} \cup Closed
Answers  == [by : Callers \cup {"none"}, text : Texts \cup {"none"}, to : Questions]
States   == [status : Statuses, question : Questions, answer : Answers,
             proposal : 0..MaxReceipts, budget : Nat, alive : BOOLEAN]
Calls    == [on : BOOLEAN, question : Questions, text : Texts \cup {"none"},
             receipt : 0..MaxReceipts, resumed : BOOLEAN]

TypeOK ==
    /\ status \in Statuses /\ question \in Questions /\ answer \in Answers
    /\ proposal \in 0..MaxReceipts /\ budget \in Nat
    /\ clock \in {"running", "paused", "closed"} /\ beat \in BOOLEAN
    /\ amended \in [0..MaxAsks -> {"none", "pending", "active", "rejected"}]
    /\ asks \in 0..MaxAsks /\ loop \in {"none", "working", "down"} \cup Extensions /\ window \in BOOLEAN
    /\ \E n \in 0..MaxReceipts : DOMAIN receipts = 1..n
    /\ receipts \in [DOMAIN receipts -> [shown : States, read : 0..Pages, used : BOOLEAN]]
    /\ calls \in [Callers -> Calls]

\* startHarnessRun: a brief that needs no confirmation starts at once.
Init ==
    /\ status \in {"awaiting", "working"} /\ budget = 1 /\ proposal = 0
    /\ question = IF status = "awaiting" THEN [NoQuestion EXCEPT !.kind = "brief"] ELSE NoQuestion
    /\ answer = NoAnswer /\ clock = "closed" /\ beat = FALSE
    /\ amended = [i \in 0..MaxAsks |-> "none"] /\ asks = 0
    /\ loop = IF status = "awaiting" THEN "none" ELSE "working"
    /\ window = FALSE /\ receipts = <<>> /\ calls = [c \in Callers |-> NoCall]

-----------------------------------------------------------------------------
(* The loop asks                                                           *)

\* One transaction: the clock stops, and the row holds a fresh question.
Ask(kind) ==
    /\ loop = "working" /\ asks < MaxAsks
    /\ asks' = asks + 1 /\ question' = [kind |-> kind, id |-> asks + 1]
    /\ status' = "awaiting" /\ answer' = NoAnswer /\ clock' = "paused"
    /\ UNCHANGED <<proposal, budget, amended, receipts, calls>>

\* finaliseAwaitingClarification: the loop returns.
PauseForTask == Ask("task") /\ loop' = "none" /\ UNCHANGED <<beat, window>>

Listen(kind) == Ask(kind) /\ loop' = kind /\ window' = TRUE /\ beat' = TRUE

AskTime  == Listen("time")
AskMoney == Listen("money")

\* setStatus of a status the loop works in.
RunClock == clock' = "running"

\* clearPause and setStatus: the question goes, the answer stays in its column.
Leave ==
    /\ loop' = "working" /\ window' = FALSE /\ status' = "working" /\ RunClock
    /\ question' = NoQuestion /\ beat' = FALSE
    /\ UNCHANGED <<answer, proposal, amended, asks, receipts, calls>>

Listening == loop \in Extensions

\* A tick of the poll: the heartbeat is stamped, or the stamp fails.
Poll ==
    /\ Listening /\ window /\ answer = NoAnswer /\ beat' \in BOOLEAN
    /\ UNCHANGED <<row, clock, amended, loops, receipts, calls>>

WindowCloses ==
    /\ window /\ window' = FALSE
    /\ UNCHANGED <<row, clock, beat, amended, asks, loop, receipts, calls>>

\* A mutation: a listener whose stamp failed waits on.
GiveUpBeating == Listening /\ answer = NoAnswer /\ ~window /\ beat /\ Leave /\ UNCHANGED budget

GiveUp == Listening /\ answer = NoAnswer /\ ~window /\ Leave /\ UNCHANGED budget

\* parseTimeExtensionReply, parseBudgetExtensionReply.
Approves(text) == text = "yes"

\* A recorded answer is read at the next tick.
TakeAnswer ==
    /\ Listening /\ answer # NoAnswer /\ Leave
    /\ budget' = budget + (IF loop = "money" /\ Approves(answer.text) THEN 1 ELSE 0)

\* A reaction: abort leaves at once, the budget reaction stands for "yes".
TakeReaction ==
    /\ Listening /\ answer = NoAnswer /\ Leave
    /\ budget' \in {budget} \cup (IF loop = "money" THEN {budget + 1} ELSE {})

Finish ==
    /\ loop = "working" /\ loop' = "none" /\ status' = "done" /\ clock' = "closed"
    /\ UNCHANGED <<question, answer, proposal, budget, beat, amended, asks, window, receipts,
                   calls>>

\* resumeActiveDeadline, when run begins.
Began ==
    /\ loop = "working" /\ status = "working" /\ clock # "running" /\ RunClock
    /\ UNCHANGED <<row, beat, amended, loops, receipts, calls>>

\* Calls, listener and loop go with the process; the row and its heartbeat stay.
Dies == loop' = "down" /\ window' = FALSE /\ calls' = [c \in Callers |-> NoCall]

\* A process in which nothing is under way loses nothing.
Crash ==
    /\ status \notin Closed /\ loop # "down" /\ Dies
    /\ loop # "none" \/ \E c \in Callers : calls[c].on
    /\ UNCHANGED <<row, clock, beat, amended, asks, receipts>>

\* clearPause, the clock and the status are three writes: a listener that dies
\* after the first leaves a session that awaits, and asks nothing.
LeaveDies ==
    /\ Listening /\ Dies /\ question' = NoQuestion /\ beat' = FALSE
    /\ \/ status' = status /\ clock' \in {clock, "running"}
       \/ status' = "working" /\ RunClock
    /\ UNCHANGED <<answer, proposal, budget, amended, asks, receipts>>

\* recoverSessions: what was working is run again, what awaits a human waits.
Recover ==
    /\ loop = "down" /\ loop' = (IF status = "working" THEN "working" ELSE "none")
    /\ UNCHANGED <<row, clock, beat, amended, asks, window, receipts, calls>>

HeartbeatAges ==
    /\ beat /\ ~Listening /\ beat' = FALSE
    /\ UNCHANGED <<row, clock, amended, loops, receipts, calls>>

-----------------------------------------------------------------------------
(* The operator's command                                                  *)

\* issueHumanAnswer: a one-use challenge for the state as it is.
Issue ==
    \E r \in 1..MaxReceipts :
        /\ r \notin DOMAIN receipts /\ \A i \in 1..(r - 1) : i \in DOMAIN receipts
        /\ status = "awaiting" /\ loop # "down"
        /\ receipts' = [i \in 1..r |-> IF i = r THEN [shown |-> Shown, read |-> 1, used |-> FALSE]
                                       ELSE receipts[i]]
        /\ UNCHANGED <<row, clock, beat, amended, loops, calls>>

\* A receipt that still stands: unused, in time, of the state as it is now.
Standing(r) == r \in DOMAIN receipts /\ ~receipts[r].used /\ receipts[r].shown = Shown

\* "review n": the pages in order.
Review ==
    \E r \in DOMAIN receipts :
        /\ Standing(r) /\ receipts[r].read < Pages /\ loop # "down"
        /\ receipts' = [receipts EXCEPT ![r].read = @ + 1]
        /\ UNCHANGED <<row, clock, beat, amended, loops, calls>>

Expire ==
    \E r \in DOMAIN receipts :
        /\ ~receipts[r].used /\ receipts' = [receipts EXCEPT ![r].used = TRUE]
        /\ UNCHANGED <<row, clock, beat, amended, loops, calls>>

\* Claimed once, when every page was read.
Consumed(r) ==
    /\ Standing(r) /\ receipts[r].read = Pages
    /\ receipts' = [receipts EXCEPT ![r].used = TRUE]

-----------------------------------------------------------------------------
(* harness_answer, up to its await                                         *)

\* An amendment already made of this question: the same answer resumes a
\* pending one, everything else is told so and changes nothing.
Unanswered(text) ==
    \/ amended[question.id] = "none"
    \/ (amended[question.id] = "pending" /\ text = "fix")

\* What a text is told apart for: all of them by a brief; "yes" stands for all
\* that resumes a sub-task, and where the question is gone nothing amends it.
Readings ==
    CASE question.kind = "brief"      -> Texts
      [] question.kind \in Extensions -> {"yes", "no"}
      [] question.kind = "task"       -> {"yes", "abort", "fix"}
      [] OTHER                        -> {"yes", "abort"}

\* A mutation: an agent may answer whatever is delegated to it, the brief too.
MayAnswerAnything(c, r, text) ==
    /\ status = "awaiting" /\ loop # "down" /\ text \in Readings /\ Unanswered(text)
    /\ IF c = "human" THEN Consumed(r) ELSE Delegated /\ r = 0 /\ UNCHANGED receipts

\* The operator by command, or an agent where the deployment delegated it:
\* never the brief, never money.
MayAnswer(c, r, text) ==
    /\ status = "awaiting" /\ loop # "down" /\ text \in Readings /\ Unanswered(text)
    /\ IF c = "human" THEN Consumed(r)
       ELSE Delegated /\ question.kind \notin {"brief", "money"} /\ r = 0 /\ UNCHANGED receipts

Claimed(c, text, to) == [by |-> c, text |-> text, to |-> to]

\* The run that asked is gone: what it had is closed as it stands.
ListenerLost ==
    /\ status' \in Closed /\ clock' = "closed" /\ beat' = FALSE
    /\ question' = [question EXCEPT !.kind = "none"]

\* A question whose loop still polls takes an answer without an await, and
\* a second one over the first.
AnswerExtension ==
    \E c \in Callers, r \in 0..MaxReceipts, text \in Texts :
        /\ question.kind \in Extensions /\ MayAnswer(c, r, text)
        /\ answer' = Claimed(c, text, question)
        /\ IF beat THEN UNCHANGED <<status, clock, beat, question>> ELSE ListenerLost
        /\ UNCHANGED <<proposal, budget, amended, loops, calls>>

\* Recorded for a listener that is gone, and the process dies on the way out.
ExtensionDies ==
    \E c \in Callers, r \in 0..MaxReceipts, text \in Texts :
        /\ question.kind \in Extensions /\ MayAnswer(c, r, text) /\ ~beat
        /\ answer' = Claimed(c, text, question) /\ Dies /\ clock' \in {clock, "closed"}
        /\ UNCHANGED <<status, question, proposal, budget, beat, amended, asks>>

\* The others read the row and wait for the storage check.
BeginAnswer ==
    \E c \in Callers, r \in 0..MaxReceipts, text \in Texts :
        /\ question.kind \notin Extensions /\ MayAnswer(c, r, text)
        /\ ~calls[c].on
        /\ calls' = [calls EXCEPT ![c] = [on |-> TRUE, question |-> question, text |-> text,
                                          receipt |-> r,
                                          resumed |-> amended[question.id] = "pending"]]
        /\ UNCHANGED <<row, clock, beat, amended, loops>>

-----------------------------------------------------------------------------
(* harness_answer, after its await                                         *)

\* A mutation: the state the operator reviewed is not compared again.
ReviewStandsUnseen(c) == calls[c].on

\* The operator's answer goes no further if the state moved meanwhile.
ReviewStands(c) ==
    calls[c].on /\ (c = "human" => receipts[calls[c].receipt].shown = Shown)

Ended(c) == calls' = [calls EXCEPT ![c] = NoCall]

\* The storage is unrecoverable, the review is stale, or it was answered.
RefuseAnswer ==
    \E c \in Callers :
        /\ calls[c].on /\ Ended(c)
        /\ UNCHANGED <<row, clock, beat, amended, loops, receipts>>

\* The first to write an unanswered pause; a pending amendment claimed it before.
Claims(c) ==
    ReviewStands(c) /\ (calls[c].resumed \/ (status = "awaiting" /\ answer = NoAnswer))

Written(c) ==
    IF calls[c].resumed THEN answer ELSE Claimed(c, calls[c].text, calls[c].question)

\* A claim of a row read as kind, answered with one of texts.
ClaimOf(c, kind, texts) ==
    Claims(c) /\ calls[c].question.kind = kind /\ calls[c].text \in texts

\* What is written of the clock before the status: closed by an abort, and set
\* going by every other answer but that to a brief.
ClockFirst(q, text) ==
    CASE text = "abort" -> {"closed"} [] text # "abort" /\ q.kind = "brief" -> {}
      [] OTHER -> {"running"}

\* "fix" of a paused sub-task records its amendment with the claim.
AnswerDies ==
    \E c \in Callers :
        /\ Claims(c) /\ answer' = Written(c) /\ Dies
        /\ clock' \in {clock} \cup ClockFirst(calls[c].question, calls[c].text)
        /\ amended' \in {amended} \cup
              (IF calls[c].question.kind = "task" /\ calls[c].text = "fix"
               THEN {[amended EXCEPT ![calls[c].question.id] = "pending"]} ELSE {})
        /\ UNCHANGED <<status, question, proposal, budget, beat, asks, receipts>>

AnswerAbort ==
    \E c \in Callers, kind \in {"brief", "task", "none"} :
        /\ ClaimOf(c, kind, {"abort"}) /\ Ended(c)
        /\ status' = "aborted" /\ clock' = "closed" /\ answer' = Written(c)
        /\ UNCHANGED <<question, proposal, budget, beat, amended, loops, receipts>>

\* loop.run: a session whose loop is here is not run twice.
Run == loop' = (IF loop = "none" THEN "working" ELSE loop)

\* accept, skip and plain text.
Resumes(c) == \E kind \in {"task", "none"} : ClaimOf(c, kind, {"yes"})

AnswerTask ==
    \E c \in Callers :
        /\ Resumes(c) /\ Ended(c)
        /\ status' = "working" /\ RunClock /\ Run /\ answer' = Written(c)
        /\ UNCHANGED <<question, proposal, budget, beat, amended, asks, window, receipts>>

\* A mutation: the claim is released and the clock runs on.
ReleasedRunning == answer' = NoAnswer /\ RunClock

\* releaseClaim: nothing committed to accept, or a plan that cannot be stored.
Released == answer' = NoAnswer /\ clock' = "paused"

ReleaseTask ==
    \E c \in Callers :
        /\ Resumes(c) /\ Released /\ Ended(c)
        /\ UNCHANGED <<status, question, proposal, budget, beat, amended, loops, receipts>>

\* No amendment can be built: the pause asks again under a new id.
AmendmentRefused ==
    \E c \in Callers :
        /\ ClaimOf(c, "task", {"fix"}) /\ ~calls[c].resumed /\ asks < MaxAsks
        /\ asks' = asks + 1 /\ question' = [kind |-> "task", id |-> asks + 1]
        /\ Released /\ Ended(c)
        /\ UNCHANGED <<status, proposal, budget, beat, amended, loop, window, receipts>>

\* It still names a path the policy refuses, or it cannot be stored.
AmendmentFails ==
    \E c \in Callers, left \in {"rejected", "pending"} :
        /\ ClaimOf(c, "task", {"fix"}) /\ Released /\ Ended(c)
        /\ amended' = [amended EXCEPT ![calls[c].question.id] = left]
        /\ UNCHANGED <<status, question, proposal, budget, beat, loops, receipts>>

\* Activated in a transaction that compares the status and the question's id.
AmendmentActivated ==
    \E c \in Callers :
        /\ ClaimOf(c, "task", {"fix"}) /\ status = "awaiting"
        /\ question.id = calls[c].question.id
        /\ amended' = [amended EXCEPT ![calls[c].question.id] = "active"]
        /\ status' = "working" /\ RunClock /\ Run /\ answer' = Written(c) /\ Ended(c)
        /\ UNCHANGED <<question, proposal, budget, beat, asks, window, receipts>>

\* keepPaused: a hold, an ambiguous limit, a correction that was not staged, a
\* plain "confirm" of a revised brief.
KeepPaused ==
    \E c \in Callers :
        /\ ClaimOf(c, "brief", Texts \ {"abort"}) /\ Ended(c) /\ answer' = NoAnswer
        /\ UNCHANGED <<status, question, proposal, budget, clock, beat, amended, loops, receipts>>

\* "revise brief": the proposal is stored under a nonce of its own.
StageProposal ==
    \E c \in Callers :
        /\ ClaimOf(c, "brief", {"fix"}) /\ Ended(c)
        /\ proposal' = calls[c].receipt /\ answer' = NoAnswer
        /\ UNCHANGED <<status, question, budget, clock, beat, amended, loops, receipts>>

\* The reply that approves: plain for the brief, by its hash for a proposal.
Confirms(text) == text = (IF proposal = 0 THEN "yes" ELSE "exact")

\* Brief, limits and status in one savepoint, the budget under the ceiling.
ConfirmBrief ==
    \E c \in Callers, wanted \in 1..(Ceiling + 1) :
        /\ ClaimOf(c, "brief", {"yes", "exact"}) /\ Confirms(calls[c].text)
        /\ question.kind = "brief" /\ Ended(c)
        /\ status' = "working" /\ question' = NoQuestion /\ proposal' = 0 /\ Run
        /\ budget' = (IF wanted > Ceiling THEN Ceiling ELSE wanted) /\ answer' = Written(c)
        /\ UNCHANGED <<clock, beat, amended, asks, window, receipts>>

-----------------------------------------------------------------------------
Asking    == PauseForTask \/ AskTime \/ AskMoney \/ Poll \/ WindowCloses \/ GiveUp
             \/ TakeAnswer \/ TakeReaction \/ Finish \/ Began
Process   == Crash \/ LeaveDies \/ Recover \/ HeartbeatAges
Command   == Issue \/ Review \/ Expire
Answering == AnswerExtension \/ ExtensionDies \/ BeginAnswer \/ RefuseAnswer \/ AnswerDies
             \/ AnswerAbort \/ AnswerTask \/ ReleaseTask \/ AmendmentRefused \/ AmendmentFails
             \/ AmendmentActivated \/ KeepPaused \/ StageProposal \/ ConfirmBrief

Next == Asking \/ Process \/ Command \/ Answering

Spec == Init /\ [][Next]_vars

\* The listener's timer and poll are the process's own; nothing is asked of the
\* operator, of an agent or of a restart.
Listener == WindowCloses \/ GiveUp \/ TakeAnswer
Fair     == Spec /\ WF_vars(Listener)

-----------------------------------------------------------------------------
(* Properties                                                              *)

\* A human is waited for with the active clock stopped: no answer that was
\* refused, released or staged, and no question that replaces another, sets it
\* going.  Only a process that dies between the clock and the status does, and
\* then the wait is charged as active time.
ClockStopsForHumans ==
    [][status' = "awaiting" /\ clock' = "running"
       => loop' = "down" \/ (status = "awaiting" /\ clock = "running" /\ question' = question)]_vars

\* The operator's recorded answer stands on the question the operator reviewed.
OperatorAnswersWhatWasRead ==
    status = "awaiting" /\ question.kind # "none" /\ answer.by = "human"
    => answer.to = question

\* One answer to a sub-task's question: another never takes its place.
ClaimedOnce ==
    [][question.kind = "task" /\ question' = question /\ answer # NoAnswer
       => answer' \in {answer, NoAnswer}]_vars

\* A question the loop waits for ends, answered or not, within its window.
ListeningEnds == Listening ~> ~Listening

\* A brief is started at the text and the limits its operator reviewed: nobody
\* else starts it, and nothing moved between the review and the start.
BriefIsTheOperators ==
    [][question.kind = "brief" /\ status' = "working"
       => /\ answer'.by = "human"
          /\ \E r \in DOMAIN receipts : receipts[r].used /\ receipts[r].read = Pages
                /\ receipts[r].shown = Shown]_vars

-----------------------------------------------------------------------------
(* What docs and comments claim, and TLC refutes (README, section 14)      *)

\* Money is raised by the operator, never by an answer of an agent.
MoneyIsHuman == [][budget' > budget => answer.by # "agent"]_vars

\* Time that is spent waiting for a human is not charged as active time.
WaitIsFree == status = "awaiting" => clock # "running"

\* A session that awaits a human has something to be answered.
AwaitsAnAnswer == status = "awaiting" /\ answer # NoAnswer => question.kind # "none"

\* A sub-task's question whose claim was released can still be answered.
PauseAnswerable ==
    (status = "awaiting" /\ question.kind = "task" /\ answer = NoAnswer)
    => \E text \in Texts : Unanswered(text)
=============================================================================
