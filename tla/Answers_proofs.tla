---------------------------- MODULE Answers_proofs ----------------------------
(***************************************************************************)
(* What a session asks and what an answer does to it: Questions for any    *)
(* number of questions, challenges and pages, then Contracts for any plan, *)
(* cycles and runs.                                                        *)
(*                                                                         *)
(* Questions.  A call of the operator names the challenge it used, and     *)
(* what that challenge shows is what the call answers: this is what        *)
(* survives the storage check in between, and why an answer lands on the   *)
(* question that was read.                                                 *)
(*                                                                         *)
(* Contracts.  Each step of what is done, retried, corrected, rescued,     *)
(* accepted or continued leaves every sub-task behind the driver with the  *)
(* artifacts it declares, under names that are recognised from the names   *)
(* it declares them by (GoodInv), and every path that a human accepted     *)
(* away out of what a later question can name (SettledInv).                *)
(***************************************************************************)
EXTENDS Questions, Contracts, FiniteSetTheorems, WellFoundedInduction, TLAPS

\* An operator's call in progress has used up a challenge it had read to the
\* end, and answers the question which that challenge shows.
ReviewInv ==
    calls["human"].on =>
        LET r == calls["human"].receipt
        IN /\ r \in DOMAIN receipts /\ receipts[r].used /\ receipts[r].read = Pages
           /\ receipts[r].shown.question = calls["human"].question

\* While the brief is open nothing has begun, and only the operator answers it.
BriefInv ==
    question.kind = "brief" =>
        /\ status # "working" /\ loop \in {"none", "down"}
        /\ question.id = 0 /\ amended[0] # "pending"
        /\ ~calls["agent"].on
        /\ calls["human"].on => calls["human"].question.kind = "brief" /\ ~calls["human"].resumed

IInv == TypeOK /\ ReviewInv /\ BriefInv /\ OperatorAnswersWhatWasRead

-----------------------------------------------------------------------------
(* Types                                                                    *)

LEMMA Constants ==
    NoQuestion \in Questions /\ NoCall \in Calls /\ NoAnswer \in Answers /\ 1 \in 0..Pages
  <1>1. NoQuestion \in Questions
    BY LimitAssumption DEF NoQuestion, Questions
  <1>2. NoCall \in Calls /\ NoAnswer \in Answers /\ 1 \in 0..Pages
    BY <1>1, LimitAssumption DEF NoCall, Calls, NoAnswer, Answers
  <1> QED
    BY <1>1, <1>2

\* Nobody is answering any more: a call that ends, or all of them in a crash.
LEMMA EndedTyped ==
    ASSUME TypeOK, NEW c \in Callers,
           Ended(c) \/ calls' = [d \in Callers |-> NoCall] \/ UNCHANGED calls
    PROVE  /\ calls' \in [Callers -> Calls]
           /\ \A d \in Callers : calls'[d].on => calls'[d] = calls[d]
  <1>1. NoCall \in Calls /\ ~NoCall.on
    BY Constants DEF NoCall
  <1> QED
    BY <1>1 DEF TypeOK, Ended

LEMMA ShownTyped == TypeOK => Shown \in States
  BY DEF TypeOK, Shown, States

\* Challenges are issued one after another, read on, and used up; what one
\* shows never changes, nor does one that was used.
LEMMA ReceiptsKeep ==
    ASSUME TypeOK,
           \/ Issue \/ Review \/ Expire \/ UNCHANGED receipts
           \/ \E r \in 0..MaxReceipts : Consumed(r)
    PROVE  /\ \E n \in 0..MaxReceipts : DOMAIN receipts' = 1..n
           /\ receipts' \in [DOMAIN receipts' -> [shown : States, read : 0..Pages, used : BOOLEAN]]
           /\ \A r \in DOMAIN receipts :
                 /\ r \in DOMAIN receipts' /\ receipts'[r].shown = receipts[r].shown
                 /\ receipts[r].used => receipts'[r] = receipts[r]
  <1> DEFINE Receipt == [shown : States, read : 0..Pages, used : BOOLEAN]
  <1>0. \A r \in DOMAIN receipts : receipts[r] \in Receipt
    BY DEF TypeOK
  <1>1. CASE Issue
    <2>1. PICK r \in 1..MaxReceipts :
            /\ r \notin DOMAIN receipts /\ \A i \in 1..(r - 1) : i \in DOMAIN receipts
            /\ receipts' = [i \in 1..r |-> IF i = r THEN [shown |-> Shown, read |-> 1, used |-> FALSE]
                                           ELSE receipts[i]]
      BY <1>1 DEF Issue
    <2>2. [shown |-> Shown, read |-> 1, used |-> FALSE] \in Receipt
      BY Constants, ShownTyped
    <2>3. \A i \in 1..r : i # r => i \in DOMAIN receipts
      BY <2>1, LimitAssumption
    <2>4. \A i \in DOMAIN receipts' : receipts'[i] \in Receipt
      BY <1>0, <2>1, <2>2, <2>3
    <2>5. DOMAIN receipts' = 1..r /\ r \in 0..MaxReceipts
      BY <2>1, LimitAssumption
    <2>6. \A i \in DOMAIN receipts : i \in 1..r /\ i # r
      <3>1. PICK n \in 0..MaxReceipts : DOMAIN receipts = 1..n
        BY DEF TypeOK
      <3> QED
        BY <2>1, <3>1, LimitAssumption
    <2> QED
      BY <2>1, <2>4, <2>5, <2>6
  <1>2. ASSUME NEW r \in DOMAIN receipts, ~receipts[r].used,
               \/ receipts' = [receipts EXCEPT ![r].used = TRUE]
               \/ receipts' = [receipts EXCEPT ![r].read = @ + 1] /\ receipts[r].read < Pages
        PROVE  /\ DOMAIN receipts' = DOMAIN receipts
               /\ \A i \in DOMAIN receipts :
                     /\ receipts'[i] \in Receipt /\ receipts'[i].shown = receipts[i].shown
                     /\ receipts[i].used => receipts'[i] = receipts[i]
    <2>1. receipts[r] \in Receipt
      BY <1>0
    <2>2. PICK new \in Receipt :
            receipts' = [receipts EXCEPT ![r] = new] /\ new.shown = receipts[r].shown
      <3>1. CASE receipts' = [receipts EXCEPT ![r].used = TRUE]
        <4>1. [receipts[r] EXCEPT !.used = TRUE] \in Receipt
          BY <2>1
        <4> QED
          BY <2>1, <3>1, <4>1
      <3>2. CASE receipts' = [receipts EXCEPT ![r].read = @ + 1] /\ receipts[r].read < Pages
        <4>1. [receipts[r] EXCEPT !.read = @ + 1] \in Receipt
          BY <2>1, <3>2, LimitAssumption
        <4> QED
          BY <2>1, <3>2, <4>1
      <3> QED
        BY <1>2, <3>1, <3>2
    <2> QED
      BY <1>0, <1>2, <2>2
  <1>3. CASE Review \/ Expire \/ (\E r \in 0..MaxReceipts : Consumed(r))
    <2>1. PICK r \in DOMAIN receipts :
            /\ ~receipts[r].used
            /\ \/ receipts' = [receipts EXCEPT ![r].used = TRUE]
               \/ receipts' = [receipts EXCEPT ![r].read = @ + 1] /\ receipts[r].read < Pages
      BY <1>3 DEF Review, Expire, Consumed, Standing
    <2> QED
      BY <1>2, <2>1 DEF TypeOK
  <1> QED
    BY <1>0, <1>1, <1>3 DEF TypeOK

LEMMA InitType == Init => TypeOK
  <1> SUFFICES ASSUME Init PROVE TypeOK
    OBVIOUS
  <1>1. question \in Questions
    BY LimitAssumption DEF Init, Questions, NoQuestion
  <1>2. DOMAIN receipts = 1..0 /\ 0 \in 0..MaxReceipts /\ 0 \in 0..MaxAsks
    BY LimitAssumption DEF Init
  <1>3. receipts \in [DOMAIN receipts -> [shown : States, read : 0..Pages, used : BOOLEAN]]
    BY <1>2 DEF Init
  <1> QED
    BY <1>1, <1>2, <1>3, Constants DEF Init, TypeOK, Statuses, Closed, Extensions

\* What every action does to what only answers and commands touch.
LEMMA CallsNext ==
    ASSUME TypeOK, [Next]_vars
    PROVE  /\ \E n \in 0..MaxReceipts : DOMAIN receipts' = 1..n
           /\ receipts' \in [DOMAIN receipts' -> [shown : States, read : 0..Pages, used : BOOLEAN]]
           /\ \A r \in DOMAIN receipts :
                 /\ r \in DOMAIN receipts' /\ receipts'[r].shown = receipts[r].shown
                 /\ receipts[r].used => receipts'[r] = receipts[r]
  <1>1. \/ Issue \/ Review \/ Expire \/ UNCHANGED receipts
        \/ \E r \in 0..MaxReceipts : Consumed(r)
    <2>1. ASSUME NEW c, NEW r, NEW text, MayAnswer(c, r, text)
          PROVE  Consumed(r) \/ UNCHANGED receipts
      BY <2>1 DEF MayAnswer
    <2>2. CASE Asking
      BY <2>2 DEF Asking, PauseForTask, AskTime, AskMoney, Listen, Ask, Poll, WindowCloses,
         GiveUp, TakeAnswer, TakeReaction, Leave, Finish, Began
    <2>3. CASE Process
      BY <2>3 DEF Process, Crash, LeaveDies, Recover, HeartbeatAges
    <2>4. CASE Answering
      BY <2>1, <2>4 DEF Answering, AnswerExtension, ExtensionDies, BeginAnswer, RefuseAnswer, AnswerDies,
         AnswerAbort, AnswerTask, ReleaseTask, AmendmentRefused, AmendmentFails,
         AmendmentActivated, KeepPaused, StageProposal, ConfirmBrief
    <2> QED
      BY <2>2, <2>3, <2>4 DEF Next, Command, vars
  <1> QED
    BY <1>1, ReceiptsKeep

\* A call that starts has what the row and the command gave it; any other goes
\* on or ends.
LEMMA CallsKeep ==
    ASSUME TypeOK, [Next]_vars
    PROVE  /\ calls' \in [Callers -> Calls]
           /\ ~BeginAnswer => \A d \in Callers : calls'[d].on => calls'[d] = calls[d]
  <1>1. CASE BeginAnswer
    <2>1. PICK c \in Callers, r \in 0..MaxReceipts, text \in Texts :
            calls' = [calls EXCEPT ![c] = [on |-> TRUE, question |-> question, text |-> text,
                                           receipt |-> r,
                                           resumed |-> amended[question.id] = "pending"]]
      BY <1>1 DEF BeginAnswer
    <2>2. [on |-> TRUE, question |-> question, text |-> text, receipt |-> r,
           resumed |-> amended[question.id] = "pending"] \in Calls
      BY DEF TypeOK, Calls
    <2> QED
      BY <1>1, <2>1, <2>2 DEF TypeOK
  <1>2. CASE \/ UNCHANGED calls \/ calls' = [d \in Callers |-> NoCall]
             \/ \E c \in Callers : Ended(c)
    <2>1. "human" \in Callers
      BY DEF Callers
    <2> QED
      BY <1>2, <2>1, EndedTyped
  <1>3. BeginAnswer \/ UNCHANGED calls \/ calls' = [d \in Callers |-> NoCall]
        \/ \E c \in Callers : Ended(c)
    <2>1. CASE Asking \/ Process \/ Command \/ UNCHANGED vars
      BY <2>1 DEF Asking, PauseForTask, AskTime, AskMoney, Listen, Ask, Poll, WindowCloses,
         GiveUp, TakeAnswer, TakeReaction, Leave, Finish, Began, Process, Crash, LeaveDies, Dies,
         Recover, HeartbeatAges, Command, Issue, Review, Expire, vars
    <2>2. CASE Answering
      BY <2>2 DEF Answering, AnswerExtension, ExtensionDies, RefuseAnswer, AnswerDies, Dies,
         AnswerAbort, AnswerTask, ReleaseTask, AmendmentRefused, AmendmentFails,
         AmendmentActivated, KeepPaused, StageProposal, ConfirmBrief
    <2> QED
      BY <2>1, <2>2 DEF Next
  <1> QED
    BY <1>1, <1>2, <1>3

LEMMA TypeNext == TypeOK /\ [Next]_vars => TypeOK'
  <1> SUFFICES ASSUME TypeOK, [Next]_vars PROVE TypeOK'
    OBVIOUS
  <1> DEFINE RowOK == /\ status \in Statuses /\ question \in Questions /\ answer \in Answers
                      /\ proposal \in 0..MaxReceipts /\ budget \in Nat
                      /\ clock \in {"running", "paused", "closed"} /\ beat \in BOOLEAN
                      /\ amended \in [0..MaxAsks -> {"none", "pending", "active", "rejected"}]
                      /\ asks \in 0..MaxAsks
                      /\ loop \in {"none", "working", "down"} \cup Extensions /\ window \in BOOLEAN
  <1>0. RowOK /\ \A c \in Callers : calls[c] \in Calls
    BY DEF TypeOK
  <1> SUFFICES RowOK'
    BY CallsNext, CallsKeep DEF TypeOK
  <1>1. ASSUME NEW kind \in {"task", "time", "money"}, Ask(kind),
               loop' \in {"none"} \cup Extensions, window' \in BOOLEAN, beat' \in BOOLEAN
        PROVE  RowOK'
    BY <1>0, <1>1, Constants, LimitAssumption DEF Ask, Statuses, Questions
  <1>2. CASE PauseForTask \/ AskTime \/ AskMoney
    BY <1>0, <1>1, <1>2 DEF PauseForTask, AskTime, AskMoney, Listen, Extensions
  <1>3. ASSUME Leave, budget' \in Nat PROVE RowOK'
    BY <1>0, <1>3, Constants DEF Leave, RunClock, Statuses
  <1>4. CASE GiveUp \/ TakeAnswer \/ TakeReaction
    BY <1>0, <1>3, <1>4 DEF GiveUp, TakeAnswer, TakeReaction
  <1>5. CASE \/ Poll \/ WindowCloses \/ Finish \/ Began \/ Process \/ Command
             \/ BeginAnswer \/ RefuseAnswer \/ UNCHANGED vars
    <2>1. CASE LeaveDies
      BY <1>0, <2>1, Constants DEF LeaveDies, Dies, RunClock, Statuses
    <2>2. CASE Poll \/ WindowCloses \/ Finish \/ Began \/ Crash \/ Recover \/ HeartbeatAges
      BY <1>0, <2>2 DEF Poll, WindowCloses, Finish, Began, RunClock, Crash, Dies, Recover,
         HeartbeatAges, row, loops, Statuses, Closed
    <2>3. CASE Command \/ BeginAnswer \/ RefuseAnswer \/ UNCHANGED vars
      BY ZenonT(40), <1>0, <2>3 DEF Command, Issue, Review, Expire, BeginAnswer, RefuseAnswer, vars,
         row, loops
    <2> QED
      BY <1>5, <2>1, <2>2, <2>3 DEF Process
  <1>6. CASE AnswerExtension \/ ExtensionDies
    <2>1. PICK c \in Callers, text \in Texts : answer' = Claimed(c, text, question)
      BY <1>6 DEF AnswerExtension, ExtensionDies
    <2>2. answer' \in Answers
      BY <1>0, <2>1 DEF Claimed, Answers
    <2>3. [question EXCEPT !.kind = "none"] \in Questions
      BY <1>0 DEF Questions
    <2> QED
      BY <1>0, <1>6, <2>2, <2>3 DEF AnswerExtension, ExtensionDies, Dies, ListenerLost, Statuses, loops
  <1>7. ASSUME NEW c \in Callers, Claims(c) PROVE Written(c) \in Answers /\ calls[c].question \in Questions
    <2>1. calls[c].on /\ calls[c] \in Calls
      BY <1>0, <1>7 DEF Claims, ReviewStands
    <2> QED
      BY <1>0, <2>1 DEF Written, Claimed, Answers, Calls
  <1>8. CASE AnswerDies
    <2>1. PICK c \in Callers :
            /\ Claims(c) /\ answer' = Written(c) /\ loop' = "down" /\ window' = FALSE
            /\ clock' \in {clock, "closed", "running"}
            /\ amended' \in {amended} \cup
                  (IF calls[c].question.kind = "task" /\ calls[c].text = "fix"
                   THEN {[amended EXCEPT ![calls[c].question.id] = "pending"]} ELSE {})
            /\ UNCHANGED <<status, question, proposal, budget, beat, asks>>
      BY <1>8 DEF AnswerDies, Dies, ClockFirst
    <2> QED
      BY <1>0, <1>7, <2>1 DEF Questions
  <1>9. CASE AnswerAbort \/ AnswerTask \/ ReleaseTask \/ KeepPaused
    BY <1>0, <1>7, <1>9, Constants DEF AnswerAbort, AnswerTask, ReleaseTask, KeepPaused,
       Resumes, ClaimOf, Released, RunClock, Run, loops, Statuses, Closed
  <1>10. CASE AmendmentRefused
    BY <1>0, <1>10, Constants, LimitAssumption DEF AmendmentRefused, Released, Questions
  <1>11. CASE AmendmentFails \/ AmendmentActivated
    <2>1. PICK c \in Callers, left \in {"rejected", "pending", "active"} :
             Claims(c) /\ amended' = [amended EXCEPT ![calls[c].question.id] = left]
      BY <1>11 DEF AmendmentFails, AmendmentActivated, ClaimOf
    <2>2. amended' \in [0..MaxAsks -> {"none", "pending", "active", "rejected"}]
      BY <1>0, <1>7, <2>1 DEF Questions
    <2> QED
      BY <1>0, <1>7, <1>11, <2>2, Constants DEF AmendmentFails, AmendmentActivated, Released,
         ClaimOf, RunClock, Run, loops, Statuses
  <1>12. CASE StageProposal
    <2>1. PICK c \in Callers : ClaimOf(c, "brief", {"fix"}) /\ proposal' = calls[c].receipt
      BY <1>12 DEF StageProposal
    <2> QED
      BY <1>0, <1>12, <2>1, Constants DEF StageProposal, Calls, loops
  <1>13. CASE ConfirmBrief
    BY <1>0, <1>7, <1>13, Constants, LimitAssumption DEF ConfirmBrief, ClaimOf, Run, Statuses
  <1> QED
    BY <1>2, <1>4, <1>5, <1>6, <1>8, <1>9, <1>10, <1>11, <1>12, <1>13
       DEF Next, Asking, Answering

-----------------------------------------------------------------------------
(* What a call answers is what its challenge shows                          *)

LEMMA ReviewNext == TypeOK /\ ReviewInv /\ [Next]_vars => ReviewInv'
  <1> SUFFICES ASSUME TypeOK, ReviewInv, [Next]_vars, calls'["human"].on PROVE ReviewInv'
    BY DEF ReviewInv
  <1>1. "human" \in Callers
    BY DEF Callers
  <1>2. CASE calls'["human"] = calls["human"]
    BY <1>2, CallsNext DEF ReviewInv
  <1>3. CASE BeginAnswer
    <2>1. PICK c \in Callers, r \in 0..MaxReceipts, text \in Texts :
            /\ MayAnswer(c, r, text)
            /\ calls' = [calls EXCEPT ![c] = [on |-> TRUE, question |-> question, text |-> text,
                                              receipt |-> r,
                                              resumed |-> amended[question.id] = "pending"]]
      BY <1>3 DEF BeginAnswer
    <2>2. CASE c # "human"
      BY <1>1, <1>2, <2>1, <2>2 DEF TypeOK
    <2>3. CASE c = "human"
      <3>1. Consumed(r)
        BY <2>1, <2>3 DEF MayAnswer
      <3>2. receipts'[r].used /\ receipts'[r].read = Pages /\ receipts'[r].shown = Shown
            /\ r \in DOMAIN receipts'
        BY <3>1 DEF Consumed, Standing, TypeOK
      <3>3. calls'["human"].receipt = r /\ calls'["human"].question = question
        BY <1>1, <2>1, <2>3 DEF TypeOK
      <3> QED
        BY <3>2, <3>3 DEF ReviewInv, Shown
    <2> QED
      BY <2>2, <2>3
  <1> QED
    BY <1>1, <1>2, <1>3, CallsKeep

-----------------------------------------------------------------------------
(* The operator's answer and the brief                                      *)

\* A claim that is written stands on the question of the row.
LEMMA ClaimIsRead ==
    ASSUME TypeOK, ReviewInv, OperatorAnswersWhatWasRead,
           NEW c \in Callers, Claims(c), status = "awaiting", question.kind # "none",
           Written(c).by = "human"
    PROVE  Written(c).to = question
  <1>1. CASE calls[c].resumed
    BY <1>1 DEF Written, OperatorAnswersWhatWasRead
  <1>2. CASE ~calls[c].resumed
    <2>1. c = "human" /\ Written(c).to = calls[c].question
      BY <1>2 DEF Written, Claimed
    <2>2. receipts[calls[c].receipt].shown = Shown /\ calls[c].on
      BY <2>1 DEF Claims, ReviewStands
    <2> QED
      BY <2>1, <2>2 DEF ReviewInv, Shown
  <1> QED
    BY <1>1, <1>2

LEMMA HumanNext ==
    TypeOK /\ ReviewInv /\ OperatorAnswersWhatWasRead /\ [Next]_vars => OperatorAnswersWhatWasRead'
  <1> SUFFICES ASSUME TypeOK, ReviewInv, OperatorAnswersWhatWasRead, [Next]_vars,
                      status' = "awaiting", question'.kind # "none", answer'.by = "human"
               PROVE  answer'.to = question'
    BY DEF OperatorAnswersWhatWasRead
  <1>1. NoAnswer.by # "human"
    BY DEF NoAnswer
  <1>2. CASE UNCHANGED <<status, question, answer>>
    BY <1>2 DEF OperatorAnswersWhatWasRead
  <1>3. CASE Asking
    BY <1>1, <1>2, <1>3 DEF Asking, PauseForTask, AskTime, AskMoney, Listen, Ask, Poll,
       WindowCloses, GiveUp, TakeAnswer, TakeReaction, Leave, Finish, Began, row
  <1>4. CASE Process \/ Command \/ BeginAnswer \/ RefuseAnswer \/ UNCHANGED vars
    BY <1>2, <1>4 DEF Process, Crash, LeaveDies, NoQuestion, Recover, HeartbeatAges, Command, Issue,
       Review, Expire, BeginAnswer, RefuseAnswer, vars, row
  <1>5. CASE AnswerExtension \/ ExtensionDies
    BY <1>5 DEF AnswerExtension, ExtensionDies, ListenerLost, Closed, Claimed
  <1>6. CASE AnswerDies
    BY <1>6, ClaimIsRead DEF AnswerDies
  <1>7. CASE \/ AnswerAbort \/ AnswerTask \/ ReleaseTask \/ AmendmentRefused \/ AmendmentFails
             \/ AmendmentActivated \/ KeepPaused \/ StageProposal \/ ConfirmBrief
    BY <1>1, <1>7 DEF AnswerAbort, AnswerTask, ReleaseTask, Released, AmendmentRefused,
       AmendmentFails, AmendmentActivated, KeepPaused, StageProposal, ConfirmBrief
  <1> QED
    BY <1>3, <1>4, <1>5, <1>6, <1>7 DEF Next, Answering

\* While the brief is open only its own calls do anything, and they leave it
\* open, end the session or start it.
LEMMA BriefNext == TypeOK /\ BriefInv /\ [Next]_vars => BriefInv'
  <1> SUFFICES ASSUME TypeOK, BriefInv, [Next]_vars, question'.kind = "brief" PROVE BriefInv'
    BY DEF BriefInv
  <1>1. question.kind = "brief" => /\ status # "working" /\ loop \in {"none", "down"}
                                   /\ question.id = 0
                                   /\ \A c \in Callers : calls[c].on =>
                                        /\ c = "human" /\ calls[c].question.kind = "brief"
                                        /\ ~calls[c].resumed
    BY DEF BriefInv, Callers
  <1>2. NoQuestion.kind # "brief"
    BY DEF NoQuestion
  <1>3. /\ question.kind = "brief" /\ status' # "working" /\ loop' \in {"none", "down"}
        /\ question'.id = 0 /\ amended'[0] = amended[0]
    <2>1. CASE Asking
      BY <1>1, <1>2, <2>1 DEF Asking, PauseForTask, AskTime, AskMoney, Listen, Ask, Poll,
         WindowCloses, GiveUp, TakeAnswer, TakeReaction, Leave, Finish, Began, row, loops,
         Listening, Extensions
    <2>2. CASE Process \/ Command \/ UNCHANGED vars
      BY <1>1, <1>2, <2>2 DEF Process, Crash, LeaveDies, Dies, Recover, HeartbeatAges, Command,
         Issue, Review, Expire, vars, row, loops
    <2>3. CASE AnswerExtension \/ ExtensionDies
      BY <1>1, <2>3 DEF AnswerExtension, ExtensionDies, Dies, ListenerLost, Closed, Extensions,
         loops, TypeOK, Questions
    <2>4. ASSUME NEW c \in Callers, Claims(c), question.kind = "brief"
          PROVE  calls[c].question.kind = "brief"
      BY <1>1, <2>4 DEF Claims, ReviewStands
    <2>5. CASE AnswerTask \/ ReleaseTask \/ AmendmentRefused \/ AmendmentFails \/ AmendmentActivated
      <3>1. question.kind = "brief"
        BY <2>5 DEF AnswerTask, ReleaseTask, AmendmentRefused, AmendmentFails, AmendmentActivated
      <3> QED
        BY <2>4, <2>5, <3>1 DEF AnswerTask, ReleaseTask, AmendmentRefused, AmendmentFails,
           AmendmentActivated, Resumes, ClaimOf
    <2>6. CASE AnswerDies
      BY <1>1, <2>4, <2>6 DEF AnswerDies, Dies
    <2>7. CASE BeginAnswer \/ RefuseAnswer \/ AnswerAbort \/ KeepPaused \/ StageProposal
      BY <1>1, <2>7 DEF BeginAnswer, RefuseAnswer, AnswerAbort, KeepPaused, StageProposal, row, loops
    <2>8. CASE ConfirmBrief
      BY <1>2, <2>8 DEF ConfirmBrief
    <2> QED
      BY <2>1, <2>2, <2>3, <2>5, <2>6, <2>7, <2>8 DEF Next, Answering
  <1>4. \A d \in Callers : calls'[d].on =>
            d = "human" /\ calls'[d].question.kind = "brief" /\ ~calls'[d].resumed
    <2>1. CASE BeginAnswer
      <3>1. PICK c \in Callers, r \in 0..MaxReceipts, text \in Texts :
              /\ MayAnswer(c, r, text)
              /\ calls' = [calls EXCEPT ![c] = [on |-> TRUE, question |-> question,
                              text |-> text, receipt |-> r,
                              resumed |-> amended[question.id] = "pending"]]
        BY ZenonT(40), <2>1 DEF BeginAnswer
      <3>2. c = "human"
        BY <1>3, <3>1 DEF MayAnswer, Callers
      <3>3. amended[question.id] # "pending"
        BY <1>1, <1>3 DEF BriefInv
      <3> QED
        BY <1>1, <1>3, <3>1, <3>2, <3>3 DEF TypeOK
    <2> QED
      BY <1>1, <1>3, <2>1, CallsKeep
  <1> QED
    BY <1>3, <1>4 DEF BriefInv, Callers

-----------------------------------------------------------------------------
LEMMA InitInv == Init => IInv
  <1>1. ASSUME Init PROVE ReviewInv /\ BriefInv
    <2>1. \A c \in {"human", "agent"} : ~calls[c].on
      BY <1>1 DEF Init, NoCall, Callers
    <2>2. question.kind = "brief" => status = "awaiting" /\ question.id = 0
      BY <1>1 DEF Init, NoQuestion
    <2>3. amended[0] = "none" /\ (status = "awaiting" => loop = "none")
      BY <1>1, LimitAssumption DEF Init
    <2> QED
      BY <2>1, <2>2, <2>3 DEF ReviewInv, BriefInv
  <1>2. Init => OperatorAnswersWhatWasRead
    BY DEF Init, OperatorAnswersWhatWasRead, NoAnswer
  <1> QED
    BY <1>1, <1>2, InitType DEF IInv

LEMMA InvNext == IInv /\ [Next]_vars => IInv'
  BY TypeNext, ReviewNext, BriefNext, HumanNext DEF IInv

LEMMA InvHolds == Spec => []IInv
  BY InitInv, InvNext, PTL DEF Spec

\* Every reachable state is well typed, and challenges are issued in order.
THEOREM TypeHolds == Spec => []TypeOK
  BY InvHolds, PTL DEF IInv

\* The active clock is set going while a human is asked by nothing but a death
\* of the process between its clock and its status (Questions, Ask, releaseClaim
\* and setStatus), in every interleaving with claims, releases and re-asking.
THEOREM ClockHolds == Spec => ClockStopsForHumans
  <1>1. [Next]_vars =>
          [status' = "awaiting" /\ clock' = "running"
             => loop' = "down"
                \/ (status = "awaiting" /\ clock = "running" /\ question' = question)]_vars
    <2> SUFFICES ASSUME [Next]_vars, status' = "awaiting", clock' = "running", loop' # "down"
                 PROVE  status = "awaiting" /\ clock = "running" /\ question' = question
      OBVIOUS
    <2>1. CASE Asking
      BY <2>1 DEF Asking, PauseForTask, AskTime, AskMoney, Listen, Ask, Poll, WindowCloses,
         GiveUp, TakeAnswer, TakeReaction, Leave, Finish, Began, RunClock, row
    <2>2. CASE Process \/ Command \/ UNCHANGED vars
      BY <2>2 DEF Process, Crash, LeaveDies, Dies, Recover, HeartbeatAges, Command, Issue, Review,
         Expire, vars, row
    <2>3. CASE Answering
      BY <2>3 DEF Answering, AnswerExtension, ExtensionDies, Dies, ListenerLost, BeginAnswer,
         RefuseAnswer, AnswerDies, AnswerAbort, AnswerTask, ReleaseTask, Released,
         AmendmentRefused, AmendmentFails, AmendmentActivated, KeepPaused, StageProposal,
         ConfirmBrief, RunClock, row, Closed
    <2> QED
      BY <2>1, <2>2, <2>3 DEF Next
  <1> QED
    BY <1>1, PTL DEF Spec, ClockStopsForHumans

\* An operator's recorded answer is to the question that the operator reviewed,
\* although the storage check lies between reading and claiming the row.
THEOREM ReadHolds == Spec => []OperatorAnswersWhatWasRead
  BY InvHolds, PTL DEF IInv

\* Who starts a brief is its operator, on the state that was reviewed.
THEOREM BriefHolds == Spec => BriefIsTheOperators
  <1>1. IInv /\ [Next]_vars =>
          [question.kind = "brief" /\ status' = "working"
             => /\ answer'.by = "human"
                /\ \E r \in DOMAIN receipts : receipts[r].used /\ receipts[r].read = Pages
                      /\ receipts[r].shown = Shown]_vars
    <2> SUFFICES ASSUME IInv, [Next]_vars, question.kind = "brief", status' = "working"
                 PROVE  /\ answer'.by = "human"
                        /\ \E r \in DOMAIN receipts :
                              /\ receipts[r].used /\ receipts[r].read = Pages
                              /\ receipts[r].shown = Shown
      OBVIOUS
    <2> USE DEF IInv
    <2>1. status # "working" /\ loop \in {"none", "down"}
      BY DEF BriefInv
    <2>2. \A c \in Callers : calls[c].on =>
              c = "human" /\ calls[c].question.kind = "brief" /\ ~calls[c].resumed
      BY DEF BriefInv, Callers
    <2>3. AnswerTask \/ AmendmentActivated \/ ConfirmBrief
      BY <2>1 DEF Next, Asking, PauseForTask, AskTime, AskMoney, Listen, Ask, Poll,
         WindowCloses, GiveUp, TakeAnswer, TakeReaction, Finish, Began, Listening, Extensions,
         Process, Crash, LeaveDies, Recover, HeartbeatAges, Command, Issue, Review, Expire,
         Answering, AnswerExtension, ExtensionDies, ListenerLost, Closed, BeginAnswer, RefuseAnswer, AnswerDies,
         AnswerAbort, ReleaseTask, AmendmentRefused, AmendmentFails, KeepPaused, StageProposal,
         vars, row
    <2>4. PICK c \in Callers : Claims(c) /\ answer' = Written(c)
      BY <2>3 DEF AnswerTask, AmendmentActivated, ConfirmBrief, Resumes, ClaimOf
    <2>5. c = "human" /\ ~calls[c].resumed /\ calls[c].on /\ receipts[calls[c].receipt].shown = Shown
      BY <2>2, <2>4 DEF Claims, ReviewStands
    <2> QED
      BY <2>4, <2>5 DEF Written, Claimed, ReviewInv
  <1> QED
    BY <1>1, InvHolds, PTL DEF Spec, BriefIsTheOperators

\* An answer to a sub-task's question stands until it is released: the claim is
\* the first to write an unanswered row (harness_answer's UPDATE ... IS NULL), and
\* neither a second caller nor one that was staged before a crash writes over it.
THEOREM ClaimedHolds == Spec => ClaimedOnce
  <1>1. [Next]_vars => [question.kind = "task" /\ question' = question /\ answer # NoAnswer
                          => answer' \in {answer, NoAnswer}]_vars
    <2> SUFFICES ASSUME [Next]_vars, question.kind = "task", question' = question, answer # NoAnswer
                 PROVE  answer' \in {answer, NoAnswer}
      OBVIOUS
    <2>1. \A c \in Callers : Claims(c) => Written(c) = answer
      BY DEF Claims, Written
    <2>2. CASE Asking
      BY <2>2 DEF Asking, PauseForTask, AskTime, AskMoney, Listen, Ask, Poll, WindowCloses, GiveUp,
         TakeAnswer, TakeReaction, Leave, Finish, Began, row
    <2>3. CASE Process \/ Command \/ UNCHANGED vars
      BY <2>3 DEF Process, Crash, LeaveDies, Recover, HeartbeatAges, Command, Issue, Review, Expire,
         vars, row
    <2>4. CASE AnswerExtension \/ ExtensionDies
      BY <2>4 DEF AnswerExtension, ExtensionDies, Extensions
    <2>5. CASE AnswerDies \/ AnswerAbort \/ AnswerTask \/ AmendmentActivated \/ ConfirmBrief
      BY <2>1, <2>5 DEF AnswerDies, AnswerAbort, AnswerTask, AmendmentActivated, ConfirmBrief,
         Resumes, ClaimOf
    <2>6. CASE BeginAnswer \/ RefuseAnswer
      BY <2>6 DEF BeginAnswer, RefuseAnswer, row
    <2>7. CASE ReleaseTask \/ AmendmentRefused \/ AmendmentFails \/ KeepPaused \/ StageProposal
      BY <2>7 DEF ReleaseTask, AmendmentRefused, AmendmentFails, Released, KeepPaused, StageProposal
    <2> QED
      BY <2>2, <2>3, <2>4, <2>5, <2>6, <2>7 DEF Next, Answering
  <1> QED
    BY <1>1, PTL DEF Spec, ClaimedOnce

-----------------------------------------------------------------------------
(* Sequences.  FoldLeft picks the last index of a set of indices and folds   *)
(* the rest first; a smallest counterexample serves as induction.            *)

\* A set of numbers that is not empty has a least one.
LEMMA SmallestNat ==
  ASSUME NEW N \in SUBSET Nat, N # {}
  PROVE  \E n \in N : \A m \in N : n <= m
  <1>1. IsWellFoundedOn(OpToRel(<, Nat), Nat)
    BY NatLessThanWellFounded
  <1>2. PICK n \in N : \A m \in N : <<m, n>> \notin OpToRel(<, Nat)
    BY <1>1, WFMin
  <1>3. \A m \in N : ~(m < n)
    BY <1>2 DEF OpToRel
  <1> QED
    BY <1>3

\* A set of numbers with a bound that is not empty has a largest.
LEMMA LargestNat ==
  ASSUME NEW u \in Nat, NEW N \in SUBSET (1 .. u), N # {}
  PROVE  /\ \E m \in N : \A n \in N : n <= m
         /\ Max(N) \in N
  <1> DEFINE U == {v \in Nat : \A y \in N : v >= y}
  <1>1. PICK v \in U : \A w \in U : v <= w
    <2>1. U \in SUBSET Nat /\ u \in U
      OBVIOUS
    <2> HIDE DEF U
    <2> QED
      BY <2>1, SmallestNat
  <1>2. v \in N
    <2> SUFFICES ASSUME v \notin N PROVE FALSE
      OBVIOUS
    <2>1. \A y \in N : v > y /\ y \in Nat
      OBVIOUS
    <2>2. v \in Nat /\ v # 0
      <3>1. v \in Nat
        OBVIOUS
      <3>2. PICK y \in N : TRUE
        OBVIOUS
      <3> QED
        BY <2>1, <3>1, <3>2
    <2>3. v - 1 \in Nat /\ \A y \in N : v - 1 >= y
      BY <2>1, <2>2
    <2>4. v - 1 \in U
      BY <2>3
    <2> QED
      BY <1>1, <2>2, <2>4
  <1> QED
    BY <1>1, <1>2 DEF Max

\* What is folded last, and before it.
LEMMA LastIndex ==
  ASSUME NEW k \in Nat \ {0}
  PROVE  Max(1 .. k) = k /\ (1 .. k) \ {k} = 1 .. (k - 1)
  <1>1. k \in 1 .. k /\ \A y \in 1 .. k : k >= y
    OBVIOUS
  <1>2. \A x \in 1 .. k : (\A y \in 1 .. k : x >= y) => x = k
    OBVIOUS
  <1>3. Max(1 .. k) = k
    BY <1>1, <1>2 DEF Max
  <1> QED
    BY <1>3

\* What Distinct folds: a file that is neither gone nor there yet is added.
Keep(out, p, gone) == IF p \in gone \cup ToSet(out) THEN out ELSE Append(out, p)
KeepStep(q, gone, g, s) ==
    IF s = {} THEN <<>> ELSE Keep(g[s \ {Max(s)}], q[Max(s)], gone)
KeepFold(q, gone) == CHOOSE g : g = [s \in SUBSET DOMAIN q |-> KeepStep(q, gone, g, s)]

LEMMA DistinctDef ==
  ASSUME NEW q, NEW gone
  PROVE  Distinct(q, gone) = KeepFold(q, gone)[DOMAIN q]
  BY DEF Distinct, FoldLeft, MapThenFoldSet, KeepFold, KeepStep, Keep

LEMMA KeepExists ==
  ASSUME NEW q, NEW gone, NEW u \in Nat, DOMAIN q = 1 .. u
  PROVE  \E g : g = [s \in SUBSET DOMAIN q |-> KeepStep(q, gone, g, s)]
  <1> DEFINE D == DOMAIN q
             Upto(n, g) == \A s \in SUBSET D : Cardinality(s) <= n => g[s] = KeepStep(q, gone, g, s)
  <1> DEFINE Bad == {n \in Nat : \A g : ~Upto(n, g)}
  <1>1. \A s \in SUBSET D : /\ IsFiniteSet(s) /\ Cardinality(s) \in Nat
                            /\ s # {} => Max(s) \in s
    <2>1. \A s \in SUBSET D : IsFiniteSet(s) /\ Cardinality(s) \in Nat
      <3>1. IsFiniteSet(D)
        BY 1 \in Int, u \in Int, FS_Interval
      <3> QED
        BY <3>1, FS_Subset, FS_CardinalityType
    <2>2. ASSUME NEW s \in SUBSET D, s # {} PROVE Max(s) \in s
      BY <2>1, <2>2, LargestNat
    <2> QED
      BY <2>1, <2>2
  <1>2. Upto(0, [s \in SUBSET D |-> <<>>])
    BY <1>1, FS_EmptySet DEF KeepStep
  <1>3. ASSUME NEW n \in Nat, NEW g, Upto(n, g)
        PROVE  \E h : Upto(n + 1, h)
    <2> DEFINE h == [s \in SUBSET D |-> IF Cardinality(s) <= n THEN g[s] ELSE KeepStep(q, gone, g, s)]
    <2>1. ASSUME NEW s \in SUBSET D, Cardinality(s) <= n + 1
          PROVE  h[s] = KeepStep(q, gone, h, s)
      <3>1. CASE s = {}
        <4>1. Cardinality(s) <= n
          BY <3>1, FS_EmptySet
        <4>2. h[s] = g[s] /\ g[s] = KeepStep(q, gone, g, s)
          BY <1>3, <4>1
        <4> QED
          BY <3>1, <4>2 DEF KeepStep
      <3>2. CASE s # {}
        <4> DEFINE t == s \ {Max(s)}
        <4>1. t \in SUBSET D /\ Cardinality(t) <= n
          BY <1>1, <2>1, <3>2, FS_RemoveElement
        <4>2. h[t] = g[t]
          BY <4>1
        <4>3. h[s] = KeepStep(q, gone, g, s)
          BY <1>3
        <4> QED
          BY <3>2, <4>2, <4>3 DEF KeepStep
      <3> QED
        BY <3>1, <3>2
    <2> QED
      BY <2>1
  <1>4. Bad = {}
    <2> SUFFICES ASSUME Bad # {} PROVE FALSE
      OBVIOUS
    <2> HIDE DEF Upto
    <2>1. PICK n \in Bad : \A m \in Bad : n <= m
      BY SmallestNat
    <2>2. n # 0
      BY <1>2
    <2>3. n - 1 \in Nat /\ n - 1 \notin Bad
      BY <2>1, <2>2
    <2>4. PICK g : Upto(n - 1, g)
      BY <2>3
    <2> QED
      BY <1>3, <2>3, <2>4, n - 1 + 1 = n
  <1>5. PICK g : Upto(Cardinality(D), g)
    BY <1>1, <1>4
  <1> DEFINE h == [s \in SUBSET D |-> g[s]]
  <1>6. ASSUME NEW s \in SUBSET D PROVE h[s] = KeepStep(q, gone, h, s)
    <2>1. g[s] = KeepStep(q, gone, g, s)
      BY <1>1, <1>5, FS_Subset
    <2>2. s \ {Max(s)} \in SUBSET D
      OBVIOUS
    <2> QED
      BY <2>1, <2>2 DEF KeepStep
  <1>7. h = [s \in SUBSET D |-> KeepStep(q, gone, h, s)]
    BY <1>6
  <1> QED
    BY <1>7

\* Its value after k elements.
Kept(q, gone, k) == KeepFold(q, gone)[1 .. k]

LEMMA KeepFolds ==
  ASSUME NEW gone, NEW n \in Nat, NEW q, DOMAIN q = 1 .. n
  PROVE  /\ Kept(q, gone, 0) = <<>>
         /\ \A k \in 1 .. n : Kept(q, gone, k) = Keep(Kept(q, gone, k - 1), q[k], gone)
         /\ Distinct(q, gone) = Kept(q, gone, n)
  <1>2. KeepFold(q, gone) = [s \in SUBSET DOMAIN q |-> KeepStep(q, gone, KeepFold(q, gone), s)]
    BY KeepExists DEF KeepFold
  <1>3. \A k \in 0 .. n : 1 .. k \in SUBSET DOMAIN q
    OBVIOUS
  <1>4. \A k \in 0 .. n : Kept(q, gone, k) = KeepStep(q, gone, KeepFold(q, gone), 1 .. k)
    BY <1>2, <1>3 DEF Kept
  <1>5. Kept(q, gone, 0) = <<>>
    <2>1. 1 .. 0 = {} /\ 0 \in 0 .. n
      OBVIOUS
    <2> QED
      BY <1>4, <2>1 DEF KeepStep
  <1>6. ASSUME NEW k \in 1 .. n
        PROVE  Kept(q, gone, k) = Keep(Kept(q, gone, k - 1), q[k], gone)
    <2>1. Max(1 .. k) = k /\ (1 .. k) \ {k} = 1 .. (k - 1)
      BY LastIndex
    <2>2. 1 .. k # {} /\ k \in 0 .. n
      OBVIOUS
    <2>3. Kept(q, gone, k) = KeepStep(q, gone, KeepFold(q, gone), 1 .. k)
      BY <1>4, <2>2
    <2>4. KeepStep(q, gone, KeepFold(q, gone), 1 .. k)
          = Keep(KeepFold(q, gone)[(1 .. k) \ {Max(1 .. k)}], q[Max(1 .. k)], gone)
      BY <2>2 DEF KeepStep
    <2> QED
      BY <2>1, <2>3, <2>4 DEF Kept
  <1> QED
    BY <1>5, <1>6, DistinctDef DEF Kept

\* Distinct takes only what is in the files and not gone, and keeps the head.
LEMMA DistinctKeeps ==
  ASSUME NEW q \in Seq(Paths), NEW gone
  PROVE  /\ Distinct(q, gone) \in Seq(Paths)
         /\ ToSet(Distinct(q, gone)) \subseteq ToSet(q) \ gone
         /\ q # <<>> /\ Head(q) \notin gone =>
               Distinct(q, gone) # <<>> /\ Head(Distinct(q, gone)) = Head(q)
  <1> DEFINE n == Len(q)
             Fine(k) ==
                LET out == Kept(q, gone, k)
                IN  /\ out \in Seq(Paths) /\ ToSet(out) \subseteq ToSet(q) \ gone
                    /\ k # 0 /\ q[1] \notin gone => Len(out) > 0 /\ out[1] = q[1]
             Bad == {k \in 0 .. n : ~Fine(k)}
  <1>1. n \in Nat /\ DOMAIN q = 1 .. n
    OBVIOUS
  <1>2. /\ Kept(q, gone, 0) = <<>>
        /\ \A k \in 1 .. n : Kept(q, gone, k) = Keep(Kept(q, gone, k - 1), q[k], gone)
        /\ Distinct(q, gone) = Kept(q, gone, n)
    BY <1>1, KeepFolds
  <1>3. Fine(0)
    <2>1. <<>> \in Seq(Paths) /\ ToSet(<<>>) = {}
      BY DEF ToSet
    <2> QED
      BY <1>2, <2>1
  <1>4. ASSUME NEW k \in 1 .. n, Fine(k - 1) PROVE Fine(k)
    <2> DEFINE was == Kept(q, gone, k - 1)
    <2>1. was \in Seq(Paths) /\ ToSet(was) \subseteq ToSet(q) \ gone
      BY <1>4
    <2>2. k - 1 # 0 /\ q[1] \notin gone => Len(was) > 0 /\ was[1] = q[1]
      BY <1>4
    <2>3. q[k] \in Paths /\ q[k] \in ToSet(q)
      BY <1>1 DEF ToSet
    <2>4. Kept(q, gone, k) = Keep(was, q[k], gone)
      BY <1>2
    <2>5. k = 1 => was = <<>>
      BY <1>2
    <2> HIDE DEF was
    <2>6. CASE q[k] \in gone \cup ToSet(was)
      <3>1. k = 1 /\ q[1] \notin gone => FALSE
        BY <2>5, <2>6 DEF ToSet
      <3> QED
        BY <2>1, <2>2, <2>4, <2>6, <3>1 DEF Keep
    <2>7. CASE q[k] \notin gone \cup ToSet(was)
      <3>1. Kept(q, gone, k) = Append(was, q[k])
        BY <2>4, <2>7 DEF Keep
      <3>2. Append(was, q[k]) \in Seq(Paths) /\ Len(Append(was, q[k])) = Len(was) + 1
        BY <2>1, <2>3
      <3>3. \A i \in 1 .. Len(was) + 1 :
               Append(was, q[k])[i] = IF i = Len(was) + 1 THEN q[k] ELSE was[i]
        BY <2>1, <2>3
      <3>4. ToSet(Append(was, q[k])) \subseteq ToSet(was) \cup {q[k]}
        BY <2>1, <3>2, <3>3 DEF ToSet
      <3>5. k # 0 /\ q[1] \notin gone => Append(was, q[k])[1] = q[1]
        <4>1. CASE k = 1
          BY <2>5, <3>3, <4>1
        <4>2. CASE k # 1
          <5>1. k - 1 # 0 /\ k \in Nat
            BY <4>2, <1>1
          <5> QED
            BY <2>1, <2>2, <3>3, <5>1
        <4> QED
          BY <4>1, <4>2
      <3> QED
        BY <2>1, <2>3, <2>7, <3>1, <3>2, <3>4, <3>5
    <2> QED
      BY <2>6, <2>7
  <1>5. Bad = {}
    <2> SUFFICES ASSUME Bad # {} PROVE FALSE
      OBVIOUS
    <2>1. PICK k \in Bad : \A m \in Bad : k <= m
      <3>1. Bad \in SUBSET Nat
        BY <1>1
      <3> HIDE DEF Bad
      <3> QED
        BY <3>1, SmallestNat
    <2> HIDE DEF Fine
    <2>2. k # 0
      BY <1>3
    <2>3. k \in 1 .. n /\ k - 1 \in 0 .. n
      BY <1>1, <2>1, <2>2
    <2>4. k - 1 \notin Bad
      BY <2>1, <2>3
    <2>5. Fine(k - 1)
      BY <2>3, <2>4
    <2> QED
      BY <1>4, <2>3, <2>5
  <1>6. Fine(n)
    BY <1>1, <1>5
  <1>7. q # <<>> => n # 0 /\ Head(q) = q[1]
    OBVIOUS
  <1> QED
    BY <1>2, <1>6, <1>7


\* A finite set as a sequence: every element has an index.
LEMMA Listed ==
  ASSUME NEW T, IsFiniteSet(T)
  PROVE  /\ Cardinality(T) \in Nat /\ SetToSeq(T) \in [1 .. Cardinality(T) -> T]
         /\ \A x \in T : \E i \in 1 .. Cardinality(T) : SetToSeq(T)[i] = x
  <1> DEFINE n == Cardinality(T)
  <1>1. n \in Nat
    BY FS_CardinalityType
  <1>2. PICK m \in Nat : ExistsBijection(1 .. m, T)
    BY FS_NatBijection
  <1>3. ExistsBijection(1 .. n, T)
    BY <1>2, FS_CountingElements
  <1>4. \E f \in [1 .. n -> T] : IsInjective(f)
    BY <1>3 DEF ExistsBijection, Bijection, Injection, IsInjective
  <1>5. SetToSeq(T) \in [1 .. n -> T] /\ IsInjective(SetToSeq(T))
    BY <1>4 DEF SetToSeq
  <1> DEFINE f == SetToSeq(T)
             U == {f[i] : i \in 1 .. n}
  <1>6. U = T
    <2>1. f \in Surjection(1 .. n, U)
      BY <1>5 DEF Surjection
    <2>2. f \in Injection(1 .. n, U)
      BY <1>5 DEF Injection, IsInjective
    <2>3. IsFiniteSet(1 .. n) /\ Cardinality(1 .. n) = n
      BY <1>1, 1 \in Int, n \in Int, FS_Interval
    <2>4. IsFiniteSet(U) /\ Cardinality(U) = n
      <3> HIDE DEF U, f
      <3> QED
        BY <2>1, <2>2, <2>3, FS_Surjection
    <2>5. U \in SUBSET T
      BY <1>5
    <2> HIDE DEF U
    <2> QED
      BY <2>4, <2>5, FS_Subset
  <1> QED
    BY <1>1, <1>5, <1>6

\* Appended adds what is new behind the files.
LEMMA AppendedKeeps ==
  ASSUME NEW q \in Seq(Paths), NEW more \in SUBSET Paths
  PROVE  /\ Appended(q, more) \in Seq(Paths)
         /\ ToSet(Appended(q, more)) = ToSet(q) \cup more
         /\ q # <<>> => Appended(q, more) # <<>> /\ Head(Appended(q, more)) = Head(q)
         /\ more = {} => Appended(q, more) = q
  <1> DEFINE T == more \ ToSet(q)
             t == SetToSeq(T)
             n == Cardinality(T)
             all == q \o t
  <1>1. T \in SUBSET Paths /\ IsFiniteSet(T)
    BY ContractsAssumption, FS_Subset
  <1>2. n \in Nat /\ t \in [1 .. n -> T] /\ \A x \in T : \E i \in 1 .. n : t[i] = x
    BY <1>1, Listed
  <1> HIDE DEF n, t, T
  <1>3. t \in Seq(T) /\ Len(t) = n
    BY <1>2
  <1>4. t \in Seq(Paths)
    BY <1>1, <1>2
  <1>5. more = {} => n = 0
    BY FS_EmptySet DEF n, T
  <1>6. /\ all \in Seq(Paths) /\ Len(all) = Len(q) + n
        /\ \A i \in 1 .. Len(q) + n : all[i] = IF i <= Len(q) THEN q[i] ELSE t[i - Len(q)]
    BY <1>3, <1>4
  <1>7. ToSet(all) \subseteq ToSet(q) \cup more
    <2> SUFFICES ASSUME NEW i \in 1 .. Len(q) + n PROVE all[i] \in ToSet(q) \cup more
      BY <1>6 DEF ToSet
    <2>1. CASE i <= Len(q)
      BY <1>6, <2>1 DEF ToSet
    <2>2. CASE i > Len(q)
      <3>1. i - Len(q) \in 1 .. n
        BY <1>2, <2>2
      <3> QED
        BY <1>2, <1>6, <2>2, <3>1 DEF T
    <2>3. i <= Len(q) \/ i > Len(q)
      BY <1>2
    <2> QED
      BY <2>1, <2>2, <2>3
  <1>8. ToSet(q) \subseteq ToSet(all)
    <2>1. \A i \in 1 .. Len(q) : i \in 1 .. Len(q) + n /\ all[i] = q[i]
      BY <1>2, <1>6
    <2> QED
      BY <1>6, <2>1 DEF ToSet
  <1>9. T \subseteq ToSet(all)
    <2>1. \A i \in 1 .. n : /\ i + Len(q) \in 1 .. Len(q) + n
                            /\ all[i + Len(q)] = t[i]
      BY <1>2, <1>6
    <2>2. \A i \in 1 .. n : t[i] \in ToSet(all)
      <3> SUFFICES ASSUME NEW i \in 1 .. n PROVE t[i] \in ToSet(all)
        OBVIOUS
      <3>1. i + Len(q) \in DOMAIN all /\ all[i + Len(q)] = t[i]
        BY <1>6, <2>1
      <3> QED
        BY <3>1 DEF ToSet
    <2> QED
      BY <1>2, <2>2
  <1>10. q # <<>> => all # <<>> /\ Head(all) = Head(q)
    <2> SUFFICES ASSUME q # <<>> PROVE all # <<>> /\ Head(all) = Head(q)
      OBVIOUS
    <2>1. Len(q) > 0 /\ all[1] = q[1]
      BY <1>2, <1>6
    <2> QED
      BY <1>2, <1>6, <2>1
  <1>11. more = {} => all = q
    <2> SUFFICES ASSUME more = {} PROVE all = q
      OBVIOUS
    <2>1. Len(all) = Len(q) /\ \A i \in 1 .. Len(q) : all[i] = q[i]
      BY <1>5, <1>6
    <2> QED
      BY <1>6, <2>1
  <1> QED
    BY <1>6, <1>7, <1>8, <1>9, <1>10, <1>11 DEF Appended, t, T

\* Corrected puts another name in the place of a path, of its head also.
LEMMA CorrectedKeeps ==
  ASSUME NEW q \in Seq(Paths), NEW fixes \in SUBSET (Paths \X Paths)
  PROVE  LET out == Corrected(q, fixes)
         IN  /\ out \in Seq(Paths)
             /\ \A p \in ToSet(out) : p \in ToSet(q) \/ \E f \in fixes : f[2] = p
             /\ q = <<>> => out = <<>>
             /\ q # <<>> =>
                   /\ out # <<>>
                   /\ \/ Head(out) = Head(q) /\ \A f \in fixes : f[1] # Head(q)
                      \/ <<Head(q), Head(out)>> \in fixes
  <1> DEFINE to(p) == (CHOOSE f \in fixes : f[1] = p)[2]
             put(p) == IF \E f \in fixes : f[1] = p THEN to(p) ELSE p
             r == [i \in DOMAIN q |-> put(q[i])]
  <1>1. \A p \in Paths : (\E f \in fixes : f[1] = p) => to(p) \in Paths /\ <<p, to(p)>> \in fixes
    <2> SUFFICES ASSUME NEW p \in Paths, \E f \in fixes : f[1] = p
                 PROVE  to(p) \in Paths /\ <<p, to(p)>> \in fixes
      OBVIOUS
    <2>1. (CHOOSE f \in fixes : f[1] = p) \in fixes /\ (CHOOSE f \in fixes : f[1] = p)[1] = p
      OBVIOUS
    <2> QED
      BY <2>1
  <1>2. Corrected(q, fixes) = Distinct(r, {})
    BY DEF Corrected
  <1>3. \A p \in Paths : /\ put(p) \in Paths
                         /\ \/ put(p) = p /\ \A f \in fixes : f[1] # p
                            \/ <<p, put(p)>> \in fixes
    BY <1>1
  <1> HIDE DEF put
  <1>4. DOMAIN q = 1 .. Len(q) /\ Len(q) \in Nat /\ \A i \in 1 .. Len(q) : q[i] \in Paths
    OBVIOUS
  <1>5. r \in [1 .. Len(q) -> Paths]
    BY <1>3, <1>4
  <1>6. r \in Seq(Paths) /\ Len(r) = Len(q) /\ \A i \in 1 .. Len(q) : r[i] = put(q[i])
    BY <1>4, <1>5
  <1> HIDE DEF r
  <1>7. /\ Distinct(r, {}) \in Seq(Paths) /\ ToSet(Distinct(r, {})) \subseteq ToSet(r)
        /\ r # <<>> => Distinct(r, {}) # <<>> /\ Head(Distinct(r, {})) = Head(r)
    BY <1>6, DistinctKeeps
  <1>8. \A p \in ToSet(r) : p \in ToSet(q) \/ \E f \in fixes : f[2] = p
    <2> SUFFICES ASSUME NEW i \in 1 .. Len(q)
                 PROVE  put(q[i]) \in ToSet(q) \/ \E f \in fixes : f[2] = put(q[i])
      BY <1>6 DEF ToSet
    <2>1. q[i] \in ToSet(q)
      BY <1>4 DEF ToSet
    <2>2. CASE <<q[i], put(q[i])>> \in fixes
      BY <2>2
    <2> QED
      BY <1>3, <1>4, <2>1, <2>2
  <1>9. ASSUME q = <<>> PROVE Distinct(r, {}) = <<>>
    <2>1. DOMAIN r = 1 .. 0
      BY <1>5, <1>9
    <2>2. Distinct(r, {}) = Kept(r, {}, 0) /\ Kept(r, {}, 0) = <<>>
      BY <2>1, KeepFolds
    <2> QED
      BY <2>2
  <1>10. ASSUME q # <<>>
         PROVE  /\ r # <<>>
                /\ \/ Head(r) = Head(q) /\ \A f \in fixes : f[1] # Head(q)
                   \/ <<Head(q), Head(r)>> \in fixes
    <2>1. 1 \in 1 .. Len(q)
      BY <1>4, <1>10
    <2>2. r # <<>> /\ Head(r) = r[1] /\ Head(q) = q[1]
      BY <1>6, <2>1
    <2> QED
      BY <1>3, <1>4, <1>6, <2>1, <2>2
  <1> QED
    BY <1>2, <1>7, <1>8, <1>9, <1>10

\* Replaced puts other names in the place of paths of a contract.
LEMMA ReplacedKeeps ==
  ASSUME NEW owed \in SUBSET Paths, NEW fixes \in SUBSET (Paths \X Paths)
  PROVE  /\ Replaced(owed, fixes) \subseteq Paths
         /\ \A p \in owed : \E q \in Replaced(owed, fixes) : q = p \/ <<p, q>> \in fixes
         /\ \A q \in Replaced(owed, fixes) :
               (q \in owed /\ \A f \in fixes : f[1] # q) \/ (\E f \in fixes : f[2] = q /\ f[1] \in owed)
  <1>1. ASSUME NEW p \in owed
        PROVE  \E q \in Replaced(owed, fixes) : q = p \/ <<p, q>> \in fixes
    <2>1. CASE \A f \in fixes : f[1] # p
      BY <2>1 DEF Replaced
    <2>2. CASE \E f \in fixes : f[1] = p
      <3>1. PICK q \in Paths : <<p, q>> \in fixes
        BY <2>2
      <3> QED
        BY <3>1 DEF Replaced
    <2> QED
      BY <2>1, <2>2
  <1>2. ASSUME NEW q \in Replaced(owed, fixes)
        PROVE  (q \in owed /\ \A f \in fixes : f[1] # q) \/ (\E f \in fixes : f[2] = q /\ f[1] \in owed)
    <2>1. CASE \E p \in owed : <<p, q>> \in fixes
      BY <2>1
    <2> QED
      BY <2>1 DEF Replaced
  <1> QED
    BY <1>1, <1>2 DEF Replaced

\* Names: from one to the next and on.
LEMMA SameRefl == \A p : SameArtifact(p, p)
  BY DEF SameArtifact

LEMMA SameStep ==
  ASSUME NEW p \in Paths, NEW q \in Paths, Recognised(p, q)
  PROVE  SameArtifact(p, q)
  BY DEF SameArtifact

LEMMA SameTrans ==
  ASSUME NEW p, NEW q, NEW r, SameArtifact(p, q), SameArtifact(q, r)
  PROVE  SameArtifact(p, r)
  BY DEF SameArtifact


-----------------------------------------------------------------------------
(* The driver and its types                                                  *)

\* One sub-task is under way at a time, behind those that are done, with the
\* row of its dispatch; a pause is about a sub-task that was dispatched, and
\* what a cycle counts as completed it has behind it.
DriverOK ==
    /\ W # 0 => /\ run.pc = "running" /\ W = S /\ W \notin run.done \cup run.scoped
                /\ shape.needs[W] \subseteq run.done /\ rows[run.cycle][W] # "none"
    /\ W = 0 <=> turn.phase = "idle"
    /\ run.pc = "running" => \A s \in Tasks : s < S => s \in run.done
    /\ run.pc = "review" => Tasks \subseteq run.done
    /\ run.pc = "paused" => asked.task \in Tasks /\ rows[run.cycle][asked.task] # "none"
    /\ asked.declared # {} => asked.actual # {} /\ asked.task \in Works
    /\ asked.declared \subseteq Dropped

\* What a turn has come to: a report of a probe, or a commit of a worker.
PhaseOK ==
    /\ turn.phase \in {"judge", "rescue"} => W \in Works
    /\ turn.phase = "report" =>
          W \in Probes /\ (turn.says = "satisfied" => turn.report \in [Bindings(W) -> Paths])
    /\ turn.phase = "rescue" => turn.commit # {}

DriverInv == ContractsTypeOK /\ DriverOK /\ PhaseOK

\* Steps of a kind.
Turns    == Observed \/ ReportRetried \/ Verified \/ Retry
Ends     == TurnLost \/ ReportRefused \/ BindRefused \/ FailVerification
Asks     == ReportBlocked \/ AskDecision \/ AskMismatch
Finishes == ScriptedFallback \/ Settle \/ NothingToChange \/ Rescued \/ AutoResolved
Answered == TextAnswer \/ SkipAnswer \/ AcceptAnswer

LEMMA Steps ==
  ASSUME [ContractsNext]_contractsVars
  PROVE  \/ PassOver \/ Dispatch \/ AllDone \/ Reviewed \/ Turns \/ Ends \/ Asks \/ Bind
         \/ WorkTurn \/ Finishes \/ Mismatch \/ Answered \/ AbortAnswer
         \/ UNCHANGED contractsVars
  BY DEF ContractsNext, Program, Answer, Turns, Ends, Asks, Finishes, Answered

LEMMA ShapeFacts ==
  ASSUME shape \in Shapes
  PROVE  /\ shape.n \in Nat /\ Probes \subseteq Tasks /\ Works \subseteq Tasks
         /\ \A s \in Tasks : shape.needs[s] \subseteq Tasks
         /\ \A b \in shape.binds : b.of \in Probes /\ b.to \in Works
                                   /\ b.field \in {"files", "verify", "text"}
         /\ shape.files \in [Tasks -> Seq(Paths)] /\ shape.verify \in [Tasks -> SUBSET Paths]
         /\ shape.disk \in [Tasks -> SUBSET Paths]
  <1>1. ShapeOK(shape)
    BY ShapesAssumption
  <1> QED
    BY <1>1, SMTT(40) DEF ShapeOK, Tasks, Probes, Works

LEMMA ShapeKeeps ==
  ASSUME [ContractsNext]_contractsVars
  PROVE  /\ shape' = shape /\ Tasks' = Tasks /\ Probes' = Probes /\ Works' = Works
         /\ \A p : Bindings(p)' = Bindings(p)
  <1>1. shape' = shape
    <2>1. CASE PassOver \/ Dispatch \/ AllDone \/ Reviewed \/ Bind \/ Mismatch
               \/ Answered \/ AbortAnswer \/ UNCHANGED contractsVars
      BY <2>1 DEF PassOver, Dispatch, AllDone, Reviewed, Bind, Mismatch, Answered, AbortAnswer,
         contractsVars, plans, TextAnswer, SkipAnswer, AcceptAnswer, Resume
    <2>2. CASE Turns \/ Ends \/ Finishes
      BY <2>2 DEF Turns, Ends, Finishes, plans, Observed, ReportRetried, Verified, Retry,
         TurnLost, ReportRefused, BindRefused, FailVerification, ScriptedFallback, Settle,
         NothingToChange, Rescued, AutoResolved
    <2>3. CASE Asks
      BY <2>3 DEF Asks, plans, ReportBlocked, AskDecision, AskMismatch
    <2>4. CASE WorkTurn
      <3>1. PICK commit, left, says : Worked(commit, left, says)
        BY <2>4 DEF WorkTurn
      <3> QED
        BY <3>1 DEF Worked
    <2> QED
      BY <2>1, <2>2, <2>3, <2>4, Steps
  <1> QED
    BY <1>1 DEF Tasks, Probes, Works, Bindings

\* A sub-task under way.
LEMMA UnderWay ==
  ASSUME DriverInv, turn.phase # "idle"
  PROVE  W \in Tasks /\ W # 0 /\ S = W /\ run.pc = "running" /\ run.cycle \in Cycles
  BY DEF DriverInv, ContractsTypeOK, DriverOK, RunTypes, TurnTypes, W, S

\* What a step of a kind changes.
LEMMA TurnsDo ==
  ASSUME DriverInv, Turns
  PROVE  /\ turn.phase # "idle" /\ W' = W /\ turn'.phase # "idle"
         /\ UNCHANGED <<shape, stored, live, held, reports, rows, run, branch, written, found,
                        asked, past>>
  BY DEF DriverInv, ContractsTypeOK, TurnTypes, Turns, Observed, ReportRetried, Invalid, Verified,
     Judging, Retry, plans, db, work, NoTurn, W

LEMMA EndsDo ==
  ASSUME DriverInv, Ends
  PROVE  /\ turn.phase # "idle" /\ turn' = NoTurn /\ run' = [run EXCEPT !.pc = "ended"]
         /\ \E verdict \in {"failed", "failed_verification"} :
               rows' = [rows EXCEPT ![run.cycle][W] = verdict]
         /\ UNCHANGED <<shape, stored, live, held, reports, branch, written, found, asked, past>>
  BY DEF Ends, TurnLost, ReportRefused, Invalid, BindRefused, FailVerification, Failed, Judging,
     Fails, Put, plans, work

LEMMA AsksDo ==
  ASSUME DriverInv, Asks
  PROVE  /\ turn.phase # "idle" /\ turn' = NoTurn /\ run' = [run EXCEPT !.pc = "paused"]
         /\ \/ UNCHANGED rows
            \/ \E verdict \in {"blocked", "failed_verification"} :
                  rows' = [rows EXCEPT ![run.cycle][W] = verdict]
         /\ UNCHANGED <<shape, stored, live, held, reports, branch, written, found>>
         /\ \/ past' = past
            \/ /\ AskDecision /\ Missing = {}
               /\ past' = [past EXCEPT !.settled = {e \in @ : e[1] # W}]
         /\ asked'.task = W /\ (asked'.declared # {} => AskMismatch)
  <1>1. CASE ReportBlocked
    BY <1>1 DEF ReportBlocked, Pauses, Put, plans, work, NothingAsked
  <1>2. CASE AskDecision
    BY <1>2 DEF AskDecision, Failed, Judging, Pauses, Put, plans, work, NothingAsked
  <1>3. CASE AskMismatch
    BY <1>3 DEF AskMismatch, Pauses, plans, work, db
  <1> QED
    BY <1>1, <1>2, <1>3 DEF Asks

LEMMA FinishesDo ==
  ASSUME DriverInv, Finishes
  PROVE  /\ turn.phase # "idle" /\ turn' = NoTurn
         /\ run' = [run EXCEPT !.done = @ \cup {W}, !.at = @ + 1]
         /\ \E verdict \in Accepted : rows' = [rows EXCEPT ![run.cycle][W] = verdict]
         /\ UNCHANGED <<shape, stored, reports, branch, written, found, asked>>
  BY DEF Finishes, ScriptedFallback, Settle, NothingToChange, Judging, Rescued, AutoResolved,
     Complete, Put, plans, work, Accepted

LEMMA AnsweredDoes ==
  ASSUME DriverInv, Answered
  PROVE  /\ run.pc = "paused" /\ run.n < MaxRuns /\ asked' = NothingAsked
         /\ run' = NewRun(Completed(rows'), run.n + 1) /\ live' = stored'.plan
         /\ held' = Hydrated(stored'.rev) /\ found' = {}
         /\ \/ rows' = rows
            \/ \E verdict \in Accepted : rows' = Marked(asked.task, verdict)
         /\ \/ stored' = [plan |-> stored.plan, rev |-> stored.rev]
            \/ asked.actual # {} /\ stored' = [plan |-> AcceptedPlan, rev |-> stored.rev + 1]
         /\ UNCHANGED <<shape, reports, turn, branch, written>>
  BY DEF Answered, TextAnswer, SkipAnswer, AcceptAnswer, Answerable, Resume, Accepted


\* Bindings and corrections make plans of plans.
LEMMA BoundTyped ==
  ASSUME NEW plan, PlanOK(plan), shape \in Shapes, NEW p \in Probes,
         NEW v \in [Bindings(p) -> Paths]
  PROVE  PlanOK(Bound(plan, p, v))
  <1>1. \A w \in Tasks : \A field \in {"files", "verify"} : {v[b] : b \in To(w, p, field)} \in SUBSET Paths
    BY DEF To
  <1>2. \A w \in Tasks : plan.files[w] \in Seq(Paths) /\ plan.verify[w] \in SUBSET Paths
    BY DEF PlanOK
  <1>3. \A w \in Tasks : Appended(plan.files[w], {v[b] : b \in To(w, p, "files")}) \in Seq(Paths)
    BY <1>1, <1>2, AppendedKeeps
  <1>4. \A w \in Tasks : plan.verify[w] \cup {v[b] : b \in To(w, p, "verify")} \in SUBSET Paths
    BY <1>1, <1>2
  <1>5. plan.open \ Bindings(p) \in SUBSET shape.binds /\ plan.disk \in [Tasks -> SUBSET Paths]
    BY DEF PlanOK
  <1> QED
    BY <1>3, <1>4, <1>5 DEF PlanOK, Bound

LEMMA CorrectedTyped ==
  ASSUME NEW plan, PlanOK(plan), NEW w \in Tasks, NEW fixes \in SUBSET (Paths \X Paths)
  PROVE  PlanOK([plan EXCEPT !.files[w] = Corrected(@, fixes)])
  <1>1. plan.files[w] \in Seq(Paths)
    BY DEF PlanOK
  <1>2. Corrected(plan.files[w], fixes) \in Seq(Paths)
    BY <1>1, CorrectedKeeps
  <1> QED
    BY <1>2 DEF PlanOK

LEMMA AcceptedTyped ==
  ASSUME ContractsTypeOK, asked.task \in Tasks
  PROVE  PlanOK(AcceptedPlan)
  <1>1. stored.plan.files[asked.task] \in Seq(Paths) /\ asked.actual \in SUBSET Paths
    BY DEF ContractsTypeOK, PlanOK, AskedTypes
  <1>2. Distinct(stored.plan.files[asked.task], Dropped) \in Seq(Paths)
    BY <1>1, DistinctKeeps
  <1>3. Appended(Distinct(stored.plan.files[asked.task], Dropped), asked.actual) \in Seq(Paths)
    BY <1>1, <1>2, AppendedKeeps
  <1> QED
    BY <1>3 DEF ContractsTypeOK, PlanOK, AcceptedPlan

\* What a sub-task owes is named by its plan.
LEMMA DeclaredTyped ==
  ASSUME NEW plan, PlanOK(plan), NEW w \in Tasks
  PROVE  /\ Declared(plan, w) \in SUBSET Paths
         /\ Committed(plan, w) \in SUBSET Paths /\ OnDisk(plan, w) \in SUBSET Paths
         /\ Declared(plan, w) \subseteq plan.verify[w] \cup plan.disk[w] \cup ToSet(plan.files[w])
         /\ ~Explicit(plan, w) /\ Declared(plan, w) # {} =>
               plan.files[w] # <<>> /\ Declared(plan, w) = {Head(plan.files[w])}
  <1>1. plan.files[w] \in Seq(Paths) /\ plan.verify[w] \in SUBSET Paths /\ plan.disk[w] \in SUBSET Paths
    BY DEF PlanOK
  <1>2. plan.files[w] # <<>> =>
           Head(plan.files[w]) \in Paths /\ Head(plan.files[w]) \in ToSet(plan.files[w])
    <2> SUFFICES ASSUME plan.files[w] # <<>>
                 PROVE  Head(plan.files[w]) \in Paths /\ Head(plan.files[w]) \in ToSet(plan.files[w])
      OBVIOUS
    <2>1. 1 \in DOMAIN plan.files[w] /\ Head(plan.files[w]) = plan.files[w][1]
      BY <1>1
    <2> QED
      BY <1>1, <2>1 DEF ToSet
  <1>3. \A wording : Inferred(plan, w, wording) \in {{}, First(plan, w)}
    BY DEF Inferred
  <1>4. First(plan, w) \in SUBSET Paths /\ First(plan, w) \subseteq ToSet(plan.files[w])
    BY <1>2 DEF First
  <1>5. CASE Explicit(plan, w)
    BY <1>1, <1>5 DEF Declared, Committed, OnDisk
  <1>6. CASE ~Explicit(plan, w)
    <2>1. Committed(plan, w) \in {{}, First(plan, w)} /\ OnDisk(plan, w) \in {{}, First(plan, w)}
      BY <1>3, <1>6 DEF Committed, OnDisk
    <2>2. Declared(plan, w) \in {{}, First(plan, w)}
      BY <2>1 DEF Declared
    <2>3. Declared(plan, w) # {} => plan.files[w] # <<>> /\ Declared(plan, w) = {Head(plan.files[w])}
      BY <2>2 DEF First
    <2> QED
      BY <1>4, <2>1, <2>2, <2>3
  <1> QED
    BY <1>5, <1>6

\* A correction is a name the harness recognises: of a declared path that is
\* not there, or to one that the commit touched.
LEMMA FixesAre ==
  ASSUME PlanOK(live), NEW w \in Tasks, NEW touched \in SUBSET Paths
  PROVE  \A f \in Fixes(w, touched) :
            /\ f \in Paths \X Paths /\ Recognised(f[1], f[2])
            /\ \/ f[1] \in Declared(live, w) \ Tree
               \/ f[2] \in touched
            /\ \/ f[1] \in Declared(live, w)
               \/ \E g \in Fixes(w, touched) : g[1] \in Declared(live, w) \ Tree /\ g[2] = f[1]
  <1> DEFINE declared == Declared(live, w)
             drifted == {<<p, Rederived(p, found \cup touched)>> : p \in declared}
             moved == {f \in drifted : f[1] # f[2]}
  <1>1. declared \in SUBSET Paths
    BY DeclaredTyped
  <1> HIDE DEF declared
  <1>2. ASSUME NEW f \in moved
        PROVE  f \in Paths \X Paths /\ Recognised(f[1], f[2]) /\ f[1] \in declared \ Tree
    <2>1. PICK p \in declared : f = <<p, Rederived(p, found \cup touched)>>
      OBVIOUS
    <2>2. Rederived(p, found \cup touched) # p
      BY <2>1
    <2>3. p \notin Tree /\ Rederived(p, found \cup touched) = Drift[p]
      BY <2>2 DEF Rederived
    <2>4. p \in Paths /\ Drift[p] \in Paths
      BY <1>1, ContractsAssumption
    <2> QED
      BY <2>1, <2>3, <2>4 DEF Recognised
  <1>3. ASSUME NEW f \in Reconciles(Replaced(declared, moved), touched)
        PROVE  /\ f \in Paths \X Paths /\ Recognised(f[1], f[2]) /\ f[2] \in touched
               /\ f[1] \in declared \/ \E g \in moved : g[2] = f[1]
    <2>1. /\ f \in Tests \X Tests /\ {f[2]} = (touched \cap Tests) \ Replaced(declared, moved)
          /\ f[1] \in Replaced(declared, moved)
      BY DEF Reconciles
    <2>2. Tests \subseteq Paths
      BY ContractsAssumption
    <2>3. f[1] \in declared \/ \E g \in moved : g[2] = f[1]
      <3> HIDE DEF moved
      <3>1. f[1] \in declared \/ \E p \in declared : <<p, f[1]>> \in moved
        BY <2>1 DEF Replaced
      <3> QED
        BY <3>1
    <2> QED
      BY <2>1, <2>2, <2>3 DEF Recognised
  <1>4. Fixes(w, touched) = moved \cup Reconciles(Replaced(declared, moved), touched)
    BY DEF Fixes, declared
  <1> HIDE DEF moved
  <1> QED
    BY <1>2, <1>3, <1>4 DEF declared

\* A worker's turn.
Idles(commit, left) == turn.tries = 0 /\ run.cycle > 1 /\ commit \cup left = {}
Names(commit, left) ==
    IF Idles(commit, left) THEN {}
    ELSE IF turn.tries = 0 THEN Fixes(W, commit \cup left) ELSE turn.fixes
Renamed(kind, commit, left, before) ==
    IF Idles(commit, left) THEN {}
    ELSE IF turn.tries = 0
         THEN Replaced(Replaced(kind, Names(commit, left)), Names(commit, left))
         ELSE before
Owed(commit, left) == Renamed(Committed(live, W), commit, left, turn.contract)
Disked(commit, left) ==
    Renamed(OnDisk(live, W), commit, left, turn.disk)
        \ (IF run.cycle = 1 THEN commit \cup left ELSE {})

LEMMA WorkDoes ==
  ASSUME DriverInv, WorkTurn
  PROVE  /\ turn.phase = "turn" /\ W \in Works
         /\ UNCHANGED <<shape, stored, held, reports, rows, run, asked>>
         /\ \E commit \in SUBSET Paths, left \in SUBSET Paths,
               says \in {"progress", "decides", "nothing"} :
               /\ branch' = branch \cup commit /\ found' = found \cup commit \cup left
               /\ written' = IF run.cycle = 1 THEN [written EXCEPT ![W] = @ \cup commit] ELSE written
               /\ turn' = [turn EXCEPT !.phase = "judge", !.commit = commit, !.dirty = left # {},
                                       !.says = says, !.fixes = Names(commit, left),
                                       !.contract = Owed(commit, left), !.disk = Disked(commit, left)]
               /\ live' = IF turn.tries = 0
                          THEN [live EXCEPT !.files[W] = Corrected(@, Names(commit, left))]
                          ELSE live
               /\ past' = IF Idles(commit, left) THEN [past EXCEPT !.loose = @ \cup {W}]
                          ELSE [past EXCEPT !.settled = @ \ Reopened(Names(commit, left), commit)]
               /\ Names(commit, left) \in SUBSET (Paths \X Paths)
               /\ Owed(commit, left) \in SUBSET Paths /\ Disked(commit, left) \in SUBSET Paths
  <1>1. PICK commit \in SUBSET Paths, left \in SUBSET Paths, says \in {"progress", "decides", "nothing"} :
             Worked(commit, left, says)
    BY DEF WorkTurn, FileSets
  <1>2. turn.phase = "turn" /\ W \in Works /\ W \in Tasks
    BY <1>1 DEF Worked, Works
  <1>3. UNCHANGED <<shape, stored, held, reports, rows, run, asked>>
    BY <1>1 DEF Worked, db
  <1>4. /\ branch' = branch \cup commit /\ found' = found \cup commit \cup left
        /\ written' = IF run.cycle = 1 THEN [written EXCEPT ![W] = @ \cup commit] ELSE written
    BY <1>1 DEF Worked
  <1>5. /\ turn' = [turn EXCEPT !.phase = "judge", !.commit = commit, !.dirty = left # {},
                                !.says = says, !.fixes = Names(commit, left),
                                !.contract = Owed(commit, left), !.disk = Disked(commit, left)]
        /\ live' = IF turn.tries = 0
                   THEN [live EXCEPT !.files[W] = Corrected(@, Names(commit, left))]
                   ELSE live
        /\ past' = IF Idles(commit, left) THEN [past EXCEPT !.loose = @ \cup {W}]
                   ELSE [past EXCEPT !.settled = @ \ Reopened(Names(commit, left), commit)]
    BY <1>1 DEF Worked, Owed, Disked, Renamed, Names, Idles
  <1>6. Names(commit, left) \in SUBSET (Paths \X Paths)
    <2>1. \A f \in Fixes(W, commit \cup left) : f \in Paths \X Paths
      BY <1>2, FixesAre DEF DriverInv, ContractsTypeOK
    <2> QED
      BY <2>1 DEF Names, DriverInv, ContractsTypeOK, TurnTypes
  <1>7. Owed(commit, left) \in SUBSET Paths /\ Disked(commit, left) \in SUBSET Paths
    <2>1. Committed(live, W) \in SUBSET Paths /\ OnDisk(live, W) \in SUBSET Paths
      BY <1>2, DeclaredTyped DEF DriverInv, ContractsTypeOK
    <2>2. ASSUME NEW kind \in SUBSET Paths, NEW before \in SUBSET Paths
          PROVE  Renamed(kind, commit, left, before) \in SUBSET Paths
      <3>1. Replaced(kind, Names(commit, left)) \in SUBSET Paths
        BY <1>6, ReplacedKeeps
      <3>2. Replaced(Replaced(kind, Names(commit, left)), Names(commit, left)) \in SUBSET Paths
        BY <1>6, <3>1, ReplacedKeeps
      <3> QED
        BY <3>2 DEF Renamed
    <2>3. turn.contract \in SUBSET Paths /\ turn.disk \in SUBSET Paths
      BY DEF DriverInv, ContractsTypeOK, TurnTypes
    <2>4. Owed(commit, left) \in SUBSET Paths
      BY <2>1, <2>2, <2>3 DEF Owed
    <2>5. Renamed(OnDisk(live, W), commit, left, turn.disk) \in SUBSET Paths
      BY <2>1, <2>2, <2>3
    <2> QED
      BY <2>4, <2>5 DEF Disked
  <1> QED
    BY <1>2, <1>3, <1>4, <1>5, <1>6, <1>7


\* What stays settled over the turn of its sub-task is no corrected name, and
\* no path of the branch got the name of a file that was not committed.
LEMMA StaysSettled ==
  ASSUME past \in PastTypes, NEW commit, NEW left, NEW p, <<W, p>> \in past'.settled,
         past' = IF Idles(commit, left) THEN [past EXCEPT !.loose = @ \cup {W}]
                 ELSE [past EXCEPT !.settled = @ \ Reopened(Names(commit, left), commit)]
  PROVE  /\ <<W, p>> \in past.settled
         /\ \A f \in Names(commit, left) :
               p # f[2] /\ (f[1] \in branch => f[2] \in commit)
  <1>1. CASE Idles(commit, left)
    BY <1>1 DEF Names, PastTypes
  <1>2. CASE ~Idles(commit, left)
    <2>1. past'.settled = past.settled \ Reopened(Names(commit, left), commit)
      BY <1>2 DEF PastTypes
    <2>2. <<W, p>> \in past.settled /\ <<W, p>> \notin Reopened(Names(commit, left), commit)
      BY <2>1
    <2> QED
      BY <2>2 DEF Reopened
  <1> QED
    BY <1>1, <1>2

\* A rescue: the one path that is missing, under the name it was committed by.
LEMMA RescueDoes ==
  ASSUME DriverInv, Rescued
  PROVE  /\ W \in Works /\ turn.phase = "rescue"
         /\ \E f \in Paths \X Paths :
               /\ Missing = {f[1]} /\ f[2] \in turn.commit /\ Recognised(f[1], f[2])
               /\ live' = [live EXCEPT !.files[W] = Corrected(@, {f})]
               /\ past' = [past EXCEPT !.settled = @ \ {<<W, f[2]>>}]
  <1>1. PICK f \in Rescues :
           /\ live' = [live EXCEPT !.files[W] = Corrected(@, {f})]
           /\ past' = [past EXCEPT !.settled = @ \ {<<W, f[2]>>}]
    BY DEF Rescued
  <1>2. /\ f \in Twins \cup Inside /\ f \in Paths \X Paths
        /\ Missing = {f[1]} /\ f[2] \in turn.commit
    BY ContractsAssumption DEF Rescues
  <1>3. Recognised(f[1], f[2])
    BY <1>2 DEF Recognised
  <1>4. W \in Works /\ turn.phase = "rescue"
    BY DEF Rescued, DriverInv, PhaseOK
  <1> QED
    BY <1>1, <1>2, <1>3, <1>4

\* What else a sub-task leaves when it is over.
LEMMA FinishLeaves ==
  ASSUME DriverInv, Finishes
  PROVE  \/ Rescued
         \/ /\ live' = live
            /\ \/ /\ ScriptedFallback /\ W \in Probes
                  /\ past' = [past EXCEPT !.excused = @ \cup {W}]
               \/ Settle /\ past' = past
               \/ NothingToChange /\ W \in Works /\ past' = [past EXCEPT !.loose = @ \cup {W}]
               \/ AutoResolved /\ W \in Works /\ past' = past
  BY DEF DriverInv, PhaseOK, Finishes, ScriptedFallback, Settle, NothingToChange, Judging,
     AutoResolved, plans

LEMMA BindDoes ==
  ASSUME DriverInv, Bind
  PROVE  /\ W \in Probes /\ turn.report \in [Bindings(W) -> Paths] /\ turn.phase = "report"
         /\ live' = Bound(live, W, turn.report) /\ Revised(W) \in Nat
         /\ stored' = IF Bindings(W) = {} THEN stored ELSE [plan |-> live', rev |-> Revised(W)]
         /\ stored'.rev = Revised(W) /\ Revised(W) >= stored.rev
         /\ reports' = [reports EXCEPT ![W] = Revised(W)]
         /\ turn' = [NoTurn EXCEPT !.task = W, !.phase = "settle"]
         /\ UNCHANGED <<shape, held, rows, run, branch, written, found, asked>>
  BY DEF DriverInv, ContractsTypeOK, PhaseOK, Bind, Activated, Revised, work

-----------------------------------------------------------------------------

\* The plans stay plans, and their revision grows.
LEMMA PlansTyped ==
  ASSUME DriverInv, [ContractsNext]_contractsVars
  PROVE  /\ PlanOK(live') /\ PlanOK(stored'.plan)
         /\ stored' \in [plan : {stored'.plan}, rev : Nat]
         /\ reports' \in [Tasks -> -1 .. stored'.rev] /\ held' \in SUBSET Probes
  <1>0. /\ shape \in Shapes /\ PlanOK(live) /\ PlanOK(stored.plan)
        /\ stored \in [plan : {stored.plan}, rev : Nat] /\ reports \in [Tasks -> -1 .. stored.rev]
        /\ held \in SUBSET Probes /\ Probes \subseteq Tasks /\ Works \subseteq Tasks
    BY ShapeFacts DEF DriverInv, ContractsTypeOK
  <1>1. CASE UNCHANGED <<stored, live, held, reports>>
    BY <1>0, <1>1
  <1>2. CASE Reviewed
    <2>1. UNCHANGED <<live, held, reports>> /\ stored' \in {stored, [plan |-> live, rev |-> stored.rev + 1]}
      BY <1>2 DEF Reviewed, db
    <2> QED
      BY <1>0, <2>1
  <1>3. CASE Bind
    <2>1. PlanOK(live')
      BY <1>0, <1>3, BindDoes, BoundTyped
    <2> QED
      BY <1>0, <1>3, <2>1, BindDoes
  <1>4. CASE WorkTurn
    <2>1. UNCHANGED <<stored, held, reports>> /\ W \in Tasks
      BY <1>0, <1>4, WorkDoes
    <2>2. PICK fixes \in SUBSET (Paths \X Paths) :
             live' \in {live, [live EXCEPT !.files[W] = Corrected(@, fixes)]}
      BY <1>4, WorkDoes
    <2>3. PlanOK(live')
      BY <1>0, <2>1, <2>2, CorrectedTyped
    <2> QED
      BY <1>0, <2>1, <2>3
  <1>5. CASE Finishes
    <2>1. UNCHANGED <<stored, reports>> /\ held' \in SUBSET Probes
      BY <1>0, <1>5, FinishesDo DEF Finishes, ScriptedFallback, Settle, NothingToChange, Rescued,
         AutoResolved
    <2>2. PlanOK(live')
      <3>1. CASE Rescued
        <4>1. PICK f \in Paths \X Paths : live' = [live EXCEPT !.files[W] = Corrected(@, {f})]
          BY <3>1, RescueDoes
        <4>2. W \in Tasks /\ {f} \in SUBSET (Paths \X Paths)
          BY <1>0, <3>1, RescueDoes
        <4> QED
          BY <1>0, <4>1, <4>2, CorrectedTyped
      <3> QED
        BY <1>0, <1>5, <3>1, FinishLeaves
    <2> QED
      BY <1>0, <2>1, <2>2
  <1>6. CASE Answered
    <2>1. asked.actual # {} \/ asked.actual = {}
      OBVIOUS
    <2>2. PlanOK(stored'.plan) /\ stored' \in [plan : {stored'.plan}, rev : Nat] /\ stored'.rev >= stored.rev
      <3>1. asked.task \in Tasks
        BY <1>6, AnsweredDoes DEF DriverInv, DriverOK
      <3> QED
        BY <1>0, <1>6, <3>1, AnsweredDoes, AcceptedTyped DEF DriverInv
    <2>3. live' = stored'.plan /\ held' \in SUBSET Probes /\ reports' = reports
      BY <1>6, AnsweredDoes DEF Hydrated
    <2> QED
      BY <1>0, <2>2, <2>3
  <1>7. CASE PassOver \/ Dispatch \/ AllDone \/ Mismatch \/ AbortAnswer \/ UNCHANGED contractsVars
    BY <1>1, <1>7 DEF PassOver, Dispatch, AllDone, Mismatch, AbortAnswer, contractsVars, plans, db
  <1> QED
    BY <1>1, <1>2, <1>3, <1>4, <1>5, <1>6, <1>7, Steps, TurnsDo, EndsDo, AsksDo
    DEF Asks, ReportBlocked, AskDecision, AskMismatch

\* Every cycle has its rows; the driver stays within the plan and the bounds.
LEMMA RowsTyped ==
  ASSUME DriverInv, [ContractsNext]_contractsVars
  PROVE  /\ rows' \in [Cycles -> [Tasks -> RowStatuses]]
         /\ run' \in RunTypes
  <1>0. /\ shape \in Shapes /\ run \in RunTypes /\ rows \in [Cycles -> [Tasks -> RowStatuses]]
        /\ shape.n \in Nat /\ MaxCycles \in Nat \ {0} /\ MaxRuns \in Nat \ {0}
    BY ShapeFacts, ContractsAssumption DEF DriverInv, ContractsTypeOK
  <1>1. ASSUME NEW verdict \in RowStatuses, NEW c, NEW s
        PROVE  [rows EXCEPT ![c][s] = verdict] \in [Cycles -> [Tasks -> RowStatuses]]
    BY <1>0
  <1>2. {"running", "failed", "failed_verification", "blocked", "completed", "completed_no_change"}
          \subseteq RowStatuses /\ Accepted \subseteq RowStatuses
    BY DEF RowStatuses, Accepted
  <1>3. CASE PassOver
    <2>1. S \in Tasks /\ run.cycle \in Cycles /\ S \in Nat
      BY <1>0, <1>3 DEF PassOver, RunTypes, S
    <2>2. rows' \in {rows, [rows EXCEPT ![run.cycle][S] = "completed_no_change"]}
      BY <1>3 DEF PassOver
    <2>3. run' = [run EXCEPT !.at = @ + 1] \/ run' = [run EXCEPT !.done = @ \cup {S}, !.at = @ + 1]
      BY <1>3 DEF PassOver, Complete
    <2>4. run.at + 1 \in 1 .. (shape.n + 1)
      BY <1>0, <2>1 DEF S, Tasks
    <2>5. rows' \in [Cycles -> [Tasks -> RowStatuses]]
      <3>1. "completed_no_change" \in RowStatuses
        BY <1>2
      <3>2. [rows EXCEPT ![run.cycle][S] = "completed_no_change"] \in [Cycles -> [Tasks -> RowStatuses]]
        BY <1>1, <3>1
      <3> QED
        BY <1>0, <2>2, <3>2
    <2>6. [run EXCEPT !.at = @ + 1] \in RunTypes
      BY <1>0, <2>4 DEF RunTypes
    <2>7. [run EXCEPT !.done = @ \cup {S}, !.at = @ + 1] \in RunTypes
      BY <1>0, <2>1, <2>4 DEF RunTypes
    <2> QED
      BY <2>3, <2>5, <2>6, <2>7
  <1>4. CASE Dispatch
    <2>1. S \in Tasks /\ run.cycle \in Cycles
      BY <1>0, <1>4 DEF Dispatch, RunTypes
    <2>2. rows' = [rows EXCEPT ![run.cycle][S] = "running"] /\ run' = run
      BY <1>4 DEF Dispatch, Put
    <2>3. rows' \in [Cycles -> [Tasks -> RowStatuses]]
      BY <1>1, <1>2, <2>2
    <2> QED
      BY <1>0, <2>2, <2>3 DEF RunTypes
  <1>5. CASE AllDone \/ AbortAnswer
    <2>1. rows' = rows /\ (run' = [run EXCEPT !.pc = "review"] \/ run' = [run EXCEPT !.pc = "ended"])
      BY <1>5 DEF AllDone, AbortAnswer, db
    <2> QED
      BY <1>0, <2>1 DEF RunTypes
  <1>6. CASE Reviewed
    <2>1. /\ rows' = rows
          /\ \/ run' = [run EXCEPT !.pc = "ended"]
             \/ /\ run.cycle < MaxCycles
                /\ \E scoped \in SUBSET Tasks :
                      run' = [run EXCEPT !.pc = "running", !.cycle = @ + 1, !.at = 1,
                                         !.done = {}, !.scoped = scoped]
      BY <1>6 DEF Reviewed, db
    <2>2. CASE run' = [run EXCEPT !.pc = "ended"]
      BY <1>0, <2>1, <2>2 DEF RunTypes
    <2>3. CASE run.cycle < MaxCycles /\ run' # [run EXCEPT !.pc = "ended"]
      <3>1. run.cycle + 1 \in Cycles /\ 1 \in 1 .. (shape.n + 1)
        BY <1>0, <2>3 DEF RunTypes, Cycles
      <3> QED
        BY <1>0, <2>1, <2>3, <3>1 DEF RunTypes
    <2> QED
      BY <2>1, <2>2, <2>3
  <1>7. CASE Turns \/ Bind \/ WorkTurn \/ UNCHANGED contractsVars
    <2>1. rows' = rows /\ run' = run
      BY <1>7, TurnsDo, BindDoes, WorkDoes DEF contractsVars
    <2> QED
      BY <1>0, <2>1 DEF RunTypes
  <1>8. CASE Ends \/ Asks \/ Mismatch
    <2>1. W \in Tasks /\ run.cycle \in Cycles
      <3>1. turn.phase # "idle"
        BY <1>8, EndsDo, AsksDo DEF Mismatch, Failed, Judging
      <3> QED
        BY <3>1, UnderWay
    <2>2. \/ rows' = rows
          \/ \E verdict \in RowStatuses : rows' = [rows EXCEPT ![run.cycle][W] = verdict]
      BY <1>2, <1>8, EndsDo, AsksDo DEF Mismatch, Put
    <2>3. run' \in {run, [run EXCEPT !.pc = "ended"], [run EXCEPT !.pc = "paused"]}
      BY <1>8, EndsDo, AsksDo DEF Mismatch
    <2>4. rows' \in [Cycles -> [Tasks -> RowStatuses]]
      <3>1. ASSUME NEW verdict \in RowStatuses, rows' = [rows EXCEPT ![run.cycle][W] = verdict]
            PROVE  rows' \in [Cycles -> [Tasks -> RowStatuses]]
        BY <1>1, <3>1
      <3> QED
        BY <1>0, <2>2, <3>1
    <2> QED
      BY <1>0, <2>3, <2>4 DEF RunTypes
  <1>9. CASE Finishes
    <2>1. W \in Tasks /\ run.cycle \in Cycles /\ S = W
      BY <1>9, FinishesDo, UnderWay
    <2>2. run.at + 1 \in 1 .. (shape.n + 1)
      BY <1>0, <2>1 DEF S, Tasks
    <2>3. /\ \E verdict \in RowStatuses : rows' = [rows EXCEPT ![run.cycle][W] = verdict]
          /\ run' = [run EXCEPT !.done = @ \cup {W}, !.at = @ + 1]
      BY <1>2, <1>9, FinishesDo
    <2>4. rows' \in [Cycles -> [Tasks -> RowStatuses]]
      BY <1>1, <2>3
    <2> QED
      BY <1>0, <2>1, <2>2, <2>3, <2>4 DEF RunTypes
  <1>10. CASE Answered
    <2>1. Completed(rows') \in SUBSET Tasks /\ run.n \in 1 .. MaxRuns /\ 1 \in Cycles
      BY <1>0 DEF Completed, RunTypes, Cycles
    <2>2. run' = NewRun(Completed(rows'), run.n + 1) /\ run.n + 1 \in 1 .. MaxRuns
      BY <1>0, <1>10, <2>1, AnsweredDoes
    <2>3. run' \in RunTypes
      BY <1>0, <2>1, <2>2 DEF NewRun, RunTypes
    <2>4. rows' \in [Cycles -> [Tasks -> RowStatuses]]
      <3>1. CASE rows' = rows
        BY <1>0, <3>1
      <3>2. ASSUME NEW verdict \in Accepted, rows' = Marked(asked.task, verdict)
            PROVE  rows' \in [Cycles -> [Tasks -> RowStatuses]]
        BY <1>1, <1>2, <3>2 DEF Marked
      <3> QED
        BY <1>10, <3>1, <3>2, AnsweredDoes
    <2> QED
      BY <2>3, <2>4
  <1> QED
    BY <1>3, <1>4, <1>5, <1>6, <1>7, <1>8, <1>9, <1>10, Steps


LEMMA NoTurnTyped ==
  ASSUME NEW made, NEW w \in Tasks, NEW phase \in {"turn", "settle"}
  PROVE  /\ NoTurn \in TurnTypes(made)
         /\ [NoTurn EXCEPT !.task = w, !.phase = phase] \in TurnTypes(made)
  <1>1. 0 \in 0 .. MaxTries
    BY ContractsAssumption
  <1> DEFINE Reports == {<<>>} \cup UNION {[Bindings(p) -> Paths] : p \in Probes}
  <1>2. <<>> \in Reports
    OBVIOUS
  <1> HIDE DEF Reports
  <1>3. NoTurn \in TurnTypes(made)
    BY <1>1, <1>2 DEF NoTurn, TurnTypes, Reports
  <1>4. phase \in {"idle", "turn", "report", "judge", "rescue", "settle"}
    OBVIOUS
  <1>5. [NoTurn EXCEPT !.task = w, !.phase = phase] \in TurnTypes(made)
    BY <1>3, <1>4 DEF TurnTypes
  <1> QED
    BY <1>3, <1>5

\* The commit of a turn is on the branch, and its contract is of paths.
LEMMA TurnTyped ==
  ASSUME DriverInv, [ContractsNext]_contractsVars
  PROVE  /\ turn' \in TurnTypes(branch')
         /\ branch' \in SUBSET Paths /\ found' \in SUBSET Paths /\ branch \subseteq branch'
         /\ written' \in [Tasks -> SUBSET branch'] /\ \A s \in Tasks : written[s] \subseteq written'[s]
  <1>0. /\ shape \in Shapes /\ turn \in TurnTypes(branch) /\ Works \subseteq Tasks /\ Probes \subseteq Tasks
        /\ branch \in SUBSET Paths /\ found \in SUBSET Paths /\ written \in [Tasks -> SUBSET branch]
        /\ MaxTries \in Nat \ {0}
    BY ShapeFacts, ContractsAssumption DEF DriverInv, ContractsTypeOK, TurnTypes
  <1>1. NoTurn \in TurnTypes(branch)
    <2>1. CASE Tasks = {}
      <3>1. 0 \in 0 .. MaxTries /\ 0 \in Tasks \cup {0}
        BY <1>0
      <3> QED
        BY <3>1 DEF NoTurn, TurnTypes
    <2>2. CASE Tasks # {}
      BY <2>2, NoTurnTyped
    <2> QED
      BY <2>1, <2>2
  <1>2. CASE Dispatch \/ Bind
    <2>1. /\ UNCHANGED <<branch, found, written>>
          /\ \E w \in Tasks : \E phase \in {"turn", "settle"} :
                turn' = [NoTurn EXCEPT !.task = w, !.phase = phase]
      BY <1>0, <1>2, BindDoes DEF Dispatch, work
    <2>2. PICK w \in Tasks : \E phase \in {"turn", "settle"} :
             turn' = [NoTurn EXCEPT !.task = w, !.phase = phase]
      BY <2>1
    <2>3. PICK phase \in {"turn", "settle"} : turn' = [NoTurn EXCEPT !.task = w, !.phase = phase]
      BY <2>2
    <2>4. turn' \in TurnTypes(branch)
      BY <2>3, NoTurnTyped
    <2> QED
      BY <1>0, <2>1, <2>4, SMTT(40)
  <1>3. CASE Observed
    <2>1. UNCHANGED <<branch, found, written>> /\ W \in Probes
      BY <1>3 DEF Observed, work
    <2>2. \/ \E v \in [Bindings(W) -> Paths] :
                turn' = [turn EXCEPT !.phase = "report", !.says = "satisfied", !.report = v]
          \/ \E says \in {"blocked", "invalid"} :
                turn' = [turn EXCEPT !.phase = "report", !.says = says]
      BY <1>3 DEF Observed, Values
    <2>3. \A v \in [Bindings(W) -> Paths] :
             [turn EXCEPT !.phase = "report", !.says = "satisfied", !.report = v] \in TurnTypes(branch)
      <3> DEFINE Reports == {<<>>} \cup UNION {[Bindings(p) -> Paths] : p \in Probes}
      <3>1. [Bindings(W) -> Paths] \subseteq Reports
        BY <2>1
      <3> HIDE DEF Reports
      <3> TAKE v \in [Bindings(W) -> Paths]
      <3>2. v \in Reports
        BY <3>1
      <3> QED
        BY <1>0, <3>2 DEF TurnTypes, Reports
    <2>4. \A says \in {"blocked", "invalid"} :
             [turn EXCEPT !.phase = "report", !.says = says] \in TurnTypes(branch)
      BY <1>0 DEF TurnTypes
    <2> QED
      BY <1>0, <2>1, <2>2, <2>3, <2>4
  <1>4. CASE ReportRetried \/ Retry
    <2>1. UNCHANGED <<branch, found, written>> /\ turn' = [turn EXCEPT !.phase = "turn", !.tries = @ + 1]
      BY <1>4 DEF ReportRetried, Retry, work
    <2>2. turn.tries + 1 \in 0 .. MaxTries
      <3>1. turn.tries \in 0 .. MaxTries /\ turn.tries < MaxTries
        BY <1>0, <1>4, SMTT(40) DEF TurnTypes, ReportRetried, Retry, MayRetry, Budget
      <3> QED
        BY <1>0, <3>1
    <2> QED
      BY <1>0, <2>1, <2>2 DEF TurnTypes
  <1>5. CASE Verified
    <2>1. UNCHANGED <<branch, found, written>> /\ turn' = [NoTurn EXCEPT !.task = W, !.phase = "settle"]
      BY <1>5 DEF Verified, work
    <2>2. W \in Tasks
      BY <1>5, UnderWay DEF Verified, Judging
    <2> QED
      BY <1>0, <2>1, <2>2, NoTurnTyped
  <1>6. CASE Mismatch
    BY <1>0, <1>6 DEF Mismatch, work, TurnTypes
  <1>7. CASE WorkTurn
    <2>1. PICK commit \in SUBSET Paths, left \in SUBSET Paths, says \in {"progress", "decides", "nothing"} :
             /\ branch' = branch \cup commit /\ found' = found \cup commit \cup left
             /\ written' = IF run.cycle = 1 THEN [written EXCEPT ![W] = @ \cup commit] ELSE written
             /\ turn' = [turn EXCEPT !.phase = "judge", !.commit = commit, !.dirty = left # {},
                                     !.says = says, !.fixes = Names(commit, left),
                                     !.contract = Owed(commit, left), !.disk = Disked(commit, left)]
             /\ Names(commit, left) \in SUBSET (Paths \X Paths)
             /\ Owed(commit, left) \in SUBSET Paths /\ Disked(commit, left) \in SUBSET Paths
      BY <1>7, WorkDoes, ZenonT(60)
    <2>2. turn' \in TurnTypes(branch')
      BY <1>0, <2>1 DEF TurnTypes
    <2>3. /\ branch' \in SUBSET Paths /\ found' \in SUBSET Paths /\ branch \subseteq branch'
          /\ written' \in [Tasks -> SUBSET branch'] /\ \A s \in Tasks : written[s] \subseteq written'[s]
      BY <1>0, <2>1
    <2> QED
      BY <2>2, <2>3
  <1>8. CASE Ends \/ Asks \/ Finishes
    <2>1. UNCHANGED <<branch, found, written>> /\ turn' = NoTurn
      BY <1>8, EndsDo, AsksDo, FinishesDo
    <2> QED
      BY <1>0, <1>1, <2>1
  <1>9. CASE Answered
    BY <1>0, <1>9, AnsweredDoes
  <1>10. CASE PassOver \/ AllDone \/ Reviewed \/ AbortAnswer \/ UNCHANGED contractsVars
    BY <1>0, <1>10 DEF PassOver, AllDone, Reviewed, AbortAnswer, contractsVars, work
  <1> QED
    BY <1>2, <1>3, <1>4, <1>5, <1>6, <1>7, <1>8, <1>9, <1>10, Steps DEF Turns

\* A question is of what a turn came to.
LEMMA AskedTyped ==
  ASSUME DriverInv, [ContractsNext]_contractsVars
  PROVE  asked' \in AskedTypes(branch) \/ asked' = asked
  <1>1. NothingAsked \in AskedTypes(branch)
    BY DEF NothingAsked, AskedTypes
  <1>2. CASE ReportBlocked \/ AskDecision
    <2>1. W \in Tasks
      BY <1>2, AsksDo, UnderWay DEF Asks
    <2>2. \E commit \in BOOLEAN : asked' = [NothingAsked EXCEPT !.task = W, !.commit = commit]
      BY <1>2 DEF ReportBlocked, AskDecision, Pauses, NothingAsked
    <2> QED
      BY <2>1, <2>2 DEF NothingAsked, AskedTypes
  <1>3. CASE AskMismatch
    <2>1. W \in Tasks
      BY <1>3, AsksDo, UnderWay DEF Asks
    <2>2. Missing \in SUBSET Paths /\ turn.commit \in SUBSET branch /\ turn.fixes \in SUBSET (Paths \X Paths)
          /\ Lacking \in SUBSET Paths
      BY DEF DriverInv, ContractsTypeOK, TurnTypes, Missing, Lacking
    <2> DEFINE renamed(missing) == {f \in turn.fixes : f[2] \in missing}
               olds == {f[1] : f \in renamed(Missing)}
               froms == {f[1] : f \in renamed(Lacking)}
               rest  == Lacking \ {f[2] : f \in renamed(Lacking)}
    <2>3. asked' = [task |-> W, commit |-> TRUE, expected |-> Missing, actual |-> turn.commit,
                    originals |-> olds, declared |-> froms \cup rest]
      BY <1>3 DEF AskMismatch, Pauses
    <2>4. olds \in SUBSET Paths /\ froms \in SUBSET Paths /\ rest \in SUBSET Paths
      BY <2>2
    <2> HIDE DEF olds, froms, rest
    <2> QED
      BY <2>1, <2>2, <2>3, <2>4 DEF AskedTypes
  <1>4. CASE PassOver \/ Dispatch \/ AllDone \/ Reviewed \/ Mismatch \/ AbortAnswer \/ UNCHANGED contractsVars
    BY <1>4 DEF PassOver, Dispatch, AllDone, Reviewed, Mismatch, AbortAnswer, contractsVars
  <1> QED
    BY <1>1, <1>2, <1>3, <1>4, Steps, TurnsDo, EndsDo, BindDoes, WorkDoes, FinishesDo, AnsweredDoes
    DEF Asks

\* The history of the sub-tasks.
LEMMA PastTyped ==
  ASSUME DriverInv, [ContractsNext]_contractsVars
  PROVE  past' \in PastTypes
  <1>0. shape \in Shapes /\ past \in PastTypes /\ Works \subseteq Tasks /\ Probes \subseteq Tasks
    BY ShapeFacts DEF DriverInv, ContractsTypeOK, PastTypes
  <1>1. CASE Dispatch
    BY <1>0, <1>1 DEF Dispatch, PastTypes
  <1>2. CASE Bind
    <2>1. W \in Probes /\ turn.report \in [Bindings(W) -> Paths]
      BY <1>2, BindDoes
    <2>2. {<<b, turn.report[b]>> : b \in Bindings(W)} \subseteq shape.binds \X Paths
      BY <2>1 DEF Bindings
    <2>3. {b.to : b \in Bindings(W)} \subseteq Tasks
      BY <1>0, ShapeFacts DEF Bindings
    <2> QED
      BY <1>0, <1>2, <2>2, <2>3 DEF Bind, PastTypes
  <1>3. CASE WorkTurn
    <2>1. W \in Tasks
      BY <1>0, <1>3, WorkDoes
    <2>2. PICK renamed : past' \in {[past EXCEPT !.loose = @ \cup {W}], [past EXCEPT !.settled = @ \ renamed]}
      BY <1>3, WorkDoes
    <2> QED
      BY <1>0, <2>1, <2>2 DEF PastTypes
  <1>4. CASE Finishes
    <2>1. W \in Tasks
      BY <1>4, FinishesDo, UnderWay
    <2>2. CASE Rescued
      <3>1. PICK f : past' = [past EXCEPT !.settled = @ \ {<<W, f[2]>>}]
        BY <2>2, RescueDoes
      <3> QED
        BY <1>0, <3>1 DEF PastTypes
    <2>3. CASE past' \in {past, [past EXCEPT !.excused = @ \cup {W}], [past EXCEPT !.loose = @ \cup {W}]}
      BY <1>0, <2>1, <2>3 DEF PastTypes
    <2> QED
      BY <1>4, <2>2, <2>3, FinishLeaves
  <1>5. CASE TextAnswer \/ SkipAnswer
    <2>1. asked.task \in Tasks
      BY <1>5 DEF DriverInv, DriverOK, TextAnswer, SkipAnswer, Answerable
    <2> QED
      BY <1>0, <1>5, <2>1 DEF TextAnswer, SkipAnswer, PastTypes
  <1>6. CASE AcceptAnswer
    <2>1. asked.task \in Tasks /\ (asked.declared # {} => asked.task \in Works) /\ asked.declared \in SUBSET Paths
      BY <1>6 DEF DriverInv, DriverOK, AcceptAnswer, Answerable, ContractsTypeOK, AskedTypes
    <2>2. {<<asked.task, p>> : p \in asked.declared} \subseteq Works \X Paths
      BY <2>1
    <2> HIDE DEF Works
    <2> QED
      BY <1>0, <1>6, <2>1, <2>2 DEF AcceptAnswer, PastTypes
  <1>7. CASE PassOver \/ AllDone \/ Reviewed \/ Mismatch \/ AbortAnswer \/ UNCHANGED contractsVars
    BY <1>0, <1>7 DEF PassOver, AllDone, Reviewed, Mismatch, AbortAnswer, contractsVars
  <1>8. CASE Asks
    <2>1. past' = past \/ past' = [past EXCEPT !.settled = {e \in @ : e[1] # W}]
      BY <1>8, AsksDo
    <2> QED
      BY <1>0, <2>1 DEF PastTypes
  <1> QED
    BY <1>0, <1>1, <1>2, <1>3, <1>4, <1>5, <1>6, <1>7, <1>8, Steps, TurnsDo, EndsDo DEF Answered

LEMMA TypesNext ==
  ASSUME DriverInv, [ContractsNext]_contractsVars
  PROVE  ContractsTypeOK'
  <1>0. shape' = shape /\ Tasks' = Tasks /\ Probes' = Probes /\ Works' = Works
        /\ \A p : Bindings(p)' = Bindings(p)
    BY ShapeKeeps
  <1>1. shape \in Shapes
    BY DEF DriverInv, ContractsTypeOK
  <1>2. PlanOK(live)' /\ PlanOK(stored.plan)'
    BY <1>0, PlansTyped DEF PlanOK
  <1>3. (run \in RunTypes)' /\ (rows \in [Cycles -> [Tasks -> RowStatuses]])'
    BY <1>0, RowsTyped DEF RunTypes
  <1>4. (turn \in TurnTypes(branch))'
    BY <1>0, TurnTyped DEF TurnTypes
  <1>5. (asked \in AskedTypes(branch))'
    <2>1. branch \subseteq branch'
      BY TurnTyped
    <2>2. asked \in AskedTypes(branch)
      BY DEF DriverInv, ContractsTypeOK, AskedTypes
    <2> QED
      BY <1>0, <2>1, <2>2, AskedTyped DEF AskedTypes
  <1>6. (past \in PastTypes)'
    BY <1>0, PastTyped DEF PastTypes
  <1> QED
    BY <1>0, <1>1, <1>2, <1>3, <1>4, <1>5, <1>6, PlansTyped, TurnTyped DEF ContractsTypeOK, PastTypes


-----------------------------------------------------------------------------
(* The driver                                                                *)

\* The declared paths of a question are among those that it drops.
LEMMA QuestionAsks ==
  ASSUME DriverInv, AskMismatch
  PROVE  /\ W \in Works /\ asked'.task = W
         /\ asked'.actual = turn.commit /\ turn.commit # {}
         /\ asked'.declared \subseteq asked'.expected \cup asked'.originals
  <1> DEFINE renamed(missing) == {f \in turn.fixes : f[2] \in missing}
             originals == {f[1] : f \in renamed(Missing)}
             declared == {f[1] : f \in renamed(Lacking)}
                            \cup (Lacking \ {f[2] : f \in renamed(Lacking)})
  <1>1. asked' = [task |-> W, commit |-> TRUE, expected |-> Missing, actual |-> turn.commit,
                  originals |-> originals, declared |-> declared]
    BY DEF AskMismatch, Pauses
  <1>2. Lacking \subseteq Missing
    BY DEF Missing
  <1>3. declared \subseteq Missing \cup originals
    BY <1>2
  <1> HIDE DEF originals, declared
  <1>4. /\ asked'.task = W /\ asked'.actual = turn.commit
        /\ asked'.declared \subseteq asked'.expected \cup asked'.originals
    BY <1>1, <1>3
  <1>5. turn.phase = "rescue"
    BY DEF AskMismatch
  <1> QED
    BY <1>4, <1>5 DEF DriverInv, PhaseOK

LEMMA DriverNext ==
  ASSUME DriverInv, [ContractsNext]_contractsVars
  PROVE  DriverOK'
  <1>0. /\ shape' = shape /\ Tasks' = Tasks /\ Works' = Works /\ shape.n \in Nat
        /\ run \in RunTypes /\ turn \in TurnTypes(branch) /\ DriverOK
        /\ rows \in [Cycles -> [Tasks -> RowStatuses]]
    BY ShapeKeeps, ShapeFacts DEF DriverInv, ContractsTypeOK
  <1>1. CASE UNCHANGED <<run, asked>> /\ W' = W /\ (turn'.phase = "idle" <=> turn.phase = "idle")
             /\ (W # 0 => rows'[run.cycle][W] # "none") /\ run.pc = "running"
    BY <1>0, <1>1 DEF DriverOK, W, S, Dropped
  <1>2. CASE PassOver
    <2>1. S \in Tasks /\ W = 0 /\ run.pc = "running" /\ UNCHANGED <<turn, asked>>
      BY <1>2 DEF PassOver, Idle
    <2>2. run'.pc = "running" /\ run'.at = run.at + 1 /\ run'.done = run.done \cup {S}
      <3>1. CASE S \in run.done /\ run' = [run EXCEPT !.at = @ + 1]
        <4>1. run.done \cup {S} = run.done
          BY <3>1
        <4> QED
          BY <1>0, <2>1, <3>1, <4>1 DEF RunTypes
      <3>2. CASE Complete(S)
        BY <1>0, <2>1, <3>2 DEF Complete, RunTypes
      <3> QED
        BY <1>2, <3>1, <3>2 DEF PassOver
    <2>3. \A s \in Tasks : s < S + 1 => s \in run.done \cup {S}
      BY <1>0, <2>1 DEF DriverOK, Tasks, RunTypes, S
    <2> QED
      BY <1>0, <2>1, <2>2, <2>3 DEF DriverOK, W, S, Dropped
  <1>3. CASE Dispatch
    <2>1. /\ S \in Tasks /\ W = 0 /\ run.pc = "running" /\ UNCHANGED <<run, asked>>
          /\ S \notin run.done \cup run.scoped /\ shape.needs[S] \subseteq run.done
      BY <1>3 DEF Dispatch, Idle
    <2>2. turn'.task = S /\ turn'.phase = "turn"
      BY <1>3 DEF Dispatch, NoTurn
    <2>3. rows' = [rows EXCEPT ![run.cycle][S] = "running"] /\ run.cycle \in Cycles
      BY <1>0, <1>3 DEF Dispatch, Put, RunTypes
    <2>4. rows'[run.cycle][S] # "none" /\ S # 0
      BY <1>0, <2>1, <2>3 DEF Tasks
    <2> QED
      BY <1>0, <2>1, <2>2, <2>4 DEF DriverOK, W, S, Dropped
  <1>4. CASE AllDone
    <2>1. W = 0 /\ run.pc = "running" /\ S > shape.n /\ UNCHANGED <<turn, asked>> /\ run' = [run EXCEPT !.pc = "review"]
      BY <1>4 DEF AllDone, Idle
    <2>2. Tasks \subseteq run.done
      BY <1>0, <2>1 DEF DriverOK, Tasks, RunTypes, S
    <2> QED
      BY <1>0, <2>1, <2>2 DEF DriverOK, W, S, Dropped, RunTypes
  <1>5. CASE Reviewed
    <2>1. run.pc = "review" /\ UNCHANGED <<turn, asked>>
      BY <1>5 DEF Reviewed
    <2>2. run'.pc = "ended" \/ (run'.pc = "running" /\ run'.at = 1)
      BY <1>0, <1>5 DEF Reviewed, RunTypes
    <2>3. \A s \in Tasks : ~(s < 1)
      BY <1>0 DEF Tasks
    <2> QED
      BY <1>0, <2>1, <2>2, <2>3 DEF DriverOK, W, S, Dropped
  <1>6. CASE Turns
    <2>1. run.pc = "running"
      BY <1>6, TurnsDo, UnderWay
    <2> QED
      BY <1>0, <1>1, <1>6, <2>1, TurnsDo DEF DriverOK
  <1>7. CASE Bind
    <2>1. turn.phase # "idle" /\ UNCHANGED <<run, rows, asked>> /\ turn'.task = W /\ turn'.phase = "settle"
      BY <1>7, BindDoes DEF NoTurn
    <2>2. run.pc = "running"
      BY <2>1, UnderWay
    <2> QED
      BY <1>0, <1>1, <2>1, <2>2 DEF DriverOK, W
  <1>8. CASE WorkTurn
    <2>1. turn.phase # "idle" /\ UNCHANGED <<run, rows, asked>> /\ turn'.task = W /\ turn'.phase = "judge"
      BY <1>0, <1>8, WorkDoes, ZenonT(60) DEF TurnTypes, W
    <2>2. run.pc = "running"
      BY <2>1, UnderWay
    <2> QED
      BY <1>0, <1>1, <2>1, <2>2 DEF DriverOK, W
  <1>9. CASE Mismatch
    <2>1. turn.phase # "idle" /\ UNCHANGED <<run, asked>> /\ turn'.task = W /\ turn'.phase = "rescue"
          /\ rows' = [rows EXCEPT ![run.cycle][W] = "failed_verification"]
      BY <1>0, <1>9 DEF Mismatch, Failed, Judging, Put, TurnTypes, W
    <2>2. run.pc = "running" /\ W \in Tasks /\ run.cycle \in Cycles
      BY <2>1, UnderWay
    <2>3. rows'[run.cycle][W] # "none"
      BY <1>0, <2>1, <2>2
    <2> QED
      BY <1>0, <1>1, <2>1, <2>2, <2>3 DEF DriverOK, W
  <1>10. CASE Ends
    <2>1. turn'.task = 0 /\ turn'.phase = "idle" /\ run'.pc = "ended" /\ asked' = asked
      BY <1>0, <1>10, EndsDo DEF NoTurn, RunTypes
    <2> QED
      BY <1>0, <2>1 DEF DriverOK, W, Dropped
  <1>11. CASE Asks
    <2>1. turn.phase # "idle" /\ turn' = NoTurn /\ run' = [run EXCEPT !.pc = "paused"]
      BY <1>11, AsksDo
    <2>2. W \in Tasks /\ run.cycle \in Cycles /\ W # 0 /\ rows[run.cycle][W] # "none"
      BY <2>1, UnderWay DEF DriverInv, DriverOK
    <2>3. rows'[run.cycle][W] # "none"
      BY <1>0, <1>11, <2>2, AsksDo
    <2>4. asked'.task = W /\ (asked'.declared # {} => asked'.actual # {} /\ W \in Works)
          /\ asked'.declared \subseteq asked'.expected \cup asked'.originals
      BY <1>11, AsksDo, QuestionAsks
    <2>5. turn'.task = 0 /\ turn'.phase = "idle" /\ run'.pc = "paused" /\ run'.cycle = run.cycle
      BY <1>0, <2>1 DEF NoTurn, RunTypes
    <2> QED
      BY <1>0, <2>2, <2>3, <2>4, <2>5 DEF DriverOK, W, Dropped
  <1>12. CASE Finishes
    <2>1. turn.phase # "idle" /\ turn' = NoTurn /\ run' = [run EXCEPT !.done = @ \cup {W}, !.at = @ + 1] /\ asked' = asked
      BY <1>12, FinishesDo
    <2>2. W \in Tasks /\ S = W /\ run.pc = "running"
      BY <2>1, UnderWay
    <2>3. \A s \in Tasks : s < S + 1 => s \in run.done \cup {W}
      BY <1>0, <2>2 DEF DriverOK, Tasks, RunTypes, S
    <2>4. turn'.task = 0 /\ turn'.phase = "idle" /\ run'.pc = "running" /\ run'.at = S + 1
          /\ run'.done = run.done \cup {W}
      BY <1>0, <2>1, <2>2 DEF NoTurn, RunTypes, S
    <2> QED
      BY <1>0, <2>1, <2>3, <2>4 DEF DriverOK, W, S, Dropped
  <1>13. CASE Answered
    <2>1. run.pc = "paused" /\ W = 0 /\ turn' = turn /\ asked' = NothingAsked
          /\ run' = NewRun(Completed(rows'), run.n + 1)
      BY <1>0, <1>13, AnsweredDoes DEF DriverOK
    <2>2. run'.pc = "running" /\ run'.at = 1 /\ asked'.declared = {}
      BY <2>1 DEF NewRun, NothingAsked
    <2>3. \A s \in Tasks : ~(s < 1)
      BY <1>0 DEF Tasks
    <2> QED
      BY <1>0, <2>1, <2>2, <2>3 DEF DriverOK, W, S, Dropped
  <1>14. CASE AbortAnswer
    <2>1. run.pc = "paused" /\ run'.pc = "ended" /\ UNCHANGED <<turn, asked>>
      BY <1>0, <1>14 DEF AbortAnswer, RunTypes
    <2> QED
      BY <1>0, <2>1 DEF DriverOK, W, Dropped
  <1>15. CASE UNCHANGED contractsVars
    BY <1>0, <1>15 DEF DriverOK, W, S, Dropped, contractsVars
  <1> QED
    BY <1>2, <1>3, <1>4, <1>5, <1>6, <1>7, <1>8, <1>9, <1>10, <1>11, <1>12, <1>13, <1>14, <1>15, Steps

LEMMA PhaseNext ==
  ASSUME DriverInv, [ContractsNext]_contractsVars
  PROVE  PhaseOK'
  <1>0. /\ shape' = shape /\ Works' = Works /\ Probes' = Probes /\ \A p : Bindings(p)' = Bindings(p)
        /\ turn \in TurnTypes(branch) /\ PhaseOK
    BY ShapeKeeps DEF DriverInv, ContractsTypeOK
  <1>1. CASE turn' = turn
    BY <1>0, <1>1 DEF PhaseOK, W, Bindings
  <1>2. CASE turn'.phase \in {"idle", "turn", "settle"}
    BY <1>2 DEF PhaseOK
  <1>3. CASE Observed
    <2>1. W \in Probes /\ turn'.task = W /\ turn'.phase = "report"
          /\ (turn'.says = "satisfied" => turn'.report \in [Bindings(W) -> Paths])
      BY <1>0, <1>3 DEF Observed, Values, TurnTypes, W
    <2> QED
      BY <1>0, <2>1 DEF PhaseOK, W, Bindings
  <1>4. CASE WorkTurn
    <2>1. W \in Works /\ turn'.task = W /\ turn'.phase = "judge"
      BY <1>0, <1>4, WorkDoes, ZenonT(60) DEF TurnTypes, W
    <2> QED
      BY <1>0, <2>1 DEF PhaseOK, W
  <1>5. CASE Mismatch
    <2>1. W \in Works /\ turn'.task = W /\ turn'.phase = "rescue" /\ turn'.commit = turn.commit /\ turn.commit # {}
      BY <1>0, <1>5 DEF Mismatch, Failed, Judging, TurnTypes, W, PhaseOK
    <2> QED
      BY <1>0, <2>1 DEF PhaseOK, W
  <1>6. CASE Dispatch \/ ReportRetried \/ Verified \/ Retry \/ Bind
    <2>1. turn'.phase \in {"turn", "settle"}
      BY <1>0, <1>6 DEF Dispatch, ReportRetried, Verified, Retry, Bind, NoTurn, TurnTypes
    <2> QED
      BY <1>2, <2>1
  <1>7. CASE Ends \/ Asks \/ Finishes
    <2>1. turn'.phase = "idle"
      BY <1>7, EndsDo, AsksDo, FinishesDo DEF NoTurn
    <2> QED
      BY <1>2, <2>1
  <1>8. CASE PassOver \/ AllDone \/ Reviewed \/ Answered \/ AbortAnswer \/ UNCHANGED contractsVars
    BY <1>1, <1>8, AnsweredDoes DEF PassOver, AllDone, Reviewed, AbortAnswer, contractsVars
  <1> QED
    BY <1>3, <1>4, <1>5, <1>6, <1>7, <1>8, Steps DEF Turns

LEMMA DriverHoldsNext ==
  ASSUME DriverInv, [ContractsNext]_contractsVars
  PROVE  DriverInv'
  BY TypesNext, DriverNext, PhaseNext DEF DriverInv

LEMMA DriverInit ==
  ASSUME ContractsInit
  PROVE  DriverInv
  <1>0. /\ shape \in Shapes /\ shape.n \in Nat
        /\ shape.files \in [Tasks -> Seq(Paths)] /\ shape.verify \in [Tasks -> SUBSET Paths]
        /\ shape.disk \in [Tasks -> SUBSET Paths]
    BY ShapeFacts DEF ContractsInit
  <1>1. 1 \in Cycles /\ 1 \in 1 .. MaxRuns /\ 1 \in 1 .. (shape.n + 1) /\ 0 \in 0 .. MaxTries
    BY <1>0, ContractsAssumption DEF Cycles
  <1>2. PlanOK(live)
    BY <1>0 DEF ContractsInit, PlanOK
  <1>3. run \in RunTypes /\ asked \in AskedTypes(branch) /\ past \in PastTypes
    BY <1>1 DEF ContractsInit, RunTypes, NewRun, AskedTypes, NothingAsked, PastTypes
  <1>4. turn \in TurnTypes(branch)
    <2> DEFINE Reports == {<<>>} \cup UNION {[Bindings(p) -> Paths] : p \in Probes}
    <2>1. <<>> \in Reports
      OBVIOUS
    <2> HIDE DEF Reports
    <2> QED
      BY <1>1, <2>1 DEF ContractsInit, NoTurn, TurnTypes, Reports
  <1>5. stored.plan = live /\ stored \in [plan : {stored.plan}, rev : Nat] /\ stored.rev = 0
    BY DEF ContractsInit
  <1>6. ContractsTypeOK
    BY <1>0, <1>2, <1>3, <1>4, <1>5 DEF ContractsInit, ContractsTypeOK, RowStatuses
  <1>7. DriverOK /\ PhaseOK
    BY <1>0 DEF ContractsInit, DriverOK, PhaseOK, NoTurn, NewRun, NothingAsked, W, S, Tasks, Dropped
  <1> QED
    BY <1>6, <1>7 DEF DriverInv


-----------------------------------------------------------------------------
(* What the plans declare                                                    *)

\* A sub-task declares the same in plans that say the same of it.
LEMMA SameDeclares ==
  ASSUME NEW plan, NEW new, NEW u, new.files[u] = plan.files[u], new.verify[u] = plan.verify[u],
         new.disk[u] = plan.disk[u]
  PROVE  /\ Declared(new, u) = Declared(plan, u) /\ Committed(new, u) = Committed(plan, u)
         /\ OnDisk(new, u) = OnDisk(plan, u) /\ (Explicit(new, u) <=> Explicit(plan, u))
  <1>1. (Explicit(new, u) <=> Explicit(plan, u)) /\ First(new, u) = First(plan, u)
    BY DEF Explicit, First
  <1>2. \A wording : Inferred(new, u, wording) = Inferred(plan, u, wording)
    BY <1>1 DEF Inferred
  <1>3. Committed(new, u) = Committed(plan, u)
    BY <1>1, <1>2, Zenon DEF Committed
  <1>4. OnDisk(new, u) = OnDisk(plan, u)
    BY <1>1, <1>2, Zenon DEF OnDisk
  <1> QED
    BY <1>1, <1>3, <1>4 DEF Declared

\* What is declared of the plan of the next state.
LEMMA DeclaredPrimes ==
  ASSUME shape' = shape
  PROVE  \A w : /\ Declared(live, w)' = Declared(live', w)
                /\ Declared(stored.plan, w)' = Declared(stored'.plan, w)
                /\ Committed(live, w)' = Committed(live', w)
                /\ Committed(stored.plan, w)' = Committed(stored'.plan, w)
                /\ OnDisk(live, w)' = OnDisk(live', w)
                /\ (Explicit(live, w)' <=> Explicit(live', w))
  <1> SUFFICES ASSUME NEW w
               PROVE  /\ Declared(live, w)' = Declared(live', w)
                      /\ Declared(stored.plan, w)' = Declared(stored'.plan, w)
                      /\ Committed(live, w)' = Committed(live', w)
                      /\ Committed(stored.plan, w)' = Committed(stored'.plan, w)
                      /\ OnDisk(live, w)' = OnDisk(live', w)
                      /\ (Explicit(live, w)' <=> Explicit(live', w))
    OBVIOUS
  <1>1. \A wording : /\ Inferred(live, w, wording)' = Inferred(live', w, wording)
                     /\ Inferred(stored.plan, w, wording)' = Inferred(stored'.plan, w, wording)
    BY DEF Inferred, First
  <1>2. Committed(live, w)' = Committed(live', w) /\ OnDisk(live, w)' = OnDisk(live', w)
        /\ (Explicit(live, w)' <=> Explicit(live', w))
    BY <1>1 DEF Committed, OnDisk, Explicit
  <1>3. /\ Committed(stored.plan, w)' = Committed(stored'.plan, w)
        /\ OnDisk(stored.plan, w)' = OnDisk(stored'.plan, w)
    BY <1>1 DEF Committed, OnDisk, Explicit
  <1> QED
    BY <1>2, <1>3 DEF Declared

\* A correction changes what its sub-task declares only from name to name.
Renames(plan, new, w, fixes) ==
    /\ new.verify = plan.verify /\ new.disk = plan.disk /\ new.open = plan.open
    /\ \A u \in Tasks \ {w} : /\ new.files[u] = plan.files[u] /\ Declared(new, u) = Declared(plan, u)
                              /\ Committed(new, u) = Committed(plan, u)
    /\ \A p \in ToSet(new.files[w]) : p \in ToSet(plan.files[w]) \/ \E f \in fixes : f[2] = p
    /\ \A p \in Committed(plan, w) : \E q \in Committed(new, w) : q = p \/ <<p, q>> \in fixes
    /\ \A q \in Committed(new, w) : \/ q \in Committed(plan, w)
                                     \/ \E p \in Committed(plan, w) : <<p, q>> \in fixes
    /\ \A q \in Declared(new, w) : \/ q \in Declared(plan, w)
                                    \/ \E p \in Declared(plan, w) : <<p, q>> \in fixes

LEMMA CorrectedDeclares ==
  ASSUME NEW plan, PlanOK(plan), NEW w \in Tasks, NEW fixes \in SUBSET (Paths \X Paths),
         NEW new, new = [plan EXCEPT !.files[w] = Corrected(@, fixes)]
  PROVE  Renames(plan, new, w, fixes)
  <1> DEFINE out == Corrected(plan.files[w], fixes)
  <1>1. plan.files \in [Tasks -> Seq(Paths)] /\ plan.verify \in [Tasks -> SUBSET Paths] /\ plan.files[w] \in Seq(Paths)
    BY DEF PlanOK
  <1>2. /\ new.verify = plan.verify /\ new.disk = plan.disk /\ new.open = plan.open
        /\ new.files = [plan.files EXCEPT ![w] = out]
    BY DEF PlanOK
  <1>3. new.files[w] = out /\ \A u \in Tasks \ {w} : new.files[u] = plan.files[u]
    BY <1>1, <1>2
  <1>4. /\ \A p \in ToSet(out) : p \in ToSet(plan.files[w]) \/ \E f \in fixes : f[2] = p
        /\ plan.files[w] = <<>> => out = <<>>
        /\ plan.files[w] # <<>> => /\ out # <<>>
                                   /\ \/ Head(out) = Head(plan.files[w])
                                      \/ <<Head(plan.files[w]), Head(out)>> \in fixes
    BY <1>1, CorrectedKeeps
  <1> HIDE DEF out
  <1>5. \A u \in Tasks \ {w} : Declared(new, u) = Declared(plan, u) /\ Committed(new, u) = Committed(plan, u)
    BY <1>2, <1>3, SameDeclares
  <1>6. Explicit(new, w) <=> Explicit(plan, w)
    BY <1>2 DEF Explicit
  <1>7. \/ First(plan, w) = {} /\ First(new, w) = {}
        \/ \E p, q : /\ First(plan, w) = {p} /\ First(new, w) = {q}
                     /\ q = p \/ <<p, q>> \in fixes
    BY <1>3, <1>4 DEF First
  <1>8. CASE Explicit(plan, w)
    <2>1. Committed(new, w) = Committed(plan, w) /\ Declared(new, w) = Declared(plan, w)
      BY <1>2, <1>6, <1>8 DEF Committed, OnDisk, Declared
    <2> QED
      BY <1>2, <1>3, <1>4, <1>5, <2>1 DEF Renames
  <1>9. CASE ~Explicit(plan, w)
    <2>1. \A wording : \/ Inferred(plan, w, wording) = {} /\ Inferred(new, w, wording) = {}
                       \/ /\ Inferred(plan, w, wording) = First(plan, w)
                          /\ Inferred(new, w, wording) = First(new, w)
      BY DEF Inferred
    <2>2. /\ Committed(plan, w) = Inferred(plan, w, "commit") /\ Committed(new, w) = Inferred(new, w, "commit")
          /\ OnDisk(plan, w) = Inferred(plan, w, "write") /\ OnDisk(new, w) = Inferred(new, w, "write")
      BY <1>6, <1>9 DEF Committed, OnDisk
    <2>3. \/ Committed(plan, w) = {} /\ Committed(new, w) = {}
          \/ Committed(plan, w) = First(plan, w) /\ Committed(new, w) = First(new, w)
      BY <2>1, <2>2
    <2>4. /\ \A p \in Committed(plan, w) : \E q \in Committed(new, w) : q = p \/ <<p, q>> \in fixes
          /\ \A q \in Committed(new, w) : \/ q \in Committed(plan, w)
                                           \/ \E p \in Committed(plan, w) : <<p, q>> \in fixes
      BY <1>7, <2>3
    <2>5. \/ Declared(plan, w) = {} /\ Declared(new, w) = {}
          \/ Declared(plan, w) = First(plan, w) /\ Declared(new, w) = First(new, w)
      BY <2>1, <2>2 DEF Declared
    <2>6. \A q \in Declared(new, w) : \/ q \in Declared(plan, w)
                                      \/ \E p \in Declared(plan, w) : <<p, q>> \in fixes
      BY <1>7, <2>5
    <2> QED
      BY <1>2, <1>3, <1>4, <1>5, <2>4, <2>6 DEF Renames
  <1> QED
    BY <1>8, <1>9

\* ... in the plan of the run.
LEMMA CorrectedLive ==
  ASSUME PlanOK(live), NEW w \in Tasks, NEW fixes \in SUBSET (Paths \X Paths),
         live' = [live EXCEPT !.files[w] = Corrected(@, fixes)]
  PROVE  Renames(live, live', w, fixes)
  BY CorrectedDeclares

\* Bindings change what their consumers declare, and those only; a consumer
\* with files and no probe of its own goes on declaring the first of them.
LEMMA BoundDeclares ==
  ASSUME NEW plan, PlanOK(plan), shape \in Shapes, NEW p \in Probes,
         NEW v \in [Bindings(p) -> Paths]
  PROVE  LET new == Bound(plan, p, v)
             to(w) == {v[b] : b \in {c \in Bindings(p) : c.to = w}}
         IN  /\ new.open = plan.open \ Bindings(p) /\ new.disk = plan.disk
             /\ \A w \in Tasks : new.verify[w] = plan.verify[w] \cup {v[b] : b \in To(w, p, "verify")}
             /\ \A w \in Tasks : /\ plan.verify[w] \subseteq new.verify[w]
                                 /\ new.verify[w] \subseteq plan.verify[w] \cup to(w)
                                 /\ ToSet(new.files[w]) \subseteq ToSet(plan.files[w]) \cup to(w)
             /\ \A w \in Tasks : w \notin {b.to : b \in Bindings(p)} =>
                   Declared(new, w) = Declared(plan, w) /\ Committed(new, w) = Committed(plan, w)
             /\ \A w \in Tasks : ~Explicit(new, w) =>
                   Declared(new, w) = Declared(plan, w) \/ Declared(new, w) \subseteq to(w)
             /\ Bindings(p) = {} => new = plan
  <1> DEFINE new == Bound(plan, p, v)
             to(w) == {v[b] : b \in {c \in Bindings(p) : c.to = w}}
             add(w) == {v[b] : b \in To(w, p, "files")}
             put(w) == {v[b] : b \in To(w, p, "verify")}
  <1>1. \A w \in Tasks : plan.files[w] \in Seq(Paths) /\ plan.verify[w] \in SUBSET Paths
    BY DEF PlanOK
  <1>2. /\ new.open = plan.open \ Bindings(p)
        /\ new.disk = plan.disk
        /\ \A w \in Tasks : /\ new.files[w] = Appended(plan.files[w], add(w))
                            /\ new.verify[w] = plan.verify[w] \cup put(w)
    BY DEF Bound
  <1>3. \A w \in Tasks : /\ add(w) \in SUBSET Paths /\ add(w) \subseteq to(w) /\ put(w) \subseteq to(w)
                         /\ w \notin {b.to : b \in Bindings(p)} => add(w) = {} /\ put(w) = {}
                         /\ Bindings(p) = {} => add(w) = {} /\ put(w) = {}
    BY DEF To
  <1> HIDE DEF add, put, to
  <1>4. \A w \in Tasks :
           /\ ToSet(new.files[w]) = ToSet(plan.files[w]) \cup add(w)
           /\ plan.files[w] # <<>> => new.files[w] # <<>> /\ Head(new.files[w]) = Head(plan.files[w])
           /\ add(w) = {} => new.files[w] = plan.files[w]
           /\ new.files[w] \in Seq(Paths)
    BY <1>1, <1>2, <1>3, AppendedKeeps
  <1>5. ASSUME NEW w \in Tasks, add(w) = {}, put(w) = {}
        PROVE  Declared(new, w) = Declared(plan, w) /\ Committed(new, w) = Committed(plan, w)
    <2>1. new.verify[w] = plan.verify[w] /\ new.files[w] = plan.files[w] /\ new.disk[w] = plan.disk[w]
      BY <1>2, <1>4, <1>5
    <2> HIDE DEF new
    <2> QED
      BY <2>1, SameDeclares
  <1>6. ASSUME NEW w \in Tasks, ~Explicit(new, w)
        PROVE  Declared(new, w) = Declared(plan, w) \/ Declared(new, w) \subseteq to(w)
    <2>1. new.verify[w] = {} /\ new.disk[w] = {}
      BY <1>6 DEF Explicit
    <2>2. plan.verify[w] = {} /\ plan.disk[w] = {} /\ PlanOK(new)
      BY <1>2, <2>1, BoundTyped
    <2> HIDE DEF new
    <2>3. ~Explicit(plan, w)
      BY <2>2 DEF Explicit
    <2>4. CASE plan.files[w] # <<>>
      <3>1. First(new, w) = First(plan, w)
        BY <1>4, <2>4 DEF First
      <3>2. \A wording : Inferred(new, w, wording) = Inferred(plan, w, wording)
        BY <3>1 DEF Inferred
      <3> QED
        BY <1>6, <2>3, <3>2 DEF Declared, Committed, OnDisk
    <2>5. CASE plan.files[w] = <<>>
      <3>1. Declared(new, w) \subseteq ToSet(new.files[w])
        BY <2>1, <2>2, DeclaredTyped
      <3>2. ToSet(plan.files[w]) = {}
        BY <2>5 DEF ToSet
      <3> QED
        BY <1>3, <1>4, <3>1, <3>2
    <2> QED
      BY <2>4, <2>5
  <1>7. ASSUME Bindings(p) = {} PROVE new = plan
    <2>1. plan = [files |-> plan.files, verify |-> plan.verify, disk |-> plan.disk, open |-> plan.open]
      BY DEF PlanOK
    <2>2. \A w \in Tasks : Appended(plan.files[w], add(w)) = plan.files[w]
      BY <1>2, <1>3, <1>4, <1>7
    <2>3. \A w \in Tasks : plan.verify[w] \cup put(w) = plan.verify[w]
      BY <1>3, <1>7
    <2>4. plan.open \ Bindings(p) = plan.open
      BY <1>7
    <2>5. plan.files = [w \in Tasks |-> plan.files[w]] /\ plan.verify = [w \in Tasks |-> plan.verify[w]]
      BY DEF PlanOK
    <2>6. [w \in Tasks |-> Appended(plan.files[w], add(w))] = plan.files
      BY <2>2, <2>5
    <2>7. [w \in Tasks |-> plan.verify[w] \cup put(w)] = plan.verify
      BY <2>3, <2>5
    <2>8. new = [files |-> [w \in Tasks |-> Appended(plan.files[w], add(w))],
                 verify |-> [w \in Tasks |-> plan.verify[w] \cup put(w)], disk |-> plan.disk,
                 open |-> plan.open \ Bindings(p)]
      BY DEF Bound, add, put
    <2> QED
      BY <2>1, <2>4, <2>6, <2>7, <2>8
  <1> HIDE DEF new
  <1>8. \A w \in Tasks : /\ plan.verify[w] \subseteq new.verify[w]
                         /\ new.verify[w] \subseteq plan.verify[w] \cup to(w)
                         /\ ToSet(new.files[w]) \subseteq ToSet(plan.files[w]) \cup to(w)
    BY <1>2, <1>3, <1>4
  <1>9. \A w \in Tasks : w \notin {b.to : b \in Bindings(p)} =>
           Declared(new, w) = Declared(plan, w) /\ Committed(new, w) = Committed(plan, w)
    BY <1>3, <1>5
  <1> QED
    BY <1>2, <1>6, <1>7, <1>8, <1>9 DEF new, put, to

\* An accepted commit changes what its own sub-task declares only, to what is
\* not dropped, or was committed.
LEMMA AcceptedDeclares ==
  ASSUME ContractsTypeOK, asked.task \in Tasks
  PROVE  /\ AcceptedPlan.open = stored.plan.open
         /\ AcceptedPlan.verify[asked.task] = stored.plan.verify[asked.task] \ Dropped
         /\ AcceptedPlan.disk[asked.task] = stored.plan.disk[asked.task] \ Dropped
         /\ ToSet(AcceptedPlan.files[asked.task])
              \subseteq (ToSet(stored.plan.files[asked.task]) \ Dropped) \cup asked.actual
         /\ \A u \in Tasks \ {asked.task} :
               /\ AcceptedPlan.files[u] = stored.plan.files[u]
               /\ AcceptedPlan.verify[u] = stored.plan.verify[u]
               /\ AcceptedPlan.disk[u] = stored.plan.disk[u]
               /\ Declared(AcceptedPlan, u) = Declared(stored.plan, u)
               /\ Committed(AcceptedPlan, u) = Committed(stored.plan, u)
  <1> DEFINE w == asked.task
             kept == Distinct(stored.plan.files[w], Dropped)
  <1>1. stored.plan.files[w] \in Seq(Paths) /\ asked.actual \in SUBSET Paths
    BY DEF ContractsTypeOK, PlanOK, AskedTypes
  <1>2. kept \in Seq(Paths) /\ ToSet(kept) \subseteq ToSet(stored.plan.files[w]) \ Dropped
    BY <1>1, DistinctKeeps
  <1> HIDE DEF kept
  <1>3. ToSet(Appended(kept, asked.actual)) = ToSet(kept) \cup asked.actual
    BY <1>1, <1>2, AppendedKeeps
  <1>4. /\ AcceptedPlan.open = stored.plan.open
        /\ AcceptedPlan.verify = [stored.plan.verify EXCEPT ![w] = @ \ Dropped]
        /\ AcceptedPlan.disk = [stored.plan.disk EXCEPT ![w] = @ \ Dropped]
        /\ AcceptedPlan.files = [stored.plan.files EXCEPT ![w] = Appended(kept, asked.actual)]
    BY DEF ContractsTypeOK, PlanOK, AcceptedPlan, kept
  <1>5. /\ stored.plan.files \in [Tasks -> Seq(Paths)] /\ stored.plan.verify \in [Tasks -> SUBSET Paths]
        /\ stored.plan.disk \in [Tasks -> SUBSET Paths]
    BY DEF ContractsTypeOK, PlanOK
  <1>6. /\ AcceptedPlan.files[w] = Appended(kept, asked.actual)
        /\ AcceptedPlan.verify[w] = stored.plan.verify[w] \ Dropped
        /\ AcceptedPlan.disk[w] = stored.plan.disk[w] \ Dropped
        /\ \A u \in Tasks \ {w} : /\ AcceptedPlan.files[u] = stored.plan.files[u]
                                  /\ AcceptedPlan.verify[u] = stored.plan.verify[u]
                                  /\ AcceptedPlan.disk[u] = stored.plan.disk[u]
    BY <1>4, <1>5
  <1>7. \A u \in Tasks \ {w} : /\ Declared(AcceptedPlan, u) = Declared(stored.plan, u)
                              /\ Committed(AcceptedPlan, u) = Committed(stored.plan, u)
    BY <1>6, SameDeclares
  <1> QED
    BY <1>2, <1>3, <1>4, <1>6, <1>7


-----------------------------------------------------------------------------
(* The plan of the run and the plan that is stored                           *)

\* They differ in names the harness recognised, and both have every binding
\* of a probe that was reported.
PlansAgree ==
    /\ live.verify = stored.plan.verify /\ live.disk = stored.plan.disk
    /\ live.open = stored.plan.open
    /\ \A w \in Tasks : \A p \in Committed(stored.plan, w) :
          \E q \in Committed(live, w) : SameArtifact(p, q)
    /\ \A p \in Probes : reports[p] # -1 => Bindings(p) \cap live.open = {}
    /\ \A e \in past.bound : e[1].field = "verify" => e[2] \in live.verify[e[1].to]

LEMMA RenamedAgrees ==
  ASSUME DriverInv, PlansAgree, NEW w \in Tasks, NEW fixes \in SUBSET (Paths \X Paths),
         \A f \in fixes : Recognised(f[1], f[2]), shape' = shape,
         live' = [live EXCEPT !.files[w] = Corrected(@, fixes)],
         UNCHANGED <<stored, reports>>, past'.bound = past.bound
  PROVE  PlansAgree'
  <1>0. PlanOK(live) /\ PlanOK(stored.plan)
    BY DEF DriverInv, ContractsTypeOK
  <1>1. /\ live'.verify = live.verify /\ live'.disk = live.disk /\ live'.open = live.open
        /\ \A u \in Tasks \ {w} : Committed(live', u) = Committed(live, u)
        /\ \A p \in Committed(live, w) : \E q \in Committed(live', w) : q = p \/ <<p, q>> \in fixes
    BY <1>0, CorrectedLive DEF Renames
  <1>2. \A p \in Committed(live, w) : \E q \in Committed(live', w) : SameArtifact(p, q)
    <2> SUFFICES ASSUME NEW p \in Committed(live, w)
                 PROVE  \E q \in Committed(live', w) : SameArtifact(p, q)
      OBVIOUS
    <2>1. PICK q \in Committed(live', w) : q = p \/ <<p, q>> \in fixes
      BY <1>1
    <2>2. CASE q = p
      BY <2>2, SameRefl
    <2>3. CASE <<p, q>> \in fixes
      BY <2>3, SameStep
    <2> QED
      BY <2>1, <2>2, <2>3
  <1>3. ASSUME NEW u \in Tasks, NEW p \in Committed(stored.plan, u)
        PROVE  \E q \in Committed(live', u) : SameArtifact(p, q)
    <2>1. PICK r \in Committed(live, u) : SameArtifact(p, r)
      BY DEF PlansAgree
    <2>2. \E q \in Committed(live', u) : SameArtifact(r, q)
      BY <1>1, <1>2, SameRefl
    <2> QED
      BY <2>1, <2>2, SameTrans
  <1>4. /\ Tasks' = Tasks /\ Probes' = Probes /\ \A p : Bindings(p)' = Bindings(p)
        /\ \A u : Committed(stored.plan, u)' = Committed(stored.plan, u)
        /\ \A u : Committed(live, u)' = Committed(live', u)
    BY DeclaredPrimes DEF Tasks, Probes, Bindings
  <1> QED
    BY <1>1, <1>3, <1>4 DEF PlansAgree

LEMMA SamePlansAgree ==
  ASSUME DriverInv, PlansAgree, [ContractsNext]_contractsVars,
         live'.verify = live.verify, live'.open = live.open,
         \/ live' = live /\ stored' = stored
         \/ live' = stored'.plan /\ reports' = reports,
         UNCHANGED <<reports>>, past'.bound = past.bound
  PROVE  PlansAgree'
  <1>0. /\ Tasks' = Tasks /\ Probes' = Probes /\ \A p : Bindings(p)' = Bindings(p)
    BY ShapeKeeps
  <1>1. CASE live' = live /\ stored' = stored
    <2>1. \A w : Committed(live, w)' = Committed(live, w) /\ Committed(stored.plan, w)' = Committed(stored.plan, w)
      BY <1>1, ShapeKeeps, DeclaredPrimes
    <2> QED
      BY <1>0, <1>1, <2>1 DEF PlansAgree
  <1>2. CASE live' = stored'.plan
    <2>1. \A w : Committed(live, w)' = Committed(stored.plan, w)'
      BY <1>2, ShapeKeeps, DeclaredPrimes
    <2> QED
      BY <1>0, <1>2, <2>1, SameRefl DEF PlansAgree
  <1> QED
    BY <1>1, <1>2

LEMMA PlansNext ==
  ASSUME DriverInv, PlansAgree, [ContractsNext]_contractsVars
  PROVE  PlansAgree'
  <1>0. /\ shape' = shape /\ Tasks' = Tasks /\ Probes' = Probes /\ \A p : Bindings(p)' = Bindings(p)
        /\ shape \in Shapes /\ Works \subseteq Tasks /\ PlanOK(live) /\ PlanOK(stored.plan)
        /\ past \in PastTypes /\ reports \in [Tasks -> -1 .. stored.rev] /\ Probes \subseteq Tasks
        /\ \A b \in shape.binds : b.of \in Probes /\ b.to \in Works
    BY ShapeKeeps, ShapeFacts DEF DriverInv, ContractsTypeOK
  <1>1. CASE UNCHANGED <<stored, live, reports>> /\ past'.bound = past.bound
    BY <1>1, SamePlansAgree
  <1>2. CASE Reviewed
    <2>1. UNCHANGED <<live, reports, past>>
      BY <1>2 DEF Reviewed, db
    <2>2. stored' \in {stored, [plan |-> live, rev |-> stored.rev + 1]}
      BY <1>2 DEF Reviewed
    <2>3. stored' = stored \/ live' = stored'.plan
      BY <2>1, <2>2
    <2> QED
      BY <2>1, <2>3, SamePlansAgree
  <1>3. CASE Bind
    <2> DEFINE v == turn.report
    <2>1. /\ W \in Probes /\ v \in [Bindings(W) -> Paths]
          /\ live' = Bound(live, W, v) /\ Revised(W) \in Nat
          /\ stored' = IF Bindings(W) = {} THEN stored ELSE [plan |-> live', rev |-> Revised(W)]
          /\ reports' = [reports EXCEPT ![W] = Revised(W)]
      BY <1>3, BindDoes
    <2>2. past'.bound = past.bound \cup {<<b, v[b]>> : b \in Bindings(W)}
      BY <1>0, <1>3 DEF Bind, PastTypes
    <2>3. /\ live'.open = live.open \ Bindings(W)
          /\ \A w \in Tasks : live'.verify[w] = live.verify[w] \cup {v[b] : b \in To(w, W, "verify")}
          /\ Bindings(W) = {} => live' = live
      BY <1>0, <2>1, BoundDeclares
    <2>4. CASE Bindings(W) = {}
      <3>1. live' = live /\ stored' = stored
        BY <2>1, <2>3, <2>4
      <3>2. {<<b, v[b]>> : b \in Bindings(W)} = {}
        BY <2>4
      <3>3. past'.bound = past.bound
        BY <2>2, <3>2
      <3>4. \A w : Committed(live, w)' = Committed(live, w) /\ Committed(stored.plan, w)' = Committed(stored.plan, w)
        BY <1>0, <3>1, DeclaredPrimes
      <3>5. \A p \in Probes : reports'[p] # -1 => Bindings(p) \cap live.open = {}
        BY <1>0, <2>1, <2>4 DEF PlansAgree
      <3> QED
        BY <1>0, <3>1, <3>3, <3>4, <3>5 DEF PlansAgree
    <2>5. CASE Bindings(W) # {}
      <3>1. stored'.plan = live'
        BY <2>1, <2>5
      <3>2. \A w : Committed(live, w)' = Committed(stored.plan, w)'
        BY <1>0, <3>1, DeclaredPrimes
      <3>3. \A p \in Probes : reports'[p] # -1 => Bindings(p) \cap live'.open = {}
        BY <1>0, <2>1, <2>3 DEF PlansAgree
      <3>4. ASSUME NEW e \in past'.bound, e[1].field = "verify"
            PROVE  e[2] \in live'.verify[e[1].to]
        <4>1. CASE e \in past.bound
          <5>1. e[1] \in shape.binds
            BY <1>0, <4>1 DEF PastTypes
          <5>2. e[2] \in live.verify[e[1].to] /\ e[1].to \in Tasks
            BY <1>0, <3>4, <4>1, <5>1 DEF PlansAgree
          <5> QED
            BY <2>3, <5>2
        <4>2. CASE e \notin past.bound
          <5>1. PICK b \in Bindings(W) : e = <<b, v[b]>>
            BY <2>2, <4>2
          <5>2. b \in To(b.to, W, "verify") /\ b.to \in Tasks
            BY <1>0, <3>4, <5>1 DEF To, Bindings
          <5> QED
            BY <2>3, <5>1, <5>2
        <4> QED
          BY <4>1, <4>2
      <3> QED
        BY <1>0, <3>1, <3>2, <3>3, <3>4, SameRefl DEF PlansAgree
    <2> QED
      BY <2>4, <2>5
  <1>4. CASE WorkTurn
    <2>1. PICK commit \in SUBSET Paths, left \in SUBSET Paths :
             /\ live' = IF turn.tries = 0
                        THEN [live EXCEPT !.files[W] = Corrected(@, Names(commit, left))]
                        ELSE live
             /\ past' \in {[past EXCEPT !.loose = @ \cup {W}],
                           [past EXCEPT !.settled = @ \ Reopened(Names(commit, left), commit)]}
             /\ Names(commit, left) \in SUBSET (Paths \X Paths)
      BY <1>4, WorkDoes
    <2>2. UNCHANGED <<stored, reports>> /\ W \in Tasks
      BY <1>0, <1>4, WorkDoes
    <2>3. past'.bound = past.bound
      BY <1>0, <2>1 DEF PastTypes
    <2>4. CASE turn.tries = 0
      <3>1. \A f \in Names(commit, left) : Recognised(f[1], f[2])
        BY <1>0, <2>2, <2>4, FixesAre DEF Names
      <3> QED
        BY <1>0, <2>1, <2>2, <2>3, <2>4, <3>1, RenamedAgrees
    <2> QED
      BY <1>1, <2>1, <2>2, <2>3, <2>4
  <1>5. CASE Rescued
    <2>1. PICK f \in Paths \X Paths :
             /\ Recognised(f[1], f[2]) /\ live' = [live EXCEPT !.files[W] = Corrected(@, {f})]
             /\ past' = [past EXCEPT !.settled = @ \ {<<W, f[2]>>}]
      BY <1>5, RescueDoes
    <2>2. UNCHANGED <<stored, reports>> /\ W \in Tasks
      BY <1>0, <1>5, FinishesDo, RescueDoes DEF Finishes
    <2>3. past'.bound = past.bound
      BY <1>0, <2>1 DEF PastTypes
    <2>4. {f} \in SUBSET (Paths \X Paths) /\ \A g \in {f} : Recognised(g[1], g[2])
      BY <2>1
    <2> QED
      BY <1>0, <2>1, <2>2, <2>3, <2>4, RenamedAgrees
  <1>6. CASE Finishes /\ ~Rescued
    <2>1. UNCHANGED <<stored, reports, live>>
      BY <1>6, FinishesDo, FinishLeaves
    <2>2. past'.bound = past.bound
      BY <1>0, <1>6, FinishLeaves DEF PastTypes
    <2> QED
      BY <1>1, <2>1, <2>2
  <1>7. CASE Answered
    <2>1. /\ live' = stored'.plan /\ reports' = reports /\ asked.task \in Tasks
          /\ stored'.plan = stored.plan \/ stored'.plan = AcceptedPlan
      BY <1>7, AnsweredDoes DEF DriverInv, DriverOK
    <2>2. \A w : Committed(live, w)' = Committed(stored.plan, w)'
      BY <1>0, <2>1, DeclaredPrimes
    <2>3. live'.open = live.open
      BY <2>1, AcceptedDeclares DEF DriverInv, PlansAgree
    <2>4. ASSUME NEW e \in past'.bound, e[1].field = "verify"
          PROVE  e[2] \in live'.verify[e[1].to]
      <3>1. e \in past.bound /\ (AcceptAnswer => e[1].to # asked.task \/ e[2] \notin Dropped)
        BY <1>0, <1>7 DEF Answered, TextAnswer, SkipAnswer, AcceptAnswer, PastTypes
      <3>2. e[1] \in shape.binds
        BY <1>0, <3>1 DEF PastTypes
      <3>3. e[2] \in stored.plan.verify[e[1].to] /\ e[1].to \in Tasks
        BY <1>0, <2>4, <3>1, <3>2 DEF PlansAgree
      <3>4. CASE AcceptAnswer
        BY <2>1, <3>1, <3>3, <3>4, AcceptedDeclares DEF DriverInv
      <3>5. CASE ~AcceptAnswer
        <4>1. stored'.plan = stored.plan
          BY <1>7, <3>5 DEF Answered, TextAnswer, SkipAnswer, Resume
        <4> QED
          BY <2>1, <3>3, <4>1
      <3> QED
        BY <3>4, <3>5
    <2> QED
      BY <1>0, <2>1, <2>2, <2>3, <2>4, SameRefl DEF PlansAgree
  <1>8. CASE Dispatch
    <2>1. UNCHANGED <<stored, live, reports>> /\ past'.bound = past.bound
      BY <1>0, <1>8 DEF Dispatch, plans, PastTypes
    <2> QED
      BY <1>1, <2>1
  <1>9. CASE PassOver \/ AllDone \/ Mismatch \/ AbortAnswer \/ Turns \/ Ends \/ UNCHANGED contractsVars
    BY <1>1, <1>9, TurnsDo, EndsDo DEF PassOver, AllDone, Mismatch, AbortAnswer, plans, db, contractsVars
  <1>10. CASE Asks
    <2>1. UNCHANGED <<stored, live, reports>> /\ past'.bound = past.bound
      BY <1>0, <1>10, AsksDo DEF PastTypes
    <2> QED
      BY <1>1, <2>1
  <1> QED
    BY <1>2, <1>3, <1>4, <1>5, <1>6, <1>7, <1>8, <1>9, <1>10, Steps

LEMMA PlansInit ==
  ASSUME ContractsInit
  PROVE  PlansAgree
  <1>1. stored.plan = live /\ past.bound = {} /\ shape \in Shapes
    BY DEF ContractsInit
  <1>2. \A p \in Probes : reports[p] = -1
    BY <1>1, ShapeFacts DEF ContractsInit
  <1> QED
    BY <1>1, <1>2, SameRefl DEF PlansAgree


-----------------------------------------------------------------------------
(* What is done has what it owes                                             *)

\* An observe sub-task was excused or has reported; a worker was excused, or
\* bound or let off since it was judged, or every artifact it declares is on
\* the branch under a recognised name.
Stands(s, history, made, revisions, declared) ==
    IF s \in Probes THEN s \in history.excused \/ revisions[s] # -1
    ELSE \/ s \in history.excused \cup history.loose
         \/ \A p \in declared : \E q \in made : SameArtifact(p, q)

Good(plan, s) == Stands(s, past, branch, reports, Committed(plan, s))

\* The sub-tasks this run does not judge again, but for the one under way.
Reached == IF run.cycle > 1 THEN Tasks \ {W} ELSE run.done

\* A worker whose contract is fixed.
Judged == turn.phase \in {"judge", "rescue"} \/ (turn.phase = "turn" /\ turn.tries > 0)

GoodInv ==
    /\ run.pc \in {"running", "review"} => \A s \in Reached : Good(live, s)
    /\ \A s \in Completed(rows) : Good(stored.plan, s)
    /\ run.pc = "running" /\ run.cycle = 1 => Completed(rows) \subseteq run.done /\ run.scoped = {}
    /\ turn.phase = "settle" => Good(live, W)
    /\ W \in Works /\ Judged =>
          \/ W \in past.loose
          \/ \A p \in Committed(live, W) : \E q \in turn.contract : SameArtifact(p, q)

LEMMA GoodPrimes ==
  ASSUME shape' = shape
  PROVE  /\ \A s : Good(live, s)' <=> Stands(s, past', branch', reports', Committed(live', s))
         /\ \A s : Good(stored.plan, s)' <=> Stands(s, past', branch', reports', Committed(stored'.plan, s))
         /\ \A w : Committed(live, w)' = Committed(live', w)
         /\ \A w : Committed(stored.plan, w)' = Committed(stored'.plan, w)
  BY DeclaredPrimes DEF Good, Stands, Probes

\* What is excused, let off or reported stays so, but for what is dispatched.
LEMMA PastKeeps ==
  ASSUME DriverInv, [ContractsNext]_contractsVars, NEW s \in Tasks,
         Dispatch => s # S \/ S \in Completed(rows')
  PROVE  /\ s \in past.excused => s \in past'.excused
         /\ s \in past.loose => s \in past'.loose
         /\ reports[s] # -1 => reports'[s] # -1
  <1>0. past \in PastTypes /\ reports \in [Tasks -> -1 .. stored.rev] /\ stored.rev \in Nat
    BY DEF DriverInv, ContractsTypeOK
  <1>1. CASE UNCHANGED <<reports, past>>
    BY <1>1
  <1>2. CASE Dispatch
    <2>1. reports' = reports
      BY <1>2 DEF Dispatch
    <2>2. past' = past \/ (s # S /\ past' = [past EXCEPT !.excused = @ \ {S}, !.loose = @ \ {S}])
      BY <1>2 DEF Dispatch
    <2> QED
      BY <1>0, <2>1, <2>2 DEF PastTypes
  <1>3. CASE Bind
    <2>1. reports' = [reports EXCEPT ![W] = Revised(W)] /\ Revised(W) \in Nat
      BY <1>3, BindDoes
    <2>2. past'.excused = past.excused /\ past.loose \subseteq past'.loose
      BY <1>0, <1>3 DEF Bind, PastTypes
    <2> QED
      BY <1>0, <2>1, <2>2
  <1>4. CASE WorkTurn
    <2>1. PICK commit \in SUBSET Paths, left \in SUBSET Paths :
             past' = IF Idles(commit, left) THEN [past EXCEPT !.loose = @ \cup {W}]
                     ELSE [past EXCEPT !.settled = @ \ Reopened(Names(commit, left), commit)]
      BY <1>4, WorkDoes
    <2>2. reports' = reports
      BY <1>4, WorkDoes
    <2> QED
      BY <1>0, <2>1, <2>2 DEF PastTypes
  <1>5. CASE Finishes
    <2>1. reports' = reports
      BY <1>5, FinishesDo
    <2>2. CASE Rescued
      BY <1>0, <2>1, <2>2, RescueDoes DEF PastTypes
    <2>3. CASE ~Rescued
      BY <1>0, <1>5, <2>1, <2>3, FinishLeaves DEF PastTypes
    <2> QED
      BY <2>2, <2>3
  <1>6. CASE Answered
    <2>1. reports' = reports
      BY <1>6, AnsweredDoes
    <2> QED
      BY <1>0, <1>6, <2>1 DEF Answered, TextAnswer, SkipAnswer, AcceptAnswer, PastTypes
  <1>7. CASE PassOver \/ AllDone \/ Reviewed \/ Mismatch \/ AbortAnswer \/ Turns \/ Ends \/ UNCHANGED contractsVars
    BY <1>1, <1>7, TurnsDo, EndsDo DEF PassOver, AllDone, Reviewed, Mismatch, AbortAnswer,
         plans, db, contractsVars
  <1>8. CASE Asks
    BY <1>0, <1>8, AsksDo DEF PastTypes
  <1> QED
    BY <1>2, <1>3, <1>4, <1>5, <1>6, <1>7, <1>8, Steps

\* What is good stays so while it declares the same, or is let off.
LEMMA GoodKeeps ==
  ASSUME DriverInv, [ContractsNext]_contractsVars, NEW s \in Tasks, NEW plan, NEW new,
         Good(plan, s), Dispatch => s # S \/ S \in Completed(rows'),
         Committed(new, s) = Committed(plan, s) \/ (s \in Works /\ s \in past'.excused \cup past'.loose)
  PROVE  Stands(s, past', branch', reports', Committed(new, s))
  <1>1. /\ s \in past.excused => s \in past'.excused
        /\ s \in past.loose => s \in past'.loose
        /\ reports[s] # -1 => reports'[s] # -1
    BY PastKeeps
  <1>2. branch \subseteq branch'
    BY TurnTyped
  <1> QED
    BY <1>1, <1>2 DEF Good, Stands, Works

\* Good in the plan of the run, good in the stored one.
LEMMA GoodInBoth ==
  ASSUME PlansAgree, NEW s \in Tasks, Good(live, s)
  PROVE  Good(stored.plan, s)
  <1>1. CASE s \in Probes
    BY <1>1 DEF Good, Stands
  <1>2. CASE s \notin Probes /\ s \notin past.excused \cup past.loose
    <2> SUFFICES ASSUME NEW p \in Committed(stored.plan, s)
                 PROVE  \E q \in branch : SameArtifact(p, q)
      BY <1>2 DEF Good, Stands
    <2>1. PICK r \in Committed(live, s) : SameArtifact(p, r)
      BY DEF PlansAgree
    <2>2. PICK q \in branch : SameArtifact(r, q)
      BY <1>2, <2>1 DEF Good, Stands
    <2> QED
      BY <2>1, <2>2, SameTrans
  <1> QED
    BY <1>1, <1>2 DEF Good, Stands

\* A row of a sub-task: the others are as they were.
LEMMA RowKeeps ==
  ASSUME rows \in [Cycles -> [Tasks -> RowStatuses]], NEW c \in Cycles, NEW s \in Tasks,
         NEW verdict \in RowStatuses \ {"none"}
  PROVE  LET table == [rows EXCEPT ![c][s] = verdict]
         IN  /\ Completed(table) \subseteq Completed(rows) \cup {s}
             /\ verdict \notin Accepted => Completed(table) \subseteq Completed(rows)
  <1> DEFINE table == [rows EXCEPT ![c][s] = verdict]
  <1>1. /\ \A d \in Cycles, u \in Tasks : <<d, u>> # <<c, s>> => table[d][u] = rows[d][u]
        /\ table[c][s] = verdict
    OBVIOUS
  <1> HIDE DEF table
  <1>2. ASSUME NEW u \in Completed(table), u # s
        PROVE  u \in Completed(rows)
    <2>1. PICK d \in Cycles : table[d][u] \in Accepted
                              /\ \A e \in (d + 1) .. MaxCycles : table[e][u] = "none"
      BY DEF Completed
    <2>2. u \in Tasks /\ MaxCycles \in Nat /\ \A e \in (d + 1) .. MaxCycles : e \in Cycles
      BY ContractsAssumption DEF Completed, Cycles
    <2> QED
      BY <1>1, <1>2, <2>1, <2>2 DEF Completed
  <1>3. ASSUME s \in Completed(table), verdict \notin Accepted
        PROVE  s \in Completed(rows)
    <2>1. PICK d \in Cycles : table[d][s] \in Accepted
                              /\ \A e \in (d + 1) .. MaxCycles : table[e][s] = "none"
      BY <1>3 DEF Completed
    <2>2. MaxCycles \in Nat /\ \A e \in (d + 1) .. MaxCycles : e \in Cycles
      BY ContractsAssumption DEF Cycles
    <2>3. d # c
      BY <1>1, <1>3, <2>1
    <2>4. c \notin (d + 1) .. MaxCycles
      BY <1>1, <2>1
    <2> QED
      BY <1>1, <2>1, <2>2, <2>3, <2>4 DEF Completed
  <1> QED
    BY <1>2, <1>3 DEF table

\* The row an answer marks is a row of the sub-task it is about.
LEMMA MarkedKeeps ==
  ASSUME DriverInv, run.pc = "paused", NEW verdict \in Accepted
  PROVE  /\ Latest(asked.task) \in Rowed(asked.task) /\ Rowed(asked.task) \subseteq Cycles
         /\ \A d \in Rowed(asked.task) : d <= Latest(asked.task)
         /\ Completed(Marked(asked.task, verdict)) \subseteq Completed(rows) \cup {asked.task}
  <1>1. asked.task \in Tasks /\ run.cycle \in Rowed(asked.task)
    BY DEF DriverInv, DriverOK, ContractsTypeOK, RunTypes, Rowed
  <1>2. Rowed(asked.task) \in SUBSET (1 .. MaxCycles) /\ MaxCycles \in Nat
    BY ContractsAssumption DEF Rowed, Cycles
  <1>3. \E c \in Rowed(asked.task) : \A d \in Rowed(asked.task) : d <= c
    BY <1>1, <1>2, LargestNat
  <1>4. Latest(asked.task) \in Rowed(asked.task) /\ \A d \in Rowed(asked.task) : d <= Latest(asked.task)
    BY <1>3 DEF Latest
  <1>5. rows \in [Cycles -> [Tasks -> RowStatuses]] /\ Latest(asked.task) \in Cycles
        /\ verdict \in RowStatuses \ {"none"}
    BY <1>4 DEF DriverInv, ContractsTypeOK, Rowed, RowStatuses, Accepted
  <1>6. Completed(Marked(asked.task, verdict)) \subseteq Completed(rows) \cup {asked.task}
    BY <1>1, <1>5, RowKeeps DEF Marked
  <1> QED
    BY <1>2, <1>4, <1>6 DEF Cycles


-----------------------------------------------------------------------------
(* ... step by step                                                          *)

GoodAll == DriverInv /\ PlansAgree /\ GoodInv

\* Of what is not written, nothing is lost.
LEMMA GoodSame ==
  ASSUME GoodAll, [ContractsNext]_contractsVars, live' = live, stored' = stored,
         NEW s \in Tasks, Dispatch => s # S \/ S \in Completed(rows')
  PROVE  /\ Good(live, s) => Good(live, s)'
         /\ Good(stored.plan, s) => Good(stored.plan, s)'
  <1>1. shape' = shape
    BY ShapeKeeps
  <1>2. Good(live, s) => Stands(s, past', branch', reports', Committed(live, s))
    BY GoodKeeps DEF GoodAll
  <1>3. Good(stored.plan, s) => Stands(s, past', branch', reports', Committed(stored.plan, s))
    BY GoodKeeps DEF GoodAll
  <1> QED
    BY <1>1, <1>2, <1>3, GoodPrimes

\* What the driver does between two sub-tasks.
LEMMA GoodDriver ==
  ASSUME GoodAll, [ContractsNext]_contractsVars, PassOver \/ Dispatch \/ AllDone
  PROVE  GoodInv'
  <1>0. /\ DriverInv /\ run \in RunTypes /\ rows \in [Cycles -> [Tasks -> RowStatuses]]
        /\ live' = live /\ stored' = stored /\ Tasks' = Tasks /\ Works' = Works
        /\ W = 0 /\ run.pc = "running" /\ turn.phase = "idle" /\ run.cycle \in Cycles
    BY ShapeKeeps DEF GoodAll, DriverInv, DriverOK, ContractsTypeOK, PassOver, Dispatch, AllDone,
       Idle, plans, RunTypes
  <1>1. CASE PassOver
    <2>1. /\ S \in Tasks /\ past' = past /\ W' = 0 /\ turn'.phase = "idle"
      BY <1>0, <1>1 DEF PassOver, W
    <2>2. \A s \in Tasks : (Good(live, s) => Good(live, s)') /\ (Good(stored.plan, s) => Good(stored.plan, s)')
      BY <1>0, <1>1, GoodSame DEF PassOver, Dispatch
    <2>3. CASE S \in run.done /\ run' = [run EXCEPT !.at = @ + 1] /\ UNCHANGED rows
      <3>1. Completed(rows)' = Completed(rows) /\ Reached' = Reached /\ run'.pc = run.pc
            /\ run'.cycle = run.cycle /\ run'.done = run.done /\ run'.scoped = run.scoped
        BY <1>0, <2>1, <2>3 DEF Completed, Reached, RunTypes
      <3>2. Reached \subseteq Tasks /\ Completed(rows) \subseteq Tasks
        BY <1>0 DEF Reached, RunTypes, Completed
      <3> QED
        BY <1>0, <2>1, <2>2, <3>1, <3>2 DEF GoodAll, GoodInv, Judged
    <2>4. CASE S \in run.scoped \ run.done /\ Complete(S)
      <3>1. /\ run.cycle # 1 /\ run'.pc = run.pc /\ run'.cycle = run.cycle
            /\ Reached = Tasks \ {0} /\ Reached' = Tasks \ {0}
        BY <1>0, <2>1, <2>4 DEF GoodAll, GoodInv, Complete, RunTypes, Reached, Cycles
      <3>2. rows' = rows \/ rows' = [rows EXCEPT ![run.cycle][S] = "completed_no_change"]
        BY <1>1, <2>4 DEF PassOver
      <3>3. Completed(rows') \subseteq Completed(rows) \cup {S}
        BY <1>0, <2>1, <3>2, RowKeeps DEF RowStatuses, Accepted
      <3>4. Completed(rows)' = Completed(rows') /\ Completed(rows) \subseteq Tasks
        BY <1>0 DEF Completed
      <3>5. 0 \notin Tasks
        BY DEF Tasks
      <3>6. \A s \in Tasks : Good(live, s) /\ Good(stored.plan, s)
        BY <1>0, <3>1, <3>5, GoodInBoth DEF GoodAll, GoodInv
      <3> QED
        BY <1>0, <2>1, <2>2, <3>1, <3>3, <3>4, <3>6 DEF GoodInv, Judged
    <2> QED
      BY <1>1, <2>3, <2>4 DEF PassOver
  <1>2. CASE Dispatch
    <2>1. /\ S \in Tasks \ run.done /\ run' = run /\ W' = S /\ turn'.phase = "turn" /\ turn'.tries = 0
          /\ rows' = [rows EXCEPT ![run.cycle][S] = "running"]
      BY <1>2 DEF Dispatch, Put, NoTurn, W
    <2>2. Completed(rows') \subseteq Completed(rows) /\ Completed(rows)' = Completed(rows')
          /\ Completed(rows) \subseteq Tasks
      <3>1. "running" \in RowStatuses \ {"none"} /\ "running" \notin Accepted
        BY DEF RowStatuses, Accepted
      <3>2. Completed(rows)' = Completed(rows') /\ Completed(rows) \subseteq Tasks
        BY <1>0 DEF Completed
      <3>3. Completed([rows EXCEPT ![run.cycle][S] = "running"]) \subseteq Completed(rows)
        BY <1>0, <2>1, <3>1, RowKeeps
      <3> QED
        BY <2>1, <3>2, <3>3
    <2>3. \A s \in Tasks \ {S} : (Good(live, s) => Good(live, s)')
                                 /\ (Good(stored.plan, s) => Good(stored.plan, s)')
      BY <1>0, GoodSame
    <2>4. ASSUME NEW s \in Completed(rows')
          PROVE  Good(stored.plan, s)'
      <3>1. s \in Tasks /\ Good(stored.plan, s)
        BY <2>2 DEF GoodAll, GoodInv
      <3>2. s # S \/ S \in Completed(rows')
        OBVIOUS
      <3> QED
        BY <1>0, <3>1, <3>2, GoodSame
    <2>5. Reached' \subseteq Reached \ {S} /\ Reached \subseteq Tasks
      <3>1. S \notin run.done /\ run'.cycle = run.cycle /\ run'.done = run.done /\ run.done \subseteq Tasks
        BY <1>0, <2>1 DEF RunTypes
      <3>2. 0 \notin Tasks
        BY DEF Tasks
      <3> QED
        BY <1>0, <2>1, <3>1, <3>2 DEF Reached
    <2>6. run'.pc = "running" /\ ((run'.cycle = 1) = (run.cycle = 1)) /\ UNCHANGED <<run.done, run.scoped>>
      BY <1>0, <2>1
    <2>7. \A s \in Reached' : Good(live, s)'
      BY <1>0, <2>3, <2>5 DEF GoodAll, GoodInv
    <2>8. turn'.phase # "settle" /\ ~Judged'
      BY <2>1 DEF Judged
    <2> QED
      BY <1>0, <2>2, <2>4, <2>6, <2>7, <2>8 DEF GoodAll, GoodInv
  <1>3. CASE AllDone
    <2>1. /\ run' = [run EXCEPT !.pc = "review"] /\ UNCHANGED <<rows, turn>>
      BY <1>3 DEF AllDone, db
    <2>2. \A s \in Tasks : (Good(live, s) => Good(live, s)') /\ (Good(stored.plan, s) => Good(stored.plan, s)')
      <3>1. ~Dispatch
        <4>1. S \in Int /\ shape.n \in Int
          BY <1>0, ShapeFacts DEF DriverInv, ContractsTypeOK, RunTypes, S
        <4> QED
          BY <1>3, <4>1 DEF AllDone, Dispatch, Tasks
      <3> QED
        BY <1>0, <3>1, GoodSame
    <2>3. Completed(rows)' = Completed(rows) /\ Reached' = Reached /\ run'.pc = "review"
      BY <1>0, <2>1 DEF Completed, Reached, RunTypes, W
    <2>4. Reached \subseteq Tasks /\ Completed(rows) \subseteq Tasks
      BY <1>0 DEF Reached, RunTypes, Completed
    <2>5. turn'.phase = "idle" /\ W' = 0
      BY <1>0, <2>1 DEF W
    <2> QED
      BY <1>0, <2>2, <2>3, <2>4, <2>5 DEF GoodAll, GoodInv, Judged
  <1> QED
    BY <1>1, <1>2, <1>3

\* The next cycle judges what it leaves in scope, and has the rest.
LEMMA GoodReviewed ==
  ASSUME GoodAll, [ContractsNext]_contractsVars, Reviewed
  PROVE  GoodInv'
  <1>0. /\ DriverInv /\ run \in RunTypes /\ live' = live /\ shape' = shape /\ Tasks' = Tasks
        /\ Works' = Works /\ UNCHANGED <<rows, turn>> /\ run.pc = "review"
        /\ stored' \in {stored, [plan |-> live, rev |-> stored.rev + 1]}
    BY ShapeKeeps DEF GoodAll, DriverInv, ContractsTypeOK, Reviewed, plans, db
  <1>1. Tasks \subseteq run.done /\ W = 0 /\ turn.phase = "idle"
    BY <1>0 DEF DriverInv, DriverOK
  <1>2. \A s \in Tasks : Good(live, s)
    BY <1>0, <1>1 DEF GoodAll, GoodInv, Reached, Tasks
  <1>3. \A s \in Tasks : Good(live, s)' /\ Good(stored.plan, s)'
    <2> SUFFICES ASSUME NEW s \in Tasks
                 PROVE  Good(live, s)' /\ Good(stored.plan, s)'
      OBVIOUS
    <2>1. Stands(s, past', branch', reports', Committed(live, s))
      BY <1>0, <1>2, GoodKeeps DEF Reviewed, Dispatch, Idle
    <2>2. Stands(s, past', branch', reports', Committed(stored.plan, s))
      BY <1>0, <1>2, GoodInBoth, GoodKeeps DEF Reviewed, Dispatch, Idle, GoodAll
    <2>3. stored'.plan = stored.plan \/ stored'.plan = live
      BY <1>0
    <2> QED
      BY <1>0, <2>1, <2>2, <2>3, GoodPrimes
  <1>4. run'.pc = "ended" \/ (run'.pc = "running" /\ run'.cycle # 1)
    <2>1. run.cycle \in Nat \ {0} /\ run \in [pc : {"running", "review", "paused", "ended"}, cycle : Cycles,
             at : 1 .. (shape.n + 1), done : SUBSET Tasks, scoped : SUBSET Tasks, n : 1 .. MaxRuns]
      BY <1>0 DEF RunTypes, Cycles
    <2>2. \/ run' = [run EXCEPT !.pc = "ended"]
          \/ \E scoped \in SUBSET Tasks \ {Tasks} :
                run' = [run EXCEPT !.pc = "running", !.cycle = @ + 1, !.at = 1, !.done = {},
                                   !.scoped = scoped]
      BY DEF Reviewed
    <2>3. CASE run' = [run EXCEPT !.pc = "ended"]
      BY <2>1, <2>3
    <2>4. ASSUME NEW scoped \in SUBSET Tasks,
                 run' = [run EXCEPT !.pc = "running", !.cycle = @ + 1, !.at = 1, !.done = {},
                                    !.scoped = scoped]
          PROVE  run'.pc = "running" /\ run'.cycle # 1
      BY <2>1, <2>4
    <2> QED
      BY <2>2, <2>3, <2>4
  <1>5. Completed(rows)' \subseteq Tasks /\ Reached' \subseteq Tasks /\ turn'.phase = "idle"
    BY <1>0, <1>1, <1>4, TypesNext DEF Completed, Reached, ContractsTypeOK, RunTypes
  <1> QED
    BY <1>0, <1>3, <1>4, <1>5 DEF GoodInv, Judged


\* The turns of a probe or a worker, and their loss.
LEMMA GoodTurn ==
  ASSUME GoodAll, [ContractsNext]_contractsVars,
         Turns \/ Ends \/ Asks \/ Mismatch \/ AbortAnswer \/ UNCHANGED contractsVars
  PROVE  GoodInv'
  <1>0. /\ DriverInv /\ run \in RunTypes /\ rows \in [Cycles -> [Tasks -> RowStatuses]]
        /\ Tasks' = Tasks /\ Works' = Works /\ shape' = shape
        /\ turn \in TurnTypes(branch) /\ written \in [Tasks -> SUBSET branch] /\ past \in PastTypes
    BY ShapeKeeps DEF GoodAll, DriverInv, ContractsTypeOK
  <1>1. /\ live' = live /\ stored' = stored /\ branch' = branch /\ reports' = reports
        /\ past'.excused = past.excused /\ past'.loose = past.loose
    <2>1. CASE Asks
      BY <1>0, <2>1, AsksDo DEF PastTypes
    <2>2. CASE ~Asks
      BY <1>0, <2>2, TurnsDo, EndsDo DEF Mismatch, AbortAnswer, plans, work, db, contractsVars
    <2> QED
      BY <2>1, <2>2
  <1>2. \A s : (Good(live, s)' <=> Good(live, s)) /\ (Good(stored.plan, s)' <=> Good(stored.plan, s))
    BY <1>0, <1>1, GoodPrimes DEF Good, Stands
  <1>3. \A w : Committed(live, w)' = Committed(live, w)
    BY <1>0, <1>1, GoodPrimes
  <1>4. Completed(rows)' \subseteq Completed(rows)
    <2>1. rows' = rows \/ \E verdict \in {"failed", "failed_verification", "blocked"} :
                             rows' = [rows EXCEPT ![run.cycle][W] = verdict] /\ turn.phase # "idle"
      <3>1. CASE Ends \/ Asks
        BY <1>0, <3>1, EndsDo, AsksDo
      <3>2. CASE Mismatch
        BY <3>2 DEF Mismatch, Failed, Judging, Put
      <3>3. CASE Turns \/ AbortAnswer \/ UNCHANGED contractsVars
        BY <1>0, <3>3, TurnsDo DEF AbortAnswer, db, contractsVars
      <3> QED
        BY <3>1, <3>2, <3>3
    <2>2. turn.phase # "idle" => W \in Tasks /\ run.cycle \in Cycles
      BY <1>0, UnderWay
    <2>3. \A verdict \in {"failed", "failed_verification", "blocked"} :
             verdict \in RowStatuses \ {"none"} /\ verdict \notin Accepted
      BY DEF RowStatuses, Accepted
    <2>4. Completed(rows') \subseteq Completed(rows)
      BY <1>0, <2>1, <2>2, <2>3, RowKeeps, ZenonT(60)
    <2>5. Completed(rows)' = Completed(rows')
      BY <1>0 DEF Completed
    <2> QED
      BY <2>4, <2>5
  <1>5. CASE Ends \/ Asks \/ AbortAnswer
    <2>1. run'.pc \in {"ended", "paused"} /\ turn'.phase = "idle"
      BY <1>0, <1>5, EndsDo, AsksDo DEF AbortAnswer, RunTypes, NoTurn, DriverInv, DriverOK, W, UnderWay
    <2> QED
      BY <1>2, <1>4, <2>1 DEF GoodAll, GoodInv, Judged
  <1>6. CASE Turns
    <2>1. W' = W /\ UNCHANGED <<run, rows>>
      BY <1>0, <1>6, TurnsDo
    <2>2. Reached' = Reached /\ Completed(rows)' = Completed(rows)
      BY <1>0, <2>1 DEF Reached, Completed
    <2>3. turn'.phase = "settle" => Good(live, W)
      <3> SUFFICES ASSUME turn'.phase = "settle"
                   PROVE  Good(live, W)
        OBVIOUS
      <3>1. Verified
        BY <1>0, <1>6 DEF Turns, Observed, ReportRetried, Retry, TurnTypes
      <3>2. W \in Works /\ W \in Tasks /\ turn.phase = "judge" /\ Missing = {}
        BY <1>0, <3>1, UnderWay DEF Verified, Judging, Unmet, DriverInv, PhaseOK
      <3>3. turn.contract \subseteq branch
        BY <1>0, <3>2 DEF Missing, Lacking
      <3>4. \/ W \in past.loose
            \/ \A p \in Committed(live, W) : \E q \in turn.contract : SameArtifact(p, q)
        BY <3>2 DEF GoodAll, GoodInv, Judged
      <3> QED
        BY <3>2, <3>3, <3>4 DEF Good, Stands, Works
    <2>4. W \in Works /\ Judged' => Judged /\ turn'.contract = turn.contract
      <3>1. CASE Observed \/ Verified
        BY <1>0, <3>1 DEF Observed, Verified, Judged, TurnTypes, NoTurn, Works
      <3>2. CASE ReportRetried
        BY <1>0, <3>2 DEF ReportRetried, Invalid, DriverInv, PhaseOK, Works
      <3>3. CASE Retry
        BY <1>0, <3>3 DEF Retry, Judging, Judged, TurnTypes
      <3> QED
        BY <1>6, <3>1, <3>2, <3>3 DEF Turns
    <2> QED
      BY <1>0, <1>1, <1>2, <1>3, <2>1, <2>2, <2>3, <2>4 DEF GoodAll, GoodInv
  <1>7. CASE Mismatch \/ UNCHANGED contractsVars
    <2>1. W' = W /\ run' = run /\ (turn'.phase # "settle" \/ turn' = turn)
      BY <1>0, <1>7 DEF Mismatch, Failed, Judging, contractsVars, TurnTypes, W
    <2>2. Judged' => Judged /\ turn'.contract = turn.contract
      BY <1>0, <1>7 DEF Mismatch, Failed, Judging, contractsVars, TurnTypes, Judged
    <2>3. Reached' = Reached /\ W' = W
      BY <1>0, <2>1 DEF Reached, W
    <2> QED
      BY <1>0, <1>1, <1>2, <1>3, <1>4, <2>1, <2>2, <2>3 DEF GoodAll, GoodInv
  <1> QED
    BY <1>5, <1>6, <1>7


\* A report that is bound: its probe has reported, its consumers are let off.
LEMMA GoodBind ==
  ASSUME GoodAll, [ContractsNext]_contractsVars, Bind
  PROVE  GoodInv'
  <1> DEFINE v == turn.report
  <1>0. /\ DriverInv /\ run \in RunTypes /\ Tasks' = Tasks /\ Works' = Works /\ Probes' = Probes
        /\ shape' = shape /\ past \in PastTypes /\ shape \in Shapes /\ Works \subseteq Tasks
        /\ reports \in [Tasks -> -1 .. stored.rev] /\ PlanOK(live) /\ stored.rev \in Nat
        /\ \A b \in shape.binds : b.of \in Probes /\ b.to \in Works
    BY ShapeKeeps, ShapeFacts DEF GoodAll, DriverInv, ContractsTypeOK
  <1>1. /\ W \in Probes /\ v \in [Bindings(W) -> Paths] /\ turn.phase = "report"
        /\ live' = Bound(live, W, v) /\ Revised(W) \in Nat
        /\ stored' = IF Bindings(W) = {} THEN stored ELSE [plan |-> live', rev |-> Revised(W)]
        /\ reports' = [reports EXCEPT ![W] = Revised(W)]
        /\ turn' = [NoTurn EXCEPT !.task = W, !.phase = "settle"]
        /\ UNCHANGED <<rows, run>>
    BY <1>0, BindDoes
  <1>2. /\ W \in Tasks /\ W' = W /\ turn'.phase = "settle" /\ run.pc = "running" /\ W \notin Works
        /\ W # 0
    BY <1>0, <1>1, UnderWay DEF NoTurn, W, Works
  <1>3. /\ Reached' = Reached /\ Completed(rows)' = Completed(rows)
        /\ Reached \subseteq Tasks /\ Completed(rows) \subseteq Tasks
    BY <1>0, <1>1, <1>2 DEF Reached, Completed, RunTypes
  <1>4. \A s \in Tasks : Committed(live', s) = Committed(live, s) \/ (s \in Works /\ s \in past'.loose)
    <2> SUFFICES ASSUME NEW s \in Tasks, s \in {b.to : b \in Bindings(W)}
                 PROVE  s \in Works /\ s \in past'.loose
      BY <1>0, <1>1, BoundDeclares
    <2>1. s \in Works
      BY <1>0 DEF Bindings
    <2>2. past'.loose = past.loose \cup {b.to : b \in Bindings(W)}
      BY <1>0 DEF Bind, PastTypes
    <2> QED
      BY <2>1, <2>2
  <1>5. ~Dispatch
    BY <1>1, <1>2 DEF Dispatch, Idle
  <1>6. ASSUME NEW s \in Tasks, Good(live, s)
        PROVE  Good(live, s)' /\ (Bindings(W) # {} => Good(stored.plan, s)')
    <2>1. Stands(s, past', branch', reports', Committed(live', s))
      BY <1>0, <1>4, <1>5, <1>6, GoodKeeps
    <2> QED
      BY <1>0, <1>1, <2>1, GoodPrimes
  <1>7. ASSUME NEW s, s = W
        PROVE  Good(live, s)' /\ (Bindings(W) # {} => Good(stored.plan, s)')
    <2>1. reports'[s] # -1
      BY <1>0, <1>1, <1>2, <1>7
    <2>2. Stands(s, past', branch', reports', Committed(live', s))
      BY <1>1, <1>7, <2>1 DEF Stands
    <2> QED
      BY <1>0, <1>1, <2>2, GoodPrimes
  <1>8. ASSUME NEW s \in Completed(rows)
        PROVE  Good(stored.plan, s)'
    <2>1. CASE Bindings(W) = {}
      <3>1. stored' = stored /\ Good(stored.plan, s) /\ s \in Tasks
        BY <1>1, <1>3, <2>1 DEF GoodAll, GoodInv
      <3>2. Stands(s, past', branch', reports', Committed(stored.plan, s))
        BY <1>0, <1>5, <3>1, GoodKeeps
      <3> QED
        BY <1>0, <3>1, <3>2, GoodPrimes
    <2>2. CASE Bindings(W) # {} /\ s # W
      <3>1. s \in Reached
        BY <1>0, <1>2, <1>3, <2>2 DEF GoodAll, GoodInv, Reached, RunTypes, Cycles
      <3>2. Good(live, s)
        BY <1>2, <3>1 DEF GoodAll, GoodInv
      <3> QED
        BY <1>3, <1>6, <2>2, <3>2
    <2> QED
      BY <1>7, <2>1, <2>2
  <1>9. \A s \in Reached : Good(live, s)'
    BY <1>2, <1>3, <1>6 DEF GoodAll, GoodInv
  <1> QED
    BY <1>0, <1>1, <1>2, <1>3, <1>7, <1>8, <1>9 DEF GoodAll, GoodInv

\* A worker's turn: what it owes is in the contract it is judged by.
LEMMA GoodWork ==
  ASSUME GoodAll, [ContractsNext]_contractsVars, WorkTurn
  PROVE  GoodInv'
  <1>0. /\ DriverInv /\ run \in RunTypes /\ Tasks' = Tasks /\ Works' = Works
        /\ shape' = shape /\ past \in PastTypes /\ PlanOK(live) /\ turn \in TurnTypes(branch)
    BY ShapeKeeps DEF GoodAll, DriverInv, ContractsTypeOK
  <1>1. /\ turn.phase = "turn" /\ W \in Works /\ W \in Tasks
        /\ UNCHANGED <<stored, rows, run>> /\ run.pc = "running"
    BY <1>0, WorkDoes, UnderWay
  <1>2. PICK commit \in SUBSET Paths, left \in SUBSET Paths, says \in {"progress", "decides", "nothing"} :
           /\ branch' = branch \cup commit /\ found' = found \cup commit \cup left
           /\ written' = IF run.cycle = 1 THEN [written EXCEPT ![W] = @ \cup commit] ELSE written
           /\ turn' = [turn EXCEPT !.phase = "judge", !.commit = commit, !.dirty = left # {},
                                   !.says = says, !.fixes = Names(commit, left),
                                   !.contract = Owed(commit, left), !.disk = Disked(commit, left)]
           /\ live' = IF turn.tries = 0
                      THEN [live EXCEPT !.files[W] = Corrected(@, Names(commit, left))]
                      ELSE live
           /\ past' = IF Idles(commit, left) THEN [past EXCEPT !.loose = @ \cup {W}]
                      ELSE [past EXCEPT !.settled = @ \ Reopened(Names(commit, left), commit)]
           /\ Names(commit, left) \in SUBSET (Paths \X Paths)
           /\ Owed(commit, left) \in SUBSET Paths /\ Disked(commit, left) \in SUBSET Paths
    BY <1>0, WorkDoes
  <1> DEFINE fixes == Names(commit, left)
             owed == Committed(live, W)
  <1>3. /\ W' = W /\ turn'.phase = "judge" /\ turn'.contract = Owed(commit, left)
        /\ \A w \in Tasks \ {W} : Committed(live', w) = Committed(live, w)
    <2>1. W' = W /\ turn'.phase = "judge" /\ turn'.contract = Owed(commit, left)
      BY <1>0, <1>2 DEF TurnTypes, W
    <2>2. CASE turn.tries = 0
      <3>1. /\ live' = [live EXCEPT !.files[W] = Corrected(@, Names(commit, left))]
            /\ Names(commit, left) \in SUBSET (Paths \X Paths) /\ PlanOK(live) /\ W \in Tasks
        BY <1>0, <1>1, <1>2, <2>2
      <3>2. \A w \in Tasks \ {W} : Committed(live', w) = Committed(live, w)
        BY <3>1, CorrectedLive DEF Renames
      <3> QED
        BY <2>1, <3>2
    <2>3. CASE turn.tries # 0
      BY <1>2, <2>1, <2>3
    <2> QED
      BY <2>2, <2>3
  <1>4. ~Dispatch
    BY <1>1 DEF Dispatch, Idle, DriverOK, DriverInv, GoodAll
  <1>5. /\ Reached' = Reached /\ Completed(rows)' = Completed(rows) /\ W \notin Reached
        /\ Reached \subseteq Tasks /\ Completed(rows) \subseteq Tasks
    BY <1>0, <1>1, <1>3 DEF Reached, Completed, RunTypes, DriverInv, DriverOK, Works, Tasks
  <1>6. ASSUME NEW s \in Reached
        PROVE  Good(live, s)'
    <2>1. s \in Tasks /\ s # W /\ Good(live, s)
      BY <1>1, <1>5 DEF GoodAll, GoodInv
    <2>2. Stands(s, past', branch', reports', Committed(live', s))
      BY <1>0, <1>3, <1>4, <2>1, GoodKeeps
    <2> QED
      BY <1>0, <2>2, GoodPrimes
  <1>7. ASSUME NEW s \in Completed(rows)
        PROVE  Good(stored.plan, s)'
    <2>1. s \in Tasks /\ Good(stored.plan, s)
      BY <1>5 DEF GoodAll, GoodInv
    <2>2. Stands(s, past', branch', reports', Committed(stored.plan, s))
      BY <1>0, <1>4, <2>1, GoodKeeps
    <2> QED
      BY <1>0, <1>1, <2>2, GoodPrimes
  <1>8. \/ W \in past'.loose
        \/ \A p \in Committed(live', W) : \E q \in Owed(commit, left) : SameArtifact(p, q)
    <2>1. CASE Idles(commit, left)
      BY <1>0, <1>2, <2>1 DEF PastTypes
    <2>2. CASE ~Idles(commit, left) /\ turn.tries = 0
      <3>1. \A f \in fixes : Recognised(f[1], f[2])
        BY <1>0, <1>1, <1>2, <2>2, FixesAre DEF Names
      <3>2. owed \in SUBSET Paths
        BY <1>0, <1>1, DeclaredTyped
      <3>3. Owed(commit, left) = Replaced(Replaced(owed, fixes), fixes)
        BY <2>2 DEF Owed, Renamed
      <3> HIDE DEF fixes, owed
      <3>4. fixes \in SUBSET (Paths \X Paths)
        BY <1>2 DEF fixes
      <3>5. /\ Replaced(owed, fixes) \subseteq Paths
            /\ \A p \in owed : \E q \in Replaced(owed, fixes) : q = p \/ <<p, q>> \in fixes
        BY <3>2, <3>4, ReplacedKeeps
      <3> DEFINE once == Replaced(owed, fixes)
      <3> HIDE DEF once
      <3>6. \A p \in once : \E q \in Replaced(once, fixes) : q = p \/ <<p, q>> \in fixes
        <4>1. once \in SUBSET Paths
          BY <3>5 DEF once
        <4> QED
          BY <3>4, <4>1, ReplacedKeeps
      <3>7. \A p \in Paths, q \in Paths : q = p \/ <<p, q>> \in fixes => SameArtifact(p, q)
        BY <3>1, SameRefl, SameStep
      <3>8. \A p \in Replaced(owed, fixes) : \E q \in Owed(commit, left) : SameArtifact(p, q)
        BY <1>2, <3>3, <3>5, <3>6, <3>7 DEF once
      <3>9. ASSUME NEW p \in Committed(live', W)
            PROVE  \E q \in Owed(commit, left) : SameArtifact(p, q)
        <4>1. p \in owed \/ \E r \in owed : <<r, p>> \in fixes
          BY <1>0, <1>1, <1>2, <2>2, <3>4, CorrectedLive DEF owed, fixes, Renames
        <4>2. CASE p \in owed
          <5>1. PICK r \in Replaced(owed, fixes) : SameArtifact(p, r)
            BY <3>2, <3>5, <3>7, <4>2
          <5> QED
            BY <3>8, <5>1, SameTrans
        <4>3. CASE \E r \in owed : <<r, p>> \in fixes
          <5>1. p \in Replaced(owed, fixes)
            BY <3>4, <4>3 DEF Replaced
          <5> QED
            BY <3>8, <5>1
        <4> QED
          BY <4>1, <4>2, <4>3
      <3> QED
        BY <3>9
    <2>3. CASE ~Idles(commit, left) /\ turn.tries # 0
      <3>1. Judged
        BY <1>0, <1>1, <2>3 DEF Judged, TurnTypes
      <3>2. live' = live /\ Owed(commit, left) = turn.contract /\ past'.loose = past.loose
        BY <1>0, <1>2, <2>3 DEF Owed, Renamed, PastTypes
      <3> QED
        BY <1>1, <3>1, <3>2 DEF GoodAll, GoodInv
    <2> QED
      BY <2>1, <2>2, <2>3
  <1> QED
    BY <1>0, <1>1, <1>3, <1>5, <1>6, <1>7, <1>8, GoodPrimes DEF GoodAll, GoodInv


\* A sub-task that finishes has what it owes, was excused, or let off.
LEMMA GoodFinish ==
  ASSUME GoodAll, PlansAgree', [ContractsNext]_contractsVars, Finishes
  PROVE  GoodInv'
  <1>0. /\ DriverInv /\ run \in RunTypes /\ rows \in [Cycles -> [Tasks -> RowStatuses]]
        /\ Tasks' = Tasks /\ Works' = Works /\ shape' = shape /\ past \in PastTypes
        /\ PlanOK(live) /\ turn \in TurnTypes(branch) /\ written \in [Tasks -> SUBSET branch]
        /\ Probes' = Probes /\ branch \subseteq Paths
    BY ShapeKeeps DEF GoodAll, DriverInv, ContractsTypeOK
  <1>1. /\ turn.phase # "idle" /\ turn' = NoTurn
        /\ run' = [run EXCEPT !.done = @ \cup {W}, !.at = @ + 1]
        /\ \E verdict \in Accepted : rows' = [rows EXCEPT ![run.cycle][W] = verdict]
        /\ UNCHANGED <<stored, reports, branch>>
    BY <1>0, FinishesDo
  <1>2. W \in Tasks /\ run.cycle \in Cycles /\ run.pc = "running" /\ W \notin run.done
    BY <1>0, <1>1, UnderWay DEF DriverInv, DriverOK
  <1>3. /\ turn'.phase = "idle" /\ ~Judged' /\ run'.pc = run.pc /\ run'.cycle = run.cycle
        /\ run'.done = run.done \cup {W} /\ run'.scoped = run.scoped
    BY <1>0, <1>1 DEF NoTurn, Judged, RunTypes
  <1>4. /\ Completed(rows)' \subseteq Completed(rows) \cup {W} /\ Completed(rows) \subseteq Tasks
        /\ Reached' \subseteq Reached \cup {W} /\ Reached \subseteq Tasks
    <2>1. Completed(rows') \subseteq Completed(rows) \cup {W}
      BY <1>0, <1>1, <1>2, RowKeeps DEF RowStatuses, Accepted
    <2>2. Completed(rows)' = Completed(rows') /\ Completed(rows) \subseteq Tasks
      BY <1>0 DEF Completed
    <2>3. Reached' \subseteq Reached \cup {W} /\ Reached \subseteq Tasks
      BY <1>0, <1>3 DEF Reached, RunTypes
    <2> QED
      BY <2>1, <2>2, <2>3
  <1>5. ~Dispatch
    BY <1>0, <1>1 DEF Dispatch, Idle, DriverInv, DriverOK
  <1>6. \A w \in Tasks \ {W} : Committed(live', w) = Committed(live, w)
    <2>1. CASE Rescued
      <3>1. PICK f \in Paths \X Paths : live' = [live EXCEPT !.files[W] = Corrected(@, {f})]
        BY <1>0, <2>1, RescueDoes
      <3>2. {f} \in SUBSET (Paths \X Paths)
        BY <3>1
      <3> QED
        BY <1>0, <1>2, <3>1, <3>2, CorrectedLive DEF Renames
    <2>2. CASE ~Rescued
      BY <1>0, <2>2, FinishLeaves
    <2> QED
      BY <2>1, <2>2
  <1>7. ASSUME NEW s \in Tasks \ {W}
        PROVE  /\ Good(live, s) => Good(live, s)'
               /\ Good(stored.plan, s) => Good(stored.plan, s)'
    <2>1. Good(live, s) => Stands(s, past', branch', reports', Committed(live', s))
      BY <1>0, <1>5, <1>6, GoodKeeps
    <2>2. Good(stored.plan, s) => Stands(s, past', branch', reports', Committed(stored.plan, s))
      BY <1>0, <1>5, GoodKeeps
    <2> QED
      BY <1>0, <1>1, <2>1, <2>2, GoodPrimes
  <1>8. Stands(W, past', branch', reports', Committed(live', W))
    <2>1. CASE Rescued
      <3>1. PICK f \in Paths \X Paths :
               /\ Missing = {f[1]} /\ f[2] \in turn.commit /\ Recognised(f[1], f[2])
               /\ live' = [live EXCEPT !.files[W] = Corrected(@, {f})]
               /\ past' = [past EXCEPT !.settled = @ \ {<<W, f[2]>>}]
        BY <1>0, <2>1, RescueDoes
      <3>2. W \in Works /\ turn.phase = "rescue" /\ turn.commit \subseteq branch
        BY <1>0, <2>1, RescueDoes DEF TurnTypes
      <3>3. past'.loose = past.loose
        BY <1>0, <3>1 DEF PastTypes
      <3>4. \A q \in turn.contract : q \in branch \/ q = f[1]
        BY <1>0, <1>2, <3>1 DEF Missing, Lacking
      <3>5. f[2] \in branch' /\ SameArtifact(f[1], f[2])
        BY <1>1, <3>1, <3>2, SameStep
      <3>6. \A q \in turn.contract : \E r \in branch' : SameArtifact(q, r)
        BY <1>1, <3>4, <3>5, SameRefl
      <3>7. ASSUME W \notin past.loose, NEW p \in Committed(live', W)
            PROVE  \E r \in branch' : SameArtifact(p, r)
        <4>1. {f} \in SUBSET (Paths \X Paths)
          BY <3>1
        <4>2. p \in Committed(live, W) \/ \E q \in Committed(live, W) : <<q, p>> \in {f}
          BY <1>0, <1>2, <3>1, <4>1, CorrectedLive DEF Renames
        <4>3. CASE p \in Committed(live, W)
          <5>1. PICK q \in turn.contract : SameArtifact(p, q)
            BY <3>2, <3>7, <4>3 DEF GoodAll, GoodInv, Judged
          <5> QED
            BY <3>6, <5>1, SameTrans
        <4>4. CASE \E q \in Committed(live, W) : <<q, p>> \in {f}
          BY <3>5, <4>4, SameRefl
        <4> QED
          BY <4>2, <4>3, <4>4
      <3> QED
        BY <3>2, <3>3, <3>7 DEF Stands, Works
    <2>2. CASE ScriptedFallback \/ NothingToChange
      <3>1. live' = live /\ \/ W \in Probes /\ W \in past'.excused
                            \/ W \in Works /\ W \in past'.loose
        BY <1>0, <1>1, <2>2 DEF ScriptedFallback, NothingToChange, Judging, plans, PastTypes,
           DriverInv, PhaseOK
      <3> QED
        BY <3>1 DEF Stands, Works
    <2>3. CASE Settle
      <3>1. live' = live /\ past' = past /\ Good(live, W)
        BY <2>3 DEF Settle, plans, GoodAll, GoodInv
      <3> QED
        BY <1>1, <3>1 DEF Good
    <2>4. CASE AutoResolved
      <3>1. live' = live /\ past' = past /\ W \in Works /\ turn.phase = "rescue"
            /\ turn.commit \subseteq branch /\ Missing \ turn.commit \subseteq branch
        BY <1>0, <2>4 DEF AutoResolved, plans, DriverInv, PhaseOK, Covered, TurnTypes
      <3>2. turn.contract \subseteq branch
        BY <1>0, <1>2, <3>1 DEF Missing, Lacking
      <3>3. \/ W \in past.loose
            \/ \A p \in Committed(live, W) : \E q \in turn.contract : SameArtifact(p, q)
        BY <3>1 DEF GoodAll, GoodInv, Judged
      <3> QED
        BY <1>1, <3>1, <3>2, <3>3 DEF Stands, Works
    <2> QED
      BY <2>1, <2>2, <2>3, <2>4 DEF Finishes
  <1>9. ASSUME NEW s, s = W
        PROVE  Good(live, s)' /\ Good(stored.plan, s)'
    <2>1. Good(live, s)'
      BY <1>0, <1>8, <1>9, GoodPrimes
    <2>2. Good(stored.plan, s)'
      <3>1. CASE s \in Probes
        BY <1>0, <2>1, <3>1 DEF Good, Stands
      <3>2. CASE s \notin Probes /\ s \notin past'.excused \cup past'.loose
        <4>1. \A p \in Committed(stored.plan, s)' : \E q \in Committed(live, s)' : SameArtifact(p, q)
          BY <1>0, <1>2, <1>9 DEF PlansAgree
        <4>2. \A p \in Committed(live, s)' : \E q \in branch' : SameArtifact(p, q)
          BY <1>0, <2>1, <3>2 DEF Good, Stands
        <4>3. \A p \in Committed(stored.plan, s)' : \E q \in branch' : SameArtifact(p, q)
          BY <4>1, <4>2, SameTrans
        <4>4. Good(stored.plan, s)' <=> Stands(s, past', branch', reports', Committed(stored.plan, s)')
          BY <1>0, GoodPrimes
        <4> QED
          BY <1>0, <3>2, <4>3, <4>4 DEF Stands
      <3> QED
        BY <1>0, <3>1, <3>2 DEF Good, Stands
    <2> QED
      BY <2>1, <2>2
  <1>10. \A s \in Reached' : Good(live, s)'
    BY <1>2, <1>4, <1>7, <1>9 DEF GoodAll, GoodInv
  <1>11. \A s \in Completed(rows)' : Good(stored.plan, s)'
    BY <1>4, <1>7, <1>9 DEF GoodAll, GoodInv
  <1> QED
    BY <1>2, <1>3, <1>4, <1>10, <1>11 DEF GoodAll, GoodInv

\* The run an answer starts has behind it what is completed.
LEMMA GoodAnswered ==
  ASSUME GoodAll, [ContractsNext]_contractsVars, Answered
  PROVE  GoodInv'
  <1>0. /\ DriverInv /\ rows \in [Cycles -> [Tasks -> RowStatuses]] /\ ContractsTypeOK
        /\ Tasks' = Tasks /\ Works' = Works /\ shape' = shape /\ past \in PastTypes
    BY ShapeKeeps DEF GoodAll, DriverInv, ContractsTypeOK
  <1>1. /\ run.pc = "paused" /\ run' = NewRun(Completed(rows'), run.n + 1)
        /\ live' = stored'.plan /\ UNCHANGED <<reports, turn, branch>>
        /\ asked.task \in Tasks /\ turn.phase = "idle"
    BY <1>0, AnsweredDoes DEF DriverInv, DriverOK
  <1>2. /\ run'.pc = "running" /\ run'.cycle = 1 /\ run'.scoped = {} /\ run'.done = Completed(rows')
        /\ turn'.phase = "idle" /\ ~Judged'
    BY <1>1 DEF NewRun, Judged
  <1>3. Completed(rows)' = Completed(rows') /\ Completed(rows) \subseteq Tasks /\ Reached' = Completed(rows')
    BY <1>0, <1>2 DEF Completed, Reached
  <1>4. ~Dispatch
    BY <1>1 DEF Dispatch, Idle
  <1>5. ASSUME NEW s \in Completed(rows), Committed(stored'.plan, s) = Committed(stored.plan, s)
        PROVE  Good(stored.plan, s)'
    <2>1. s \in Tasks /\ Good(stored.plan, s)
      BY <1>3 DEF GoodAll, GoodInv
    <2>2. Stands(s, past', branch', reports', Committed(stored'.plan, s))
      BY <1>0, <1>4, <1>5, <2>1, GoodKeeps
    <2> QED
      BY <1>0, <2>2, GoodPrimes
  <1>6. ASSUME NEW s, s = asked.task, s \in past'.excused
        PROVE  Good(stored.plan, s)'
    BY <1>6 DEF Good, Stands
  <1>7. \A s \in Completed(rows') : Good(stored.plan, s)'
    <2>1. CASE TextAnswer
      <3>1. rows' = rows /\ stored'.plan = stored.plan
        BY <2>1 DEF TextAnswer, Resume
      <3> QED
        BY <1>5, <3>1
    <2>2. CASE SkipAnswer
      <3>1. rows' = Marked(asked.task, "completed_no_change") /\ stored'.plan = stored.plan
        BY <2>2 DEF SkipAnswer, Resume
      <3>2. asked.task \in past'.excused
        BY <1>0, <2>2 DEF SkipAnswer, PastTypes
      <3>3. Completed(rows') \subseteq Completed(rows) \cup {asked.task}
        BY <1>0, <1>1, <3>1, MarkedKeeps DEF Accepted
      <3> QED
        BY <1>5, <1>6, <3>1, <3>2, <3>3
    <2>3. CASE AcceptAnswer
      <3>1. rows' = Marked(asked.task, "completed")
            /\ (stored'.plan = stored.plan \/ stored'.plan = AcceptedPlan)
        BY <2>3 DEF AcceptAnswer, Resume
      <3>2. asked.task \in past'.excused
        BY <1>0, <2>3 DEF AcceptAnswer, PastTypes
      <3>3. Completed(rows') \subseteq Completed(rows) \cup {asked.task}
        BY <1>0, <1>1, <3>1, MarkedKeeps DEF Accepted
      <3>4. \A s \in Tasks \ {asked.task} : Committed(stored'.plan, s) = Committed(stored.plan, s)
        BY <1>0, <1>1, <3>1, AcceptedDeclares
      <3> QED
        BY <1>3, <1>5, <1>6, <3>2, <3>3, <3>4
    <2> QED
      BY <2>1, <2>2, <2>3 DEF Answered
  <1>8. \A s : Good(stored.plan, s)' => Good(live, s)'
    BY <1>0, <1>1, GoodPrimes
  <1> QED
    BY <1>2, <1>3, <1>7, <1>8 DEF GoodInv

LEMMA GoodNext ==
  ASSUME GoodAll, [ContractsNext]_contractsVars
  PROVE  GoodAll'
  <1>1. DriverInv' /\ PlansAgree'
    BY DriverHoldsNext, PlansNext DEF GoodAll
  <1>2. GoodInv'
    BY <1>1, Steps, GoodDriver, GoodReviewed, GoodTurn, GoodBind, GoodWork, GoodFinish, GoodAnswered
  <1> QED
    BY <1>1, <1>2 DEF GoodAll

LEMMA GoodInit ==
  ASSUME ContractsInit
  PROVE  GoodAll
  <1>1. Completed(rows) = {} /\ Reached = {} /\ turn.phase = "idle"
    BY DEF ContractsInit, Completed, Reached, NewRun, NoTurn, Accepted
  <1> QED
    BY <1>1, DriverInit, PlansInit DEF GoodAll, GoodInv, Judged, ContractsInit, NewRun

-----------------------------------------------------------------------------
(* Theorems                                                                  *)

\* Whatever the workers, the probes and the people answer, the plans stay
\* plans, a revision only grows, and what is committed, written and asked
\* about lies on the branch (Contracts, every action).
THEOREM ContractsTypesHold == ContractsSpec => []ContractsTypeOK
  <1>1. GoodAll => ContractsTypeOK
    BY DEF GoodAll, DriverInv
  <1> QED
    BY <1>1, GoodInit, GoodNext, PTL DEF ContractsSpec

\* What the reviewer gets has every artifact the plan asked for, under a name
\* recognised from the one it was asked by, but for what a person excused or
\* a later cycle let off (verifySubTaskOutput, autoResolveContract, the rescue
\* and loadAcceptedContinuation).
THEOREM ReviewedHolds == ContractsSpec => []ReviewedContractsAreMet
  <1>1. GoodAll => ReviewedContractsAreMet
    <2> SUFFICES ASSUME GoodAll, run.pc = "review", NEW w \in Works \ (past.excused \cup past.loose)
                 PROVE  \A p \in Committed(live, w) : \E q \in branch : SameArtifact(p, q)
      BY DEF ReviewedContractsAreMet
    <2>1. Tasks \subseteq run.done /\ W = 0
      BY DEF GoodAll, DriverInv, DriverOK
    <2>2. w \in Tasks /\ w # 0
      BY DEF Works, Tasks
    <2>3. w \in Reached
      BY <2>1, <2>2 DEF Reached
    <2> QED
      BY <2>3 DEF GoodAll, GoodInv, Good, Stands, Works
  <1> QED
    BY <1>1, GoodInit, GoodNext, PTL DEF ContractsSpec

\* A worker is sent out with what its probes reported bound into its contract,
\* in the run that bound it and in every one that continues it
\* (applyObserveBindings and the stored plan's revision).
THEOREM ConsumersHold == ContractsSpec => []ConsumersAreBound
  <1>1. GoodAll => ConsumersAreBound
    <2> SUFFICES ASSUME GoodAll, W \in Works, NEW b \in shape.binds,
                        b.to = W, b.of \in shape.needs[W] \ past.excused
                 PROVE  /\ reports[b.of] # -1 /\ b \notin live.open
                        /\ b.field = "verify" =>
                              \A v \in Paths : <<b, v>> \in past.bound => v \in live.verify[W]
      BY DEF ConsumersAreBound
    <2>1. b.of \in Probes /\ b.of \in Tasks /\ W # 0 /\ run.pc = "running"
      BY ShapeFacts DEF GoodAll, DriverInv, ContractsTypeOK, DriverOK, Works, Tasks
    <2>2. shape.needs[W] \subseteq run.done /\ W \notin run.done
      BY <2>1 DEF GoodAll, DriverInv, DriverOK
    <2>3. b.of \in Reached
      BY <2>1, <2>2 DEF Reached
    <2>4. reports[b.of] # -1
      BY <2>1, <2>3 DEF GoodAll, GoodInv, Good, Stands
    <2>5. b \notin live.open
      BY <2>1, <2>4 DEF GoodAll, PlansAgree, Bindings
    <2>6. b.field = "verify" => \A v \in Paths : <<b, v>> \in past.bound => v \in live.verify[W]
      BY DEF GoodAll, PlansAgree
    <2> QED
      BY <2>4, <2>5, <2>6
  <1> QED
    BY <1>1, GoodInit, GoodNext, PTL DEF ContractsSpec


-----------------------------------------------------------------------------
(* What a human accepted                                                     *)

\* A row marked accepted, with none of a higher cycle behind it, completes its
\* sub-task; so does one of a sub-task that was completed.
LEMMA RowStands ==
  ASSUME rows \in [Cycles -> [Tasks -> RowStatuses]], NEW c \in Cycles, NEW s \in Tasks,
         NEW verdict \in RowStatuses
  PROVE  LET table == [rows EXCEPT ![c][s] = verdict]
         IN  /\ Completed(rows) \ {s} \subseteq Completed(table)
             /\ (\E d \in (c + 1) .. MaxCycles : rows[d][s] # "none") /\ s \in Completed(rows)
                  => s \in Completed(table)
             /\ verdict \in Accepted /\ (\A d \in (c + 1) .. MaxCycles : rows[d][s] = "none")
                  => s \in Completed(table)
  <1> DEFINE table == [rows EXCEPT ![c][s] = verdict]
  <1>1. /\ \A d \in Cycles, u \in Tasks : <<d, u>> # <<c, s>> => table[d][u] = rows[d][u]
        /\ table[c][s] = verdict
    OBVIOUS
  <1> HIDE DEF table
  <1>2. /\ MaxCycles \in Nat /\ c \in Nat
        /\ \A d \in Cycles : d \in Nat /\ \A e \in (d + 1) .. MaxCycles : e \in Cycles /\ e > d
    BY ContractsAssumption DEF Cycles
  <1>3. ASSUME NEW u \in Completed(rows) \ {s}
        PROVE  u \in Completed(table)
    <2>1. PICK d \in Cycles : rows[d][u] \in Accepted
                              /\ \A e \in (d + 1) .. MaxCycles : rows[e][u] = "none"
      BY DEF Completed
    <2>2. u \in Tasks /\ u # s
      BY DEF Completed
    <2> QED
      BY <1>1, <1>2, <2>1, <2>2 DEF Completed
  <1>4. ASSUME NEW d \in (c + 1) .. MaxCycles, rows[d][s] # "none", s \in Completed(rows)
        PROVE  s \in Completed(table)
    <2>1. PICK b \in Cycles : rows[b][s] \in Accepted
                              /\ \A e \in (b + 1) .. MaxCycles : rows[e][s] = "none"
      BY <1>4 DEF Completed
    <2>2. d \notin (b + 1) .. MaxCycles
      BY <1>4, <2>1
    <2>3. b \in Nat /\ d \in Nat /\ c < d /\ d <= b
      BY <1>2, <2>2
    <2>4. table[b][s] = rows[b][s] /\ \A e \in (b + 1) .. MaxCycles : table[e][s] = rows[e][s]
      BY <1>1, <1>2, <2>3
    <2> QED
      BY <2>1, <2>4 DEF Completed
  <1>5. ASSUME verdict \in Accepted, \A d \in (c + 1) .. MaxCycles : rows[d][s] = "none"
        PROVE  s \in Completed(table)
    <2>1. \A e \in (c + 1) .. MaxCycles : table[e][s] = "none"
      BY <1>1, <1>2, <1>5
    <2> QED
      BY <1>1, <1>5, <2>1 DEF Completed
  <1> QED
    BY <1>3, <1>4, <1>5 DEF table

LEMMA AcceptedStands ==
  ASSUME rows \in [Cycles -> [Tasks -> RowStatuses]], NEW c \in Cycles, NEW s \in Tasks,
         NEW verdict \in Accepted
  PROVE  Completed(rows) \subseteq Completed([rows EXCEPT ![c][s] = verdict])
  <1>1. verdict \in RowStatuses
    BY DEF RowStatuses
  <1> QED
    BY <1>1, RowStands

\* A sub-task is completed, or under way again with nothing behind it that a
\* later run could not count; or nothing follows.
Counted(w) ==
    \/ w \in Completed(rows)
    \/ W = w /\ run.cycle > 1 /\ \A d \in (run.cycle + 1) .. MaxCycles : rows[d][w] = "none"
    \/ run.pc = "ended"

LEMMA CountedKeeps ==
  ASSUME GoodAll, [ContractsNext]_contractsVars, NEW w \in Works, Counted(w),
         W = w => ~(AskDecision \/ Mismatch \/ AskMismatch)
  PROVE  Counted(w)'
  <1>0. /\ DriverInv /\ run \in RunTypes /\ rows \in [Cycles -> [Tasks -> RowStatuses]]
        /\ shape' = shape /\ w \in Tasks /\ w # 0 /\ Completed(rows)' = Completed(rows')
        /\ MaxCycles \in Nat /\ run.cycle \in Cycles /\ run.cycle \in Nat
    BY ShapeKeeps, ContractsAssumption, SMTT(40) DEF GoodAll, DriverInv, ContractsTypeOK, Works, Tasks, Completed,
       RunTypes, Cycles
  <1>1. CASE w \in Completed(rows')
    BY <1>0, <1>1 DEF Counted
  <1>2. CASE UNCHANGED <<rows, run>> /\ W' = W
    BY <1>0, <1>2 DEF Counted
  <1>3. CASE PassOver
    <2>1. W = 0 /\ run.pc = "running" /\ S \in Tasks
      BY <1>3 DEF PassOver, Idle
    <2>2. w \in Completed(rows)
      BY <1>0, <2>1 DEF Counted
    <2>3. rows' = rows \/ rows' = [rows EXCEPT ![run.cycle][S] = "completed_no_change"]
      BY <1>3 DEF PassOver
    <2> QED
      BY <1>0, <1>1, <2>1, <2>2, <2>3, AcceptedStands DEF Accepted
  <1>4. CASE Dispatch
    <2>1. /\ W = 0 /\ run.pc = "running" /\ S \in Tasks \ run.done /\ run' = run /\ W' = S
          /\ rows' = [rows EXCEPT ![run.cycle][S] = "running"]
      BY <1>4 DEF Dispatch, Idle, Put, NoTurn, W
    <2>2. w \in Completed(rows) /\ "running" \in RowStatuses
      BY <1>0, <2>1 DEF Counted, RowStatuses
    <2>3. CASE w # S
      BY <1>0, <1>1, <2>1, <2>2, <2>3, RowStands
    <2>4. CASE w = S
      <3>1. run.cycle > 1
        BY <1>0, <2>1, <2>2, <2>4 DEF GoodAll, GoodInv, Cycles
      <3>2. CASE \E d \in (run.cycle + 1) .. MaxCycles : rows[d][w] # "none"
        BY <1>0, <1>1, <2>1, <2>2, <2>4, <3>2, RowStands
      <3>3. CASE \A d \in (run.cycle + 1) .. MaxCycles : rows[d][w] = "none"
        <4>1. \A d \in (run.cycle + 1) .. MaxCycles : d \in Cycles /\ d # run.cycle
          BY <1>0 DEF Cycles
        <4>2. \A d \in (run.cycle + 1) .. MaxCycles : rows'[d][w] = "none"
          BY <1>0, <2>1, <3>3, <4>1
        <4> QED
          BY <2>1, <2>4, <3>1, <4>2 DEF Counted
      <3> QED
        BY <3>2, <3>3
    <2> QED
      BY <2>3, <2>4
  <1>5. CASE Ends \/ AbortAnswer
    BY <1>0, <1>5, EndsDo DEF AbortAnswer, RunTypes, Counted
  <1>6. CASE Asks \/ Mismatch
    <2>1. turn.phase # "idle" /\ run.pc = "running"
      BY <1>0, <1>6, AsksDo, UnderWay DEF Mismatch, Failed, Judging
    <2>2. W \in Tasks /\ run.pc = "running"
      BY <1>0, <2>1, UnderWay
    <2>3. W # w
      <3>1. CASE ReportBlocked
        BY <1>0, <3>1 DEF ReportBlocked, DriverInv, PhaseOK, Works
      <3> QED
        BY <1>6, <3>1 DEF Asks
    <2>4. w \in Completed(rows)
      BY <2>2, <2>3 DEF Counted
    <2>5. rows' = rows \/ \E verdict \in RowStatuses : rows' = [rows EXCEPT ![run.cycle][W] = verdict]
      BY <1>0, <1>6, AsksDo DEF Mismatch, Put, RowStatuses
    <2> QED
      BY <1>0, <1>1, <2>2, <2>3, <2>4, <2>5, RowStands
  <1>7. CASE Finishes
    <2>1. turn.phase # "idle" /\ \E verdict \in Accepted : rows' = [rows EXCEPT ![run.cycle][W] = verdict]
      BY <1>0, <1>7, FinishesDo
    <2>2. W \in Tasks /\ run.pc = "running"
      BY <1>0, <2>1, UnderWay
    <2>3. CASE w \in Completed(rows)
      BY <1>0, <1>1, <2>1, <2>2, <2>3, AcceptedStands
    <2>4. CASE W = w /\ \A d \in (run.cycle + 1) .. MaxCycles : rows[d][w] = "none"
      BY <1>0, <1>1, <2>1, <2>4, RowStands DEF RowStatuses
    <2> QED
      BY <2>2, <2>3, <2>4 DEF Counted
  <1>8. CASE Answered
    <2>1. /\ W = 0 /\ run.pc = "paused" /\ asked.task \in Tasks
      BY <1>0, <1>8, AnsweredDoes DEF DriverInv, DriverOK
    <2>2. w \in Completed(rows)
      BY <1>0, <2>1 DEF Counted
    <2>3. rows' = rows \/ \E verdict \in Accepted : rows' = Marked(asked.task, verdict)
      BY <1>0, <1>8, AnsweredDoes
    <2>4. ASSUME NEW verdict \in Accepted
          PROVE  Completed(rows) \subseteq Completed(Marked(asked.task, verdict))
      <3>1. Latest(asked.task) \in Cycles
        BY <1>0, <2>1, MarkedKeeps
      <3> QED
        BY <1>0, <2>1, <3>1, AcceptedStands DEF Marked
    <2> QED
      BY <1>1, <2>2, <2>3, <2>4
  <1>9. CASE AllDone \/ Reviewed
    <2>1. W = 0 /\ run.pc # "ended" /\ rows' = rows
      BY <1>0, <1>9 DEF AllDone, Idle, Reviewed, db, DriverInv, DriverOK
    <2> QED
      BY <1>0, <1>1, <2>1 DEF Counted
  <1>10. CASE Bind
    BY <1>0, <1>2, <1>10, BindDoes DEF NoTurn, W
  <1>11. CASE WorkTurn
    <2>1. UNCHANGED <<rows, run>>
      BY <1>0, <1>11, WorkDoes
    <2>2. W' = W
      <3>1. PICK commit \in SUBSET Paths, left \in SUBSET Paths, says \in {"progress", "decides", "nothing"} :
               Worked(commit, left, says)
        BY <1>11 DEF WorkTurn, FileSets
      <3>2. turn' = [turn EXCEPT !.phase = "judge", !.commit = commit, !.dirty = left # {}, !.says = says,
                                 !.fixes = turn'.fixes, !.contract = turn'.contract,
                                 !.disk = turn'.disk]
        BY <1>0, <3>1 DEF Worked, DriverInv, ContractsTypeOK, TurnTypes
      <3> QED
        BY <1>0, <3>2 DEF W, DriverInv, ContractsTypeOK, TurnTypes
    <2> QED
      BY <1>2, <2>1, <2>2
  <1>12. CASE Turns \/ UNCHANGED contractsVars
    BY <1>0, <1>2, <1>12, TurnsDo DEF contractsVars, W
  <1> QED
    BY <1>3, <1>4, <1>5, <1>6, <1>7, <1>8, <1>9, <1>10, <1>11, <1>12, Steps


\* Paths a sub-task owes in one of the plans, and has not committed.
Owes(w, p) == p \in Declared(stored.plan, w) \cup Declared(live, w)
Unwritten(w, p) == Owes(w, p) /\ p \notin written[w]

\* A path that is settled is no probe's, is on the branch if a plan names it,
\* and has become names that are there.
Named(w, p) ==
    /\ p \notin live.verify[w] \cup live.disk[w]
    /\ p \in ToSet(stored.plan.files[w]) \cup ToSet(live.files[w]) => p \in branch
    /\ p \in Declared(stored.plan, w) => Declared(live, w) \subseteq branch

\* What is declared without a probe for it is the first of the files.
LEMMA DeclaredFirst ==
  ASSUME NEW plan, PlanOK(plan), NEW w \in Tasks, NEW p \in Declared(plan, w),
         p \notin plan.verify[w] \cup plan.disk[w]
  PROVE  ~Explicit(plan, w) /\ Declared(plan, w) = {p} /\ p \in ToSet(plan.files[w])
  <1>1. ~Explicit(plan, w)
    BY DEF Declared, Committed, OnDisk
  <1>2. p \in ToSet(plan.files[w])
    BY DeclaredTyped
  <1>3. Declared(plan, w) = {Head(plan.files[w])}
    BY <1>1, DeclaredTyped
  <1> QED
    BY <1>1, <1>2, <1>3

\* Such a path is the first of its sub-task's files, and all it owes.
LEMMA NamedOwes ==
  ASSUME ContractsTypeOK, PlansAgree, NEW w \in Tasks, NEW p, Named(w, p)
  PROVE  /\ p \in Declared(live, w) => Declared(live, w) = {p} /\ p \in branch
         /\ p \in Declared(stored.plan, w) => Declared(stored.plan, w) = {p} /\ p \in branch
         /\ Owes(w, p) => Declared(live, w) \subseteq branch
  <1>0. PlanOK(live) /\ PlanOK(stored.plan) /\ live.verify = stored.plan.verify
        /\ live.disk = stored.plan.disk
    BY DEF ContractsTypeOK, PlansAgree
  <1>1. ASSUME NEW plan \in {live, stored.plan}, p \in Declared(plan, w)
        PROVE  Declared(plan, w) = {p} /\ p \in branch
    <2>1. PlanOK(plan) /\ p \notin plan.verify[w] \cup plan.disk[w]
      BY <1>0 DEF Named
    <2>2. Declared(plan, w) = {p} /\ p \in ToSet(plan.files[w])
      BY <1>1, <2>1, DeclaredFirst
    <2> QED
      BY <2>2 DEF Named
  <1> QED
    BY <1>1 DEF Owes, Named

\* A plan that names no more, and probes for no more, leaves a settled path so.
LEMMA NamedByLess ==
  ASSUME PlanOK(live'), PlansAgree', NEW w \in Tasks, NEW p, shape' = shape,
         live' = stored'.plan, p \notin live'.verify[w] \cup live'.disk[w],
         p \in ToSet(live'.files[w]) => p \in branch'
  PROVE  Named(w, p)'
  <1>1. p \in Declared(live', w) => Declared(live', w) = {p} /\ p \in branch'
    BY DeclaredFirst
  <1>2. Declared(live, w)' = Declared(live', w) /\ Declared(stored.plan, w)' = Declared(live', w)
    BY DeclaredPrimes
  <1> QED
    BY <1>1, <1>2 DEF Named

LEMMA NamedSame ==
  ASSUME NEW w, NEW p, Named(w, p), shape' = shape, live' = live, stored'.plan = stored.plan,
         branch \subseteq branch', written[w] \subseteq written'[w]
  PROVE  Named(w, p)' /\ (Unwritten(w, p)' => Unwritten(w, p))
  <1>1. Declared(live, w)' = Declared(live, w) /\ Declared(stored.plan, w)' = Declared(stored.plan, w)
    BY DeclaredPrimes
  <1> QED
    BY <1>1 DEF Named, Unwritten, Owes

\* A correction leaves it so, unless it is what it corrects to.
LEMMA NamedCorrected ==
  ASSUME GoodAll, [ContractsNext]_contractsVars, NEW w \in Tasks, NEW p, Named(w, p),
         NEW fixes \in SUBSET (Paths \X Paths), NEW u \in Tasks,
         live' = [live EXCEPT !.files[u] = Corrected(@, fixes)], stored' = stored,
         \A f \in fixes : w = u => p # f[2],
         \A f \in fixes : w = u => f[2] \in branch' \/ f[1] \notin branch
  PROVE  Named(w, p)' /\ (Unwritten(w, p)' => Unwritten(w, p))
  <1>0. /\ PlanOK(live) /\ shape' = shape /\ branch \subseteq branch' /\ written[w] \subseteq written'[w]
        /\ Renames(live, live', u, fixes) /\ ContractsTypeOK /\ PlansAgree
    BY ShapeKeeps, TurnTyped, CorrectedLive DEF GoodAll, DriverInv, ContractsTypeOK
  <1>1. /\ Declared(live, w)' = Declared(live', w)
        /\ Declared(stored.plan, w)' = Declared(stored.plan, w)
    BY <1>0, DeclaredPrimes
  <1>2. CASE w # u
    <2>1. Declared(live', w) = Declared(live, w) /\ live'.files[w] = live.files[w]
          /\ live'.verify = live.verify /\ live'.disk = live.disk
      BY <1>0, <1>2 DEF Renames
    <2> QED
      BY <1>0, <1>1, <2>1 DEF Named, Unwritten, Owes
  <1>3. CASE w = u
    <2>1. p \in ToSet(live'.files[w]) => p \in ToSet(live.files[w])
      BY <1>0, <1>3 DEF Renames
    <2>2. p \in Declared(live', w) => p \in Declared(live, w)
      BY <1>0, <1>3 DEF Renames
    <2>3. p \in Declared(stored.plan, w) => Declared(live', w) \subseteq branch'
      <3> SUFFICES ASSUME p \in Declared(stored.plan, w), NEW q \in Declared(live', w)
                   PROVE  q \in branch'
        OBVIOUS
      <3>1. Declared(live, w) \subseteq branch
        BY DEF Named
      <3>2. q \in Declared(live, w) \/ \E r \in Declared(live, w) : <<r, q>> \in fixes
        BY <1>0, <1>3 DEF Renames
      <3>3. \A r : <<r, q>> \in fixes => q \in branch' \/ r \notin branch
        BY <1>3
      <3> QED
        BY <1>0, <1>3, <3>1, <3>2, <3>3
    <2>4. live'.verify = live.verify /\ live'.disk = live.disk
      BY <1>0 DEF Renames
    <2> QED
      BY <1>0, <1>1, <2>1, <2>2, <2>3, <2>4 DEF Named, Unwritten, Owes
  <1> QED
    BY <1>2, <1>3


\* What is settled, and stays so, keeps its place in the plans.
LEMMA NamedKeeps ==
  ASSUME GoodAll, GoodAll', [ContractsNext]_contractsVars, NEW w \in Works, NEW p, Named(w, p),
         <<w, p>> \in past.settled \cap past'.settled, ~(AcceptAnswer /\ w = asked.task)
  PROVE  Named(w, p)' /\ (Unwritten(w, p)' => Unwritten(w, p))
  <1>0. /\ DriverInv /\ ContractsTypeOK /\ PlansAgree /\ PlansAgree' /\ shape' = shape /\ w \in Tasks
        /\ branch \subseteq branch' /\ written[w] \subseteq written'[w] /\ shape \in Shapes
        /\ PlanOK(live) /\ PlanOK(stored.plan) /\ live.verify = stored.plan.verify
        /\ live.disk = stored.plan.disk /\ past \in PastTypes
    BY ShapeKeeps, TurnTyped DEF GoodAll, DriverInv, ContractsTypeOK, PlansAgree, Works
  <1>1. PlanOK(live')
    BY <1>0, PlansTyped
  <1>2. /\ p \notin live.verify[w] \cup live.disk[w]
        /\ p \in ToSet(stored.plan.files[w]) \cup ToSet(live.files[w]) => p \in branch
    BY DEF Named
  <1>3. /\ Declared(live, w)' = Declared(live', w)
        /\ Declared(stored.plan, w)' = Declared(stored'.plan, w)
    BY <1>0, DeclaredPrimes
  <1>4. CASE live' = live /\ stored' = stored
    BY <1>0, <1>4, NamedSame
  <1>5. CASE Reviewed
    <2>1. live' = live /\ (stored' = stored \/ stored'.plan = live)
      <3>1. live' = live
        BY <1>5 DEF Reviewed
      <3>2. stored' \in {stored, [plan |-> live, rev |-> stored.rev + 1]}
        BY <1>5 DEF Reviewed
      <3> QED
        BY <3>1, <3>2
    <2>2. CASE stored'.plan = live
      <3>1. Named(w, p)'
        BY <1>0, <1>1, <1>2, <2>1, <2>2, NamedByLess
      <3> QED
        BY <1>0, <1>3, <2>1, <2>2, <3>1 DEF Unwritten, Owes
    <2> QED
      BY <1>4, <2>1, <2>2
  <1>6. CASE Bind
    <2> DEFINE v == turn.report
               to == {v[b] : b \in {c \in Bindings(W) : c.to = w}}
    <2>1. /\ W \in Probes /\ v \in [Bindings(W) -> Paths] /\ live' = Bound(live, W, v)
          /\ stored' = IF Bindings(W) = {} THEN stored ELSE [plan |-> live', rev |-> Revised(W)]
      BY <1>0, <1>6, BindDoes
    <2>2. p \notin to
      <3>1. past'.settled = past.settled \ {<<b.to, v[b]>> : b \in Bindings(W)}
        BY <1>0, <1>6 DEF Bind, PastTypes
      <3> QED
        BY <3>1
    <2>3. /\ live'.verify[w] \subseteq live.verify[w] \cup to
          /\ ToSet(live'.files[w]) \subseteq ToSet(live.files[w]) \cup to
          /\ live'.disk = live.disk
      <3>1. live'.verify[w] \subseteq live.verify[w] \cup to
        BY <1>0, <2>1, BoundDeclares
      <3>2. ToSet(live'.files[w]) \subseteq ToSet(live.files[w]) \cup to
        <4>1. ToSet(Bound(live, W, v).files[w]) \subseteq ToSet(live.files[w]) \cup to
          <5>1. W \in Probes /\ v \in [Bindings(W) -> Paths] /\ PlanOK(live) /\ shape \in Shapes /\ w \in Tasks
            BY <1>0, <2>1
          <5> HIDE DEF v
          <5> QED
            BY <5>1, BoundDeclares
        <4> QED
          BY <2>1, <4>1
      <3>3. live'.disk = live.disk
        BY <2>1 DEF Bound
      <3> QED
        BY <3>1, <3>2, <3>3
    <2>4. ~Explicit(live', w) => Declared(live', w) = Declared(live, w) \/ Declared(live', w) \subseteq to
      <3>1. LET new == Bound(live, W, v)
            IN  ~Explicit(new, w) => Declared(new, w) = Declared(live, w) \/ Declared(new, w) \subseteq to
        <4>1. W \in Probes /\ v \in [Bindings(W) -> Paths] /\ PlanOK(live) /\ shape \in Shapes /\ w \in Tasks
          BY <1>0, <2>1
        <4> HIDE DEF v
        <4> QED
          BY <4>1, BoundDeclares
      <3>2. live' = Bound(live, W, v)
        BY <2>1
      <3> HIDE DEF to, v
      <3> QED
        BY <3>1, <3>2, Zenon
    <2>5. Bindings(W) = {} => live' = live
      <3>1. Bindings(W) = {} => Bound(live, W, v) = live
        <4>1. W \in Probes /\ v \in [Bindings(W) -> Paths] /\ PlanOK(live) /\ shape \in Shapes
          BY <1>0, <2>1
        <4> HIDE DEF v
        <4> QED
          BY <4>1, BoundDeclares
      <3> QED
        BY <2>1, <3>1
    <2> HIDE DEF to
    <2>6. CASE Bindings(W) = {}
      BY <1>4, <2>1, <2>5, <2>6
    <2>7. CASE Bindings(W) # {}
      <3>1. live' = stored'.plan
        BY <2>1, <2>7
      <3>2. /\ p \notin live'.verify[w] \cup live'.disk[w]
            /\ p \in ToSet(live'.files[w]) => p \in branch'
        BY <1>0, <1>2, <2>2, <2>3
      <3>3. Named(w, p)'
        BY <1>0, <1>1, <3>1, <3>2, NamedByLess
      <3>4. p \in Declared(live', w) => p \in Declared(live, w)
        <4>1. p \in Declared(live', w) => ~Explicit(live', w)
          BY <1>0, <1>1, <3>2, DeclaredFirst
        <4> QED
          BY <2>2, <2>4, <4>1
      <3> QED
        BY <1>0, <1>3, <3>1, <3>3, <3>4 DEF Unwritten, Owes
    <2> QED
      BY <2>6, <2>7
  <1>7. CASE WorkTurn
    <2>1. PICK commit \in SUBSET Paths, left \in SUBSET Paths, says \in {"progress", "decides", "nothing"} :
             /\ branch' = branch \cup commit /\ found' = found \cup commit \cup left
             /\ written' = IF run.cycle = 1 THEN [written EXCEPT ![W] = @ \cup commit] ELSE written
             /\ turn' = [turn EXCEPT !.phase = "judge", !.commit = commit, !.dirty = left # {},
                                     !.says = says, !.fixes = Names(commit, left),
                                     !.contract = Owed(commit, left), !.disk = Disked(commit, left)]
             /\ live' = IF turn.tries = 0
                        THEN [live EXCEPT !.files[W] = Corrected(@, Names(commit, left))]
                        ELSE live
             /\ past' = IF Idles(commit, left) THEN [past EXCEPT !.loose = @ \cup {W}]
                        ELSE [past EXCEPT !.settled = @ \ Reopened(Names(commit, left), commit)]
             /\ Names(commit, left) \in SUBSET (Paths \X Paths)
             /\ Owed(commit, left) \in SUBSET Paths /\ Disked(commit, left) \in SUBSET Paths
      BY <1>0, <1>7, WorkDoes
    <2>2. stored' = stored /\ W \in Tasks
      BY <1>0, <1>7, WorkDoes DEF Works
    <2>3. CASE turn.tries = 0
      <3> DEFINE fixes == Names(commit, left)
      <3>1. fixes \in SUBSET (Paths \X Paths) /\ live' = [live EXCEPT !.files[W] = Corrected(@, fixes)]
        BY <2>1, <2>3
      <3>2. \A f \in fixes : w = W => p # f[2] /\ (f[1] \in branch => f[2] \in commit)
        BY <1>0, <2>1, StaysSettled
      <3>3. \A f \in fixes : w = W => f[2] \in branch' \/ f[1] \notin branch
        BY <2>1, <3>2
      <3> HIDE DEF fixes
      <3> QED
        BY <1>0, <2>2, <3>1, <3>2, <3>3, NamedCorrected
    <2>4. CASE turn.tries # 0
      BY <1>4, <2>1, <2>2, <2>4
    <2> QED
      BY <2>3, <2>4
  <1>8. CASE Rescued
    <2>1. PICK f \in Paths \X Paths :
             /\ Missing = {f[1]} /\ f[2] \in turn.commit /\ Recognised(f[1], f[2])
             /\ live' = [live EXCEPT !.files[W] = Corrected(@, {f})]
             /\ past' = [past EXCEPT !.settled = @ \ {<<W, f[2]>>}]
      BY <1>0, <1>8, RescueDoes
    <2>2. W \in Tasks /\ stored' = stored /\ turn.commit \subseteq branch
      BY <1>0, <1>8, RescueDoes, FinishesDo DEF Finishes, Works, ContractsTypeOK, TurnTypes
    <2>3. w = W => p # f[2]
      BY <1>0, <2>1 DEF PastTypes
    <2>4. /\ {f} \in SUBSET (Paths \X Paths) /\ \A g \in {f} : w = W => p # g[2]
          /\ \A g \in {f} : w = W => g[2] \in branch' \/ g[1] \notin branch
      BY <1>0, <2>1, <2>2, <2>3
    <2> QED
      BY <1>0, <2>1, <2>2, <2>4, NamedCorrected
  <1>9. CASE Answered
    <2>1. live' = stored'.plan
      BY <1>0, <1>9, AnsweredDoes
    <2>2. /\ stored'.plan.files[w] = stored.plan.files[w]
          /\ stored'.plan.verify[w] = stored.plan.verify[w]
          /\ stored'.plan.disk[w] = stored.plan.disk[w]
          /\ Declared(stored'.plan, w) = Declared(stored.plan, w)
      <3>1. CASE stored'.plan = stored.plan
        BY <3>1
      <3>2. CASE AcceptAnswer /\ stored'.plan = AcceptedPlan
        <4>1. w # asked.task /\ asked.task \in Tasks
          BY <1>0, <3>2 DEF AcceptAnswer, Answerable, DriverInv, DriverOK
        <4> QED
          BY <1>0, <3>2, <4>1, AcceptedDeclares
      <3> QED
        BY <1>9, <3>1, <3>2 DEF Answered, TextAnswer, SkipAnswer, AcceptAnswer, Resume
    <2>3. /\ p \notin live'.verify[w] \cup live'.disk[w]
          /\ p \in ToSet(live'.files[w]) => p \in branch'
      BY <1>0, <1>2, <2>1, <2>2
    <2>4. Named(w, p)'
      BY <1>0, <1>1, <2>1, <2>3, NamedByLess
    <2> QED
      BY <1>0, <1>3, <2>1, <2>2, <2>4 DEF Unwritten, Owes
  <1>10. CASE Finishes /\ ~Rescued
    BY <1>0, <1>4, <1>10, FinishesDo, FinishLeaves
  <1>11. CASE PassOver \/ Dispatch \/ AllDone \/ Mismatch \/ AbortAnswer \/ Turns \/ Ends \/ Asks
              \/ UNCHANGED contractsVars
    BY <1>0, <1>4, <1>11, TurnsDo, EndsDo, AsksDo DEF PassOver, Dispatch, AllDone, Mismatch, AbortAnswer,
       plans, contractsVars
  <1> QED
    BY <1>5, <1>6, <1>7, <1>8, <1>9, <1>10, <1>11, Steps

\* What an accept settles has left the stored plan, or is what was committed.
LEMMA AcceptSettles ==
  ASSUME GoodAll, GoodAll', [ContractsNext]_contractsVars, AcceptAnswer, NEW p,
         <<asked.task, p>> \in past'.settled,
         <<asked.task, p>> \in past.settled => Named(asked.task, p)
  PROVE  \E w : w = asked.task /\ Named(w, p)' /\ w \in Completed(rows')
  <1> DEFINE w == asked.task
  <1>0. /\ DriverInv /\ ContractsTypeOK /\ PlansAgree /\ PlansAgree' /\ shape' = shape
        /\ branch \subseteq branch' /\ PlanOK(live) /\ PlanOK(stored.plan)
        /\ live.verify = stored.plan.verify /\ live.disk = stored.plan.disk
        /\ past \in PastTypes /\ Answered
        /\ rows \in [Cycles -> [Tasks -> RowStatuses]] /\ asked \in AskedTypes(branch)
    BY ShapeKeeps, TurnTyped DEF GoodAll, DriverInv, ContractsTypeOK, PlansAgree, Answered
  <1>1. /\ PlanOK(live') /\ live' = stored'.plan /\ run.pc = "paused" /\ w \in Tasks
        /\ rows' = Marked(w, "completed")
        /\ stored'.plan = IF asked.actual = {} THEN stored.plan ELSE AcceptedPlan
    BY <1>0, PlansTyped, AnsweredDoes DEF AcceptAnswer, Answerable, Resume, DriverInv, DriverOK
  <1>2. /\ asked.declared \subseteq Dropped /\ asked.actual \subseteq branch
        /\ asked.declared # {} => asked.actual # {}
    BY <1>0 DEF DriverInv, DriverOK, AskedTypes
  <1>3. <<w, p>> \in past.settled \/ p \in asked.declared
    <2>1. past'.settled = past.settled \cup {<<w, q>> : q \in asked.declared}
      BY <1>0 DEF AcceptAnswer, PastTypes
    <2> QED
      BY <2>1
  <1>4. /\ <<w, p>> \in past.settled =>
              /\ p \notin live.verify[w] \cup live.disk[w]
              /\ p \in ToSet(stored.plan.files[w]) => p \in branch
    BY DEF Named
  <1>5. /\ p \notin live'.verify[w] \cup live'.disk[w]
        /\ p \in ToSet(live'.files[w]) => p \in branch'
    <2>1. CASE asked.actual = {}
      BY <1>0, <1>1, <1>2, <1>3, <1>4, <2>1
    <2>2. CASE asked.actual # {}
      <3>1. /\ live'.verify[w] = stored.plan.verify[w] \ Dropped
            /\ live'.disk[w] = stored.plan.disk[w] \ Dropped
            /\ ToSet(live'.files[w]) \subseteq (ToSet(stored.plan.files[w]) \ Dropped) \cup asked.actual
        BY <1>0, <1>1, <2>2, AcceptedDeclares
      <3> QED
        BY <1>0, <1>2, <1>3, <1>4, <3>1
    <2> QED
      BY <2>1, <2>2
  <1>6. w \in Completed(rows')
    <2>1. /\ Latest(w) \in Cycles /\ \A d \in Rowed(w) : d <= Latest(w)
          /\ MaxCycles \in Nat
      BY <1>0, <1>1, MarkedKeeps, ContractsAssumption DEF Accepted
    <2>2. \A d \in (Latest(w) + 1) .. MaxCycles : rows[d][w] = "none"
      BY <2>1 DEF Rowed, Cycles
    <2>3. "completed" \in RowStatuses /\ "completed" \in Accepted
      BY DEF RowStatuses, Accepted
    <2>4. w \in Completed([rows EXCEPT ![Latest(w)][w] = "completed"])
      BY <1>0, <1>1, <2>1, <2>2, <2>3, RowStands
    <2> QED
      BY <1>1, <2>4 DEF Marked
  <1>7. ASSUME NEW u, u = w
        PROVE  Named(u, p)'
    BY <1>0, <1>1, <1>5, <1>7, NamedByLess
  <1> QED
    BY <1>6, <1>7


\* A path the harness would name as not committed, under the name the stored
\* plan has for it.
Accused(p) ==
    \/ \E f \in turn.fixes : f[2] \in Lacking /\ f[1] = p
    \/ p \in Lacking /\ \A f \in turn.fixes : f[2] # p

\* A worker that is judged lacks nothing that was settled; and has nothing
\* missing at all if it settled what it has not committed itself.
JudgedOK ==
    W \in Works /\ Judged =>
        /\ turn.phase = "rescue" => Missing # {}
        /\ \A p : <<W, p>> \in past.settled => ~Accused(p)
        /\ \A p : <<W, p>> \in past.settled /\ Unwritten(W, p) => Missing = {}

SettledInv ==
    /\ \A w \in Works, p \in Paths : <<w, p>> \in past.settled =>
           Named(w, p) /\ (Unwritten(w, p) => Counted(w))
    /\ JudgedOK
    /\ AcceptedIsNotAskedAgain

SettledAll == GoodAll /\ SettledInv

\* What a worker under way settled and owes is written, in a first cycle.
LEMMA FirstWritten ==
  ASSUME SettledAll, W \in Works, NEW p, <<W, p>> \in past.settled, Unwritten(W, p)
  PROVE  run.cycle # 1
  <1>1. Counted(W) /\ run.pc = "running" /\ W \notin run.done
    BY DEF SettledAll, SettledInv, GoodAll, DriverInv, DriverOK, ContractsTypeOK, PastTypes, Works, Tasks
  <1> QED
    BY <1>1 DEF Counted, SettledAll, GoodAll, GoodInv

\* The verdict on a worker's turn.
LEMMA JudgedWork ==
  ASSUME SettledAll, GoodAll', [ContractsNext]_contractsVars, WorkTurn
  PROVE  JudgedOK'
  <1>0. /\ DriverInv /\ ContractsTypeOK /\ PlansAgree /\ shape' = shape /\ PlanOK(live)
        /\ branch \subseteq branch' /\ past \in PastTypes /\ turn \in TurnTypes(branch)
        /\ written \in [Tasks -> SUBSET branch] /\ run.cycle \in Nat
    BY ShapeKeeps, TurnTyped DEF SettledAll, GoodAll, DriverInv, ContractsTypeOK, RunTypes, Cycles
  <1>1. turn.phase = "turn" /\ W \in Works /\ W \in Tasks /\ stored' = stored /\ run' = run
    BY <1>0, WorkDoes DEF Works
  <1>2. PICK commit \in SUBSET Paths, left \in SUBSET Paths, says \in {"progress", "decides", "nothing"} :
           /\ branch' = branch \cup commit /\ found' = found \cup commit \cup left
           /\ written' = IF run.cycle = 1 THEN [written EXCEPT ![W] = @ \cup commit] ELSE written
           /\ turn' = [turn EXCEPT !.phase = "judge", !.commit = commit, !.dirty = left # {},
                                   !.says = says, !.fixes = Names(commit, left),
                                   !.contract = Owed(commit, left), !.disk = Disked(commit, left)]
           /\ live' = IF turn.tries = 0
                      THEN [live EXCEPT !.files[W] = Corrected(@, Names(commit, left))]
                      ELSE live
           /\ past' = IF Idles(commit, left) THEN [past EXCEPT !.loose = @ \cup {W}]
                      ELSE [past EXCEPT !.settled = @ \ Reopened(Names(commit, left), commit)]
           /\ Names(commit, left) \in SUBSET (Paths \X Paths)
           /\ Owed(commit, left) \in SUBSET Paths /\ Disked(commit, left) \in SUBSET Paths
    BY <1>0, WorkDoes
  <1> DEFINE fixes == Names(commit, left)
             owed == Owed(commit, left)
             disked == Disked(commit, left)
             has == IF run.cycle = 1 THEN written'[W] ELSE branch'
  <1>3. /\ W' = W /\ turn'.phase = "judge" /\ turn'.contract = owed /\ turn'.fixes = fixes
        /\ turn'.disk = disked
    BY <1>0, <1>2 DEF TurnTypes, W
  <1>4. /\ Lacking' = owed \ has
        /\ Missing' = Lacking' \cup (IF run.cycle = 1 THEN disked ELSE disked \ branch')
    BY <1>1, <1>3 DEF Missing, Lacking
  <1>5. \A p : <<W, p>> \in past'.settled =>
           /\ <<W, p>> \in past.settled
           /\ \A f \in fixes : p # f[2] /\ (f[1] \in branch => f[2] \in commit)
    BY <1>0, <1>2, StaysSettled
  <1>6. ASSUME NEW p, <<W, p>> \in past'.settled
        PROVE  /\ p \in Paths /\ <<W, p>> \in past.settled /\ Named(W, p)
               /\ Unwritten(W, p)' => Unwritten(W, p)
    <2>1. <<W, p>> \in past.settled /\ p \in Paths
      BY <1>0, <1>5, <1>6 DEF PastTypes
    <2>2. Named(W, p)
      BY <1>1, <2>1 DEF SettledAll, SettledInv
    <2>3. ASSUME NEW w, w = W
          PROVE  Unwritten(w, p)' => Unwritten(w, p)
      <3>1. ~(AcceptAnswer /\ w = asked.task)
        BY <1>0, <1>1 DEF AcceptAnswer, Answerable, DriverInv, DriverOK, Works, Tasks
      <3>2. w \in Works /\ Named(w, p) /\ <<w, p>> \in past.settled \cap past'.settled
        BY <1>1, <1>6, <2>1, <2>2, <2>3
      <3> QED
        BY <3>1, <3>2, NamedKeeps DEF SettledAll
    <2>4. Unwritten(W, p)' => Unwritten(W, p)
      BY <1>3, <2>3 DEF Unwritten, Owes
    <2> QED
      BY <2>1, <2>2, <2>4
  <1>7. branch \subseteq branch' /\ written[W] \subseteq has /\ commit \subseteq has
        /\ (run.cycle # 1 => branch \subseteq has)
    BY <1>0, <1>1, <1>2
  <1> HIDE DEF fixes, owed, disked, has
  <1>8. SUFFICES ASSUME NEW p, <<W, p>> \in past'.settled
                 PROVE  /\ ~Accused(p)'
                        /\ Unwritten(W, p)' => Missing' = {}
    BY <1>3 DEF JudgedOK
  <1>9. Accused(p)' <=> \/ \E f \in fixes : f[2] \in Lacking' /\ f[1] = p
                        \/ p \in Lacking' /\ \A f \in fixes : f[2] # p
    BY <1>3 DEF Accused
  <1>10. CASE Idles(commit, left)
    <2>1. owed = {} /\ disked = {}
      BY <1>10 DEF owed, Owed, disked, Disked, Renamed
    <2> QED
      BY <1>4, <1>9, <2>1
  <1>11. CASE ~Idles(commit, left) /\ turn.tries = 0
    <2> DEFINE first == Declared(live, W)
               twice(kind) == Replaced(Replaced(kind, fixes), fixes)
    <2>1. owed = twice(Committed(live, W)) /\ disked \subseteq twice(OnDisk(live, W))
      BY <1>11 DEF owed, Owed, disked, Disked, Renamed, fixes
    <2>2. \A f \in fixes :
             /\ f[1] \in first \ branch \/ f[2] \in commit \cup left
             /\ f[1] \in first \/ \E g \in fixes : g[1] \in first \ branch /\ g[2] = f[1]
      <3>1. fixes = Fixes(W, commit \cup left)
        BY <1>11 DEF Names, fixes
      <3>2. commit \cup left \in SUBSET Paths
        OBVIOUS
      <3>3. \A f \in fixes :
               /\ f[1] \in first \ Tree \/ f[2] \in commit \cup left
               /\ f[1] \in first \/ \E g \in fixes : g[1] \in first \ Tree /\ g[2] = f[1]
        BY <1>0, <1>1, <3>1, <3>2, FixesAre
      <3> HIDE DEF first
      <3> QED
        BY <3>3 DEF Tree
    <2>3. /\ fixes \in SUBSET (Paths \X Paths)
          /\ Committed(live, W) \in SUBSET Paths /\ OnDisk(live, W) \in SUBSET Paths
      BY <1>0, <1>1, <1>2, DeclaredTyped DEF fixes
    <2>4. ASSUME NEW kind \in SUBSET Paths
          PROVE  \A q \in twice(kind) : q \in kind \/ \E f \in fixes : f[2] = q
      <3> DEFINE once == Replaced(kind, fixes)
      <3>1. once \in SUBSET Paths /\ \A q \in once : q \in kind \/ \E f \in fixes : f[2] = q
        BY <2>3, ReplacedKeeps
      <3> HIDE DEF once
      <3>2. \A q \in Replaced(once, fixes) : q \in once \/ \E f \in fixes : f[2] = q
        BY <2>3, <3>1, ReplacedKeeps
      <3> QED
        BY <3>1, <3>2 DEF once
    <2> HIDE DEF twice
    <2>5. \A q \in owed \cup disked : q \in first \/ \E f \in fixes : f[2] = q
      <3>1. \A q \in owed : q \in Committed(live, W) \/ \E f \in fixes : f[2] = q
        BY <2>1, <2>3, <2>4
      <3>2. \A q \in disked : q \in OnDisk(live, W) \/ \E f \in fixes : f[2] = q
        BY <2>1, <2>3, <2>4
      <3> QED
        BY <3>1, <3>2 DEF Declared
    <2> HIDE DEF first
    <2>6. /\ Named(W, p) /\ (Unwritten(W, p)' => Unwritten(W, p)) /\ <<W, p>> \in past.settled
          /\ \A f \in fixes : p # f[2] /\ (f[1] \in branch => f[2] \in commit)
      BY <1>5, <1>6, <1>8
    <2>7. /\ p \in first => p \in branch
          /\ Owes(W, p) => first \subseteq branch
      BY <1>0, <1>1, <2>6, NamedOwes DEF first
    <2>8. \A f \in fixes : f[1] = p => f[2] \notin Lacking'
      <3> SUFFICES ASSUME NEW f \in fixes, f[1] = p
                   PROVE  f[2] \in commit
        BY <1>4, <1>7
      <3>1. p \in first
        BY <2>2, <2>6
      <3> QED
        BY <2>6, <2>7, <3>1
    <2>9. ~(p \in Lacking' /\ \A f \in fixes : f[2] # p)
      <3> SUFFICES ASSUME p \in Lacking', \A f \in fixes : f[2] # p
                   PROVE  FALSE
        OBVIOUS
      <3>1. p \in first /\ p \in branch /\ p \notin has
        BY <1>4, <2>5, <2>7
      <3>2. run.cycle = 1 /\ p \notin written[W]
        BY <1>7, <3>1
      <3>3. Unwritten(W, p)
        BY <3>1, <3>2 DEF Unwritten, Owes, first
      <3> QED
        BY <1>1, <2>6, <3>2, <3>3, FirstWritten
    <2>10. Unwritten(W, p)' => Missing' = {}
      <3> SUFFICES ASSUME Unwritten(W, p)'
                   PROVE  Missing' = {}
        OBVIOUS
      <3>1. Unwritten(W, p) /\ first \subseteq branch
        BY <2>6, <2>7 DEF Unwritten
      <3>2. run.cycle # 1
        BY <1>1, <2>6, <3>1, FirstWritten
      <3>3. \A f \in fixes : f[2] \in commit
        BY <2>2, <2>6, <3>1
      <3>4. has = branch' /\ commit \subseteq branch'
        BY <1>2, <3>2 DEF has
      <3>5. \A q \in owed \cup disked : q \in branch'
        BY <1>0, <2>5, <3>1, <3>3, <3>4
      <3> QED
        BY <1>4, <3>2, <3>4, <3>5
    <2> QED
      BY <1>9, <2>8, <2>9, <2>10
  <1>12. CASE ~Idles(commit, left) /\ turn.tries # 0
    <2>1. fixes = turn.fixes /\ owed = turn.contract /\ disked \subseteq turn.disk
      BY <1>12 DEF fixes, owed, Owed, disked, Disked, Renamed, Names
    <2>2. Lacking' \subseteq Lacking
      BY <1>0, <1>4, <1>7, <2>1 DEF Lacking
    <2>3. Missing' \subseteq Missing
      BY <1>0, <1>4, <2>1, <2>2 DEF Missing
    <2>4. Judged
      BY <1>0, <1>1, <1>12 DEF Judged, TurnTypes
    <2>5. <<W, p>> \in past.settled /\ (Unwritten(W, p)' => Unwritten(W, p))
      BY <1>6, <1>8
    <2>6. ~Accused(p) /\ (Unwritten(W, p) => Missing = {})
      BY <1>1, <2>4, <2>5 DEF SettledAll, SettledInv, JudgedOK
    <2> QED
      BY <1>9, <2>1, <2>2, <2>3, <2>5, <2>6 DEF Accused
  <1> QED
    BY <1>10, <1>11, <1>12


\* ... and what follows from it.
LEMMA JudgedNext ==
  ASSUME SettledAll, GoodAll', [ContractsNext]_contractsVars
  PROVE  JudgedOK'
  <1>0. /\ DriverInv /\ ContractsTypeOK /\ shape' = shape /\ Works' = Works
        /\ turn \in TurnTypes(branch) /\ run \in RunTypes
    BY ShapeKeeps DEF SettledAll, GoodAll, DriverInv, ContractsTypeOK
  <1>1. CASE turn'.phase \in {"idle", "settle"} \/ W' \notin Works
    BY <1>0, <1>1 DEF JudgedOK, Judged
  <1>2. CASE PassOver \/ AllDone \/ Reviewed \/ AbortAnswer \/ Answered
    <2>1. turn' = turn /\ W = 0
      BY <1>0, <1>2, AnsweredDoes DEF PassOver, AllDone, Idle, Reviewed, AbortAnswer, DriverInv, DriverOK
    <2> QED
      BY <1>0, <1>1, <2>1 DEF DriverInv, DriverOK
  <1>3. CASE Dispatch
    <2>1. turn'.phase = "turn" /\ turn'.tries = 0
      BY <1>3 DEF Dispatch, NoTurn
    <2> QED
      BY <2>1 DEF JudgedOK, Judged
  <1>4. CASE Ends \/ Asks \/ Finishes \/ Bind
    <2>1. turn'.phase \in {"idle", "settle"}
      <3>1. CASE Bind
        <4>1. turn' = [NoTurn EXCEPT !.task = W, !.phase = "settle"]
          BY <1>0, <3>1, BindDoes
        <4> QED
          BY <4>1 DEF NoTurn
      <3>2. CASE Ends \/ Asks \/ Finishes
        <4>1. turn' = NoTurn
          BY <1>0, <3>2, EndsDo, AsksDo, FinishesDo
        <4> QED
          BY <4>1 DEF NoTurn
      <3> QED
        BY <1>4, <3>1, <3>2
    <2> QED
      BY <1>1, <2>1
  <1>5. CASE Observed \/ ReportRetried
    <2>1. W \in Probes /\ W' = W
      BY <1>0, <1>5, TurnsDo DEF Observed, ReportRetried, Invalid, DriverInv, PhaseOK, Turns
    <2> QED
      BY <1>1, <2>1 DEF Works
  <1>6. CASE Verified
    <2>1. turn'.phase = "settle"
      BY <1>6 DEF Verified, NoTurn
    <2> QED
      BY <1>1, <2>1
  <1>7. CASE Retry \/ Mismatch \/ UNCHANGED contractsVars
    <2>1. /\ UNCHANGED <<stored, live, branch, written, past>> /\ run' = run
          /\ W' = W /\ turn'.contract = turn.contract /\ turn'.fixes = turn.fixes
          /\ turn'.disk = turn.disk
      BY <1>0, <1>7 DEF Retry, Mismatch, Failed, Judging, contractsVars, plans, work, TurnTypes, W
    <2>2. Judged' => Judged
      BY <1>0, <1>7 DEF Retry, Mismatch, Failed, Judging, contractsVars, Judged, TurnTypes
    <2>3. turn'.phase = "rescue" => Missing # {} \/ turn' = turn
      BY <1>0, <1>7 DEF Retry, Mismatch, Failed, Judging, Unmet, Unmade, contractsVars, TurnTypes
    <2>4. Lacking' = Lacking /\ Missing' = Missing
      BY <2>1 DEF Missing, Lacking
    <2>5. Declared(live, W)' = Declared(live, W) /\ Declared(stored.plan, W)' = Declared(stored.plan, W)
      BY <1>0, <2>1, DeclaredPrimes
    <2>6. \A p : (Accused(p)' <=> Accused(p)) /\ (Unwritten(W, p)' <=> Unwritten(W, p))
      BY <2>1, <2>4, <2>5 DEF Accused, Unwritten, Owes
    <2> QED
      BY <1>0, <2>1, <2>2, <2>3, <2>4, <2>6 DEF SettledAll, SettledInv, JudgedOK
  <1>8. CASE WorkTurn
    BY <1>8, JudgedWork
  <1> QED
    BY <1>2, <1>3, <1>4, <1>5, <1>6, <1>7, <1>8, Steps DEF Turns

\* Only an accept settles a path.
LEMMA SettledShrinks ==
  ASSUME DriverInv, past \in PastTypes, [ContractsNext]_contractsVars, ~AcceptAnswer
  PROVE  past'.settled \subseteq past.settled
  <1>5. CASE Bind
    BY <1>5 DEF Bind, PastTypes
  <1>6. CASE WorkTurn
    <2>1. PICK commit \in SUBSET Paths, left \in SUBSET Paths :
             past' = IF Idles(commit, left) THEN [past EXCEPT !.loose = @ \cup {W}]
                     ELSE [past EXCEPT !.settled = @ \ Reopened(Names(commit, left), commit)]
      BY <1>6, WorkDoes
    <2> QED
      BY <2>1 DEF PastTypes
  <1>7. CASE Finishes
    <2>1. CASE Rescued
      <3>1. PICK f \in Paths \X Paths : past' = [past EXCEPT !.settled = @ \ {<<W, f[2]>>}]
        BY <2>1, RescueDoes
      <3> QED
        BY <3>1 DEF PastTypes
    <2>2. CASE ~Rescued
      BY <1>7, <2>2, FinishLeaves DEF PastTypes
    <2> QED
      BY <2>1, <2>2
  <1>8. CASE Dispatch \/ Answered
    BY <1>8 DEF Dispatch, Answered, TextAnswer, SkipAnswer, PastTypes
  <1>9. CASE PassOver \/ AllDone \/ Reviewed \/ Mismatch \/ AbortAnswer \/ Turns \/ Ends
             \/ UNCHANGED contractsVars
    BY <1>9, TurnsDo, EndsDo DEF PassOver, AllDone, Reviewed, Mismatch, AbortAnswer,
       contractsVars
  <1>10. CASE Asks
    BY <1>10, AsksDo DEF PastTypes
  <1> QED
    BY <1>5, <1>6, <1>7, <1>8, <1>9, <1>10, Steps

\* A question about paths that were settled is not put.
LEMMA AskedNext ==
  ASSUME SettledAll, GoodAll', [ContractsNext]_contractsVars
  PROVE  AcceptedIsNotAskedAgain'
  <1>0. DriverInv /\ past \in PastTypes
    BY DEF SettledAll, GoodAll, DriverInv, ContractsTypeOK
  <1>1. CASE asked'.declared = {}
    BY <1>1 DEF AcceptedIsNotAskedAgain
  <1>2. CASE asked' = asked /\ past'.settled \subseteq past.settled
    BY <1>2 DEF SettledAll, SettledInv, AcceptedIsNotAskedAgain
  <1>3. CASE AskMismatch
    <2>1. /\ W \in Works /\ turn.phase = "rescue" /\ past' = past /\ asked'.task = W
      BY <1>0, <1>3 DEF AskMismatch, Pauses, DriverInv, PhaseOK
    <2>2. \A p \in asked'.declared : Accused(p)
      BY <1>3 DEF AskMismatch, Pauses, Accused
    <2> QED
      BY <2>1, <2>2 DEF SettledAll, SettledInv, JudgedOK, Judged, AcceptedIsNotAskedAgain
  <1>4. CASE ReportBlocked \/ AskDecision \/ Answered
    <2>1. asked'.declared = {}
      <3>1. CASE ReportBlocked
        BY <3>1 DEF ReportBlocked, Pauses, NothingAsked
      <3>2. CASE AskDecision
        BY <3>2 DEF AskDecision, Pauses, NothingAsked
      <3>3. CASE Answered
        <4>1. asked' = NothingAsked
          BY <1>0, <3>3, AnsweredDoes
        <4> QED
          BY <4>1 DEF NothingAsked
      <3> QED
        BY <1>4, <3>1, <3>2, <3>3
    <2> QED
      BY <1>1, <2>1
  <1>5. CASE ~(Asks \/ Answered)
    <2>1. past'.settled \subseteq past.settled
      BY <1>0, <1>5, SettledShrinks DEF Answered
    <2>2. asked' = asked
      BY <1>0, <1>5, Steps, TurnsDo, EndsDo, FinishesDo, BindDoes, WorkDoes
         DEF PassOver, Dispatch, AllDone, Reviewed, Mismatch, AbortAnswer, contractsVars
    <2> QED
      BY <1>2, <2>1, <2>2
  <1> QED
    BY <1>3, <1>4, <1>5 DEF Asks

LEMMA SettledNext ==
  ASSUME SettledAll, [ContractsNext]_contractsVars
  PROVE  SettledAll'
  <1>0. GoodAll' /\ JudgedOK' /\ AcceptedIsNotAskedAgain'
    BY GoodNext, JudgedNext, AskedNext DEF SettledAll
  <1>1. /\ DriverInv /\ Works' = Works /\ past \in PastTypes
    BY ShapeKeeps DEF SettledAll, GoodAll, DriverInv, ContractsTypeOK
  <1>2. ASSUME NEW w \in Works, NEW p \in Paths, <<w, p>> \in past'.settled
        PROVE  Named(w, p)' /\ (Unwritten(w, p)' => Counted(w)')
    <2>1. <<w, p>> \in past.settled => Named(w, p) /\ (Unwritten(w, p) => Counted(w))
      BY DEF SettledAll, SettledInv
    <2>2. CASE AcceptAnswer /\ w = asked.task
      <3>1. Named(w, p)' /\ w \in Completed(rows')
        BY <1>0, <1>2, <2>1, <2>2, AcceptSettles DEF SettledAll
      <3> QED
        BY <3>1, ShapeKeeps DEF Counted, Completed
    <2>3. CASE ~(AcceptAnswer /\ w = asked.task)
      <3>1. <<w, p>> \in past.settled
        <4>1. CASE AcceptAnswer
          BY <1>1, <1>2, <2>3, <4>1 DEF AcceptAnswer, PastTypes
        <4>2. CASE ~AcceptAnswer
          BY <1>1, <1>2, <4>2, SettledShrinks
        <4> QED
          BY <4>1, <4>2
      <3>2. Named(w, p)' /\ (Unwritten(w, p)' => Unwritten(w, p))
        BY <1>0, <1>2, <2>1, <2>3, <3>1, NamedKeeps DEF SettledAll
      <3>3. ASSUME Unwritten(w, p)
            PROVE  Counted(w)'
        <4>1. Counted(w)
          BY <2>1, <3>1, <3>3
        <4>2. W = w => ~(AskDecision \/ Mismatch \/ AskMismatch)
          <5> SUFFICES ASSUME W = w, AskDecision \/ Mismatch \/ AskMismatch
                       PROVE  FALSE
            OBVIOUS
          <5>1. Judged /\ Missing # {}
            <6>1. CASE AskDecision
              <7>1. Missing # {}
                <8> SUFFICES ASSUME Missing = {} PROVE FALSE
                  OBVIOUS
                <8>1. past' = [past EXCEPT !.settled = {e \in @ : e[1] # W}]
                  BY <6>1 DEF AskDecision
                <8>2. past'.settled = {e \in past.settled : e[1] # W}
                  BY <1>1, <8>1 DEF PastTypes
                <8> QED
                  BY <1>2, <8>2
              <7> QED
                BY <6>1, <7>1 DEF AskDecision, Failed, Judging, Judged
            <6>2. CASE Mismatch
              BY <6>2 DEF Mismatch, Failed, Judging, Unmet, Unmade, Judged
            <6>3. CASE AskMismatch
              BY <1>1, <6>3 DEF AskMismatch, Judged, SettledAll, SettledInv, JudgedOK
            <6> QED
              BY <6>1, <6>2, <6>3
          <5>2. Missing = {}
            BY <3>1, <3>3, <5>1 DEF SettledAll, SettledInv, JudgedOK
          <5> QED
            BY <5>1, <5>2
        <4> QED
          BY <4>1, <4>2, CountedKeeps DEF SettledAll
      <3> QED
        BY <3>2, <3>3
    <2> QED
      BY <2>2, <2>3
  <1> QED
    BY <1>0, <1>1, <1>2 DEF SettledAll, SettledInv

LEMMA SettledInit ==
  ASSUME ContractsInit
  PROVE  SettledAll
  <1>1. past.settled = {} /\ asked.declared = {} /\ W = 0
    BY DEF ContractsInit, NothingAsked, NoTurn, W
  <1>2. W \notin Works
    BY <1>1 DEF Works, Tasks
  <1> QED
    BY <1>1, <1>2, GoodInit DEF SettledAll, SettledInv, JudgedOK, AcceptedIsNotAskedAgain

\* No question names a path that a person accepted away, under any name it had
\* (the "accept" branch of harness_answer and what later turns correct).
THEOREM AcceptedHolds == ContractsSpec => []AcceptedIsNotAskedAgain
  <1>1. SettledAll => AcceptedIsNotAskedAgain
    BY DEF SettledAll, SettledInv
  <1> QED
    BY <1>1, SettledInit, SettledNext, PTL DEF ContractsSpec


=============================================================================
