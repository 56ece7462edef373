----------------------------- MODULE SubTasks -----------------------------
(***************************************************************************)
(* The execution of a plan's sub-tasks: the driver of one cycle, the       *)
(* function that takes one sub-task from dispatch to an accepted or a      *)
(* failed row, the pause in which a sub-task asks a human, and the run that *)
(* continues the stored plan once the question is answered.                *)
(*                                                                         *)
(* The driver waits for one sub-task at a time under a deadline; past it   *)
(* the sub-task's promise is not stopped, only no longer waited for.  The  *)
(* rows of sub_tasks are keyed by cycle and sequence, a continuation counts *)
(* its cycles from one again, and what counts as completed is read from    *)
(* the row of the highest cycle.                                           *)
(*                                                                         *)
(* A turn, a verification and a classification of a final message are the  *)
(* answers they give.                                                      *)
(***************************************************************************)
EXTENDS Integers

CONSTANTS
    N,           \* sub-tasks of the plan, numbered from 1
    Deps,        \* dependsOn
    Observes,    \* the sub-tasks whose taskMode is observe
    Conflicts,   \* the sub-tasks that may name a path the denylist refuses
    MaxCycles,   \* cycles of one run (loop.max_cycles)
    MaxRuns,     \* runs of the session (a bound on questions answered)
    MaxRetries,  \* worker_protocol_max_attempts less the first attempt
    MaxTimeouts, \* worker_timeout_max_attempts
    Generation   \* verify.append_generation_subtask

Plan == 1..N
Seqs == 1..(N + 1)          \* the last one is the appended generation sub-task

ASSUME PlanAssumption ==
    /\ N \in Nat \ {0} /\ Deps \in [Plan -> SUBSET Plan]
    /\ \E rank \in [Plan -> Plan] : \A s \in Plan : \A d \in Deps[s] : rank[d] < rank[s]
    /\ Observes \subseteq Plan /\ Conflicts \subseteq Plan
ASSUME LimitAssumption ==
    /\ MaxCycles \in Nat \ {0} /\ MaxRuns \in Nat \ {0} /\ MaxRetries \in Nat
    /\ MaxTimeouts \in Nat \ {0} /\ Generation \in BOOLEAN

VARIABLES
    pc,        \* where the driver is
    cycle,
    visited,   \* the prefix of `ordered` the driver has passed
    scoped,    \* reviseScopeSkip
    done,
    failed,    \* failed.err, "none" when null (failed.seq is the sub-task waited for)
    clarify,   \* clarify.seq, 0 when there is no question
    cont,      \* acceptedContinuation
    row,       \* sub_tasks.status by cycle and sequence
    conflicts, \* planPolicyConflicts, by sequence
    flow,      \* the promise of the sub-task under way
    runs,
    \* history, read by properties only
    sound,     \* accepted since it was last dispatched
    skipped,   \* the operator said skip
    ran        \* the cycle of the last dispatch, 0 before

driver == <<pc, cycle, visited, scoped>>
local  == <<done, failed, clarify>>
fixed  == <<cont, conflicts, runs>>
ghost  == <<sound, skipped, ran>>
vars   == <<driver, local, fixed, row, flow, ghost>>

Accepted == {"completed", "completed_no_change"}
Statuses == Accepted \cup {"none", "running", "verifying", "failed", "failed_verification",
                           "blocked"}
Steps    == {"idle", "entry", "working", "verifying", "retrying", "rescuing", "retracting",
             "settling"}
Errors   == {"none", "stopped", "turn", "verification", "accounting", "deadline",
             "blocked", "best_effort", "dispatch", "dependencies"}
Answers  == {"none", "text", "skip", "accept"}
Idle     == [seq |-> 1, cycle |-> 1, step |-> "idle", tries |-> 0, late |-> FALSE]
Fresh    == [on |-> FALSE, completed |-> {}, seq |-> 0, answer |-> "none"]

TypeOK ==
    /\ pc \in {"planning", "head", "pick", "waiting", "review", "paused", "ended"}
    /\ cycle \in 0..MaxCycles /\ visited \subseteq Seqs /\ scoped \subseteq Plan
    /\ done \subseteq Seqs /\ failed \in Errors /\ clarify \in 0..(N + 1)
    /\ cont \in [on : BOOLEAN, completed : SUBSET Seqs, seq : 0..(N + 1), answer : Answers]
    /\ row \in [1..MaxCycles -> [Seqs -> Statuses]]
    /\ conflicts \subseteq Conflicts /\ runs \in 1..MaxRuns
    /\ flow \in [seq : Seqs, cycle : 1..MaxCycles, step : Steps,
                 tries : 0..(MaxRetries + MaxTimeouts + 1), late : BOOLEAN]
    /\ sound \subseteq Seqs /\ skipped \subseteq Seqs /\ ran \in [Seqs -> 0..MaxCycles]

Init ==
    /\ pc = "planning" /\ cycle = 0 /\ visited = {} /\ scoped = {}
    /\ done = {} /\ failed = "none" /\ clarify = 0 /\ cont = Fresh
    /\ row = [c \in 1..MaxCycles |-> [s \in Seqs |-> "none"]]
    /\ conflicts \in SUBSET Conflicts /\ flow = Idle /\ runs = 1
    /\ sound = {} /\ skipped = {} /\ ran = [s \in Seqs |-> 0]

-----------------------------------------------------------------------------
(* Rows                                                                    *)

\* The row of the highest cycle, of a sub-task that has one.
Cycles(s) == {c \in 1..MaxCycles : row[c][s] # "none"}
Latest(s) == CHOOSE c \in Cycles(s) : \A d \in Cycles(s) : d <= c

\* What a statement that updates the row of the highest cycle leaves.
Marked(s, status) ==
    IF Cycles(s) = {} THEN row ELSE [row EXCEPT ![Latest(s)][s] = status]

\* A mutation: a completed row of any cycle counts.
CompletedEver(r) == {s \in Seqs : \E c \in 1..MaxCycles : r[c][s] \in Accepted}

\* loadAcceptedContinuation: completedRows, of the rows as they stand in r.
Completed(r) ==
    {s \in Seqs : \E c \in 1..MaxCycles :
        r[c][s] \in Accepted /\ \A d \in (c + 1)..MaxCycles : r[d][s] = "none"}

\* A row of an earlier run hides the row of the last dispatch.
Shadowed(s) == \E c \in Cycles(s) : c > ran[s]

-----------------------------------------------------------------------------
(* The driver                                                              *)

\* The plan is at hand, from the planner or stored; a sub-task whose path
\* the policy refuses is asked about before anything is dispatched.
Planned ==
    /\ pc = "planning"
    /\ IF conflicts = {} THEN pc' = "head" /\ UNCHANGED clarify
       ELSE pc' = "paused" /\ clarify' = CHOOSE s \in conflicts : \A t \in conflicts : s <= t
    /\ UNCHANGED <<cycle, visited, scoped, done, failed, fixed, row, flow, ghost>>

\* A cycle begins: what a continuation found completed is done in its first;
\* a later one may leave out what no finding targets.
CycleHead ==
    /\ pc = "head" /\ cycle < MaxCycles
    /\ cycle' = cycle + 1 /\ pc' = "pick" /\ visited' = {} /\ failed' = "none" /\ clarify' = 0
    /\ done' = IF cycle = 0 THEN cont.completed ELSE {}
    /\ scoped' \in IF cycle = 0 THEN {{}} ELSE (SUBSET Plan) \ {Plan}
    /\ UNCHANGED <<fixed, row, flow, ghost>>

\* topoSortSubTasks: the smallest number whose dependencies are behind it.
Ready   == {s \in Plan \ visited : Deps[s] \subseteq visited}
NextSeq == CHOOSE s \in Ready : \A t \in Ready : s <= t

\* One turn of the driver's loop.
Visit(s) ==
    /\ visited' = visited \cup {s}
    /\ IF s \in done THEN UNCHANGED <<pc, done, failed, row, flow>>
       ELSE IF s \in Plan /\ ~(Deps[s] \subseteq done)
         THEN failed' = "dependencies" /\ UNCHANGED <<pc, done, row, flow>>
       ELSE IF s \in scoped
         THEN /\ done' = done \cup {s}
              /\ row' = IF row[cycle][s] = "none" THEN row
                        ELSE [row EXCEPT ![cycle][s] = "completed_no_change"]
              /\ UNCHANGED <<pc, failed, flow>>
       ELSE /\ pc' = "waiting"
            /\ flow' = [Idle EXCEPT !.seq = s, !.cycle = cycle, !.step = "entry"]
            /\ UNCHANGED <<done, failed, row>>
    /\ UNCHANGED <<cycle, scoped, clarify, fixed, ghost>>

Pick == pc = "pick" /\ failed = "none" /\ Ready # {} /\ Visit(NextSeq)

\* appendGenerationSubTask, once, when nothing failed.
AppendGeneration ==
    pc = "pick" /\ failed = "none" /\ visited = Plan /\ Generation /\ Visit(N + 1)

ToReview ==
    /\ pc = "pick" /\ failed = "none" /\ Plan \subseteq visited /\ pc' = "review"
    /\ UNCHANGED <<cycle, visited, scoped, local, fixed, row, flow, ghost>>

\* A sub-task failed: its question pauses the session, anything else ends it.
Stop ==
    /\ pc = "pick" /\ failed # "none"
    /\ pc' = IF clarify # 0 THEN "paused" ELSE "ended"
    /\ UNCHANGED <<cycle, visited, scoped, local, fixed, row, flow, ghost>>

\* The review sends the session round again, or it leaves this machine.
Reviewed ==
    /\ pc = "review" /\ pc' \in {"ended"} \cup (IF cycle < MaxCycles THEN {"head"} ELSE {})
    /\ UNCHANGED <<cycle, visited, scoped, local, fixed, row, flow, ghost>>

\* A mutation: the deadline gives the sub-task up without failing the cycle.
DeadlineForgives ==
    /\ pc = "waiting" /\ pc' = "pick" /\ flow' = [flow EXCEPT !.late = TRUE]
    /\ UNCHANGED <<cycle, visited, scoped, local, fixed, row, ghost>>

\* A mutation: only the worker's own call is bounded.
DeadlineOfTheWorker ==
    /\ pc = "waiting" /\ flow.step = "working" /\ pc' = "pick"
    /\ row' = [row EXCEPT ![flow.cycle][flow.seq] = "failed"]
    /\ flow' = [flow EXCEPT !.late = TRUE] /\ sound' = sound \ {flow.seq}
    /\ failed' = IF failed = "none" THEN "deadline" ELSE failed
    /\ UNCHANGED <<cycle, visited, scoped, done, clarify, fixed, skipped, ran>>

\* subtask_deadline_seconds: the row is failed, the promise runs on.
Deadline ==
    /\ pc = "waiting" /\ pc' = "pick"
    /\ row' = IF row[flow.cycle][flow.seq] = "none" THEN row
              ELSE [row EXCEPT ![flow.cycle][flow.seq] = "failed"]
    /\ flow' = [flow EXCEPT !.late = TRUE] /\ sound' = sound \ {flow.seq}
    /\ failed' = IF failed = "none" THEN "deadline" ELSE failed
    /\ UNCHANGED <<cycle, visited, scoped, done, clarify, fixed, skipped, ran>>

\* The process dies: recovery fails the orphaned rows and the session.
Crash ==
    /\ pc \in {"head", "pick", "waiting"} /\ pc' = "ended" /\ flow' = Idle
    /\ row' = [c \in 1..MaxCycles |-> [s \in Seqs |->
                  IF row[c][s] = "running" THEN "failed" ELSE row[c][s]]]
    /\ UNCHANGED <<cycle, visited, scoped, local, fixed, ghost>>

-----------------------------------------------------------------------------
(* One sub-task: runOneInner, waited for or late                           *)

Seq      == flow.seq
Observe  == Seq \in Observes
At(step) == flow.step = step
Goto(step)   == flow' = [flow EXCEPT !.step = step] /\ UNCHANGED driver
Again(step)  == flow' = [flow EXCEPT !.step = step, !.tries = @ + 1] /\ UNCHANGED driver
Enter(step)  == flow' = [flow EXCEPT !.step = step, !.tries = 0] /\ UNCHANGED driver
SetRow(status) == row' = [row EXCEPT ![flow.cycle][Seq] = status]

\* failed, clarify and done are the cycle's that dispatched: nobody reads a late one's.
Fail(why, question) ==
    IF flow.late THEN UNCHANGED <<failed, clarify>>
    ELSE failed' = why /\ clarify' = IF question THEN Seq ELSE clarify
Retract == failed' = (IF flow.late THEN failed ELSE "none") /\ UNCHANGED clarify
Done    == done' = IF flow.late THEN done ELSE done \cup {Seq}
Accept  == sound' = (IF flow.late THEN sound ELSE sound \cup {Seq}) /\ UNCHANGED <<skipped, ran>>
Return  ==
    /\ flow' = Idle /\ pc' = (IF flow.late THEN pc ELSE "pick")
    /\ UNCHANGED <<cycle, visited, scoped>>

\* An abort, the deadline of the session or the daily cap.
Refused ==
    /\ At("entry") /\ Fail("stopped", FALSE) /\ Return /\ UNCHANGED <<done, row, fixed, ghost>>

\* A revise cycle does not probe again what an observe sub-task established.
ReprobeSkipped ==
    /\ At("entry") /\ Observe /\ \E c \in 1..(flow.cycle - 1) : row[c][Seq] \in Accepted
    /\ Done /\ Return /\ UNCHANGED <<failed, clarify, row, fixed, ghost>>

\* The row is written and the worker dispatched.
Begin ==
    /\ At("entry") /\ SetRow("running") /\ Enter("working")
    /\ sound' = sound \ {Seq} /\ ran' = [ran EXCEPT ![Seq] = flow.cycle]
    /\ UNCHANGED <<local, fixed, skipped>>

\* runWorkerCallWithRetry: no first token in time; a fresh worker is tried.
FirstTokenRetry ==
    /\ At("working") /\ flow.tries + 1 < MaxTimeouts /\ Again("working")
    /\ UNCHANGED <<local, fixed, row, ghost>>

\* The turn is lost: it timed out, threw or never began.
TurnLost ==
    /\ At("working") /\ SetRow("failed") /\ Return
    /\ \E why \in {"turn", "accounting"} : Fail(why, FALSE)
    /\ UNCHANGED <<done, fixed, ghost>>

\* An observe sub-task whose turn is lost may be settled by the scripted
\* verifier, or the session shipped, or kept, on a best effort.
ScriptedFallback ==
    /\ At("working") /\ Observe /\ SetRow("completed_no_change")
    /\ Done /\ Accept /\ Return /\ UNCHANGED <<failed, clarify, fixed>>

BestEffort ==
    /\ At("working") /\ Observe /\ Fail("best_effort", FALSE) /\ Return
    /\ UNCHANGED <<done, row, fixed, ghost>>

TurnOver ==
    /\ At("working") /\ SetRow("verifying") /\ Enter("verifying")
    /\ UNCHANGED <<local, fixed, ghost>>

\* The worker reports that it did not complete: the row stays as it is.
TurnIncomplete ==
    /\ At("verifying") /\ flow.tries = 0 /\ Fail("turn", FALSE) /\ Return
    /\ UNCHANGED <<done, row, fixed, ghost>>

\* What runOneInner does not handle itself reaches the driver's catch.
DispatchError ==
    /\ At("verifying") /\ Fail("dispatch", FALSE) /\ Return
    /\ UNCHANGED <<done, row, fixed, ghost>>

\* The verification passes; the checkpoint is awaited before the sub-task is done.
VerifyPasses ==
    /\ At("verifying") /\ SetRow("completed") /\ Goto("settling")
    /\ UNCHANGED <<local, fixed, ghost>>

Settled ==
    /\ At("settling") /\ Done /\ Accept /\ Return /\ UNCHANGED <<failed, clarify, row, fixed>>

\* In a later cycle a worker that changed nothing, and left nothing, has agreed.
NothingToChange ==
    /\ At("verifying") /\ ~Observe /\ flow.cycle > 1 /\ SetRow("completed_no_change")
    /\ Done /\ Accept /\ Return /\ UNCHANGED <<failed, clarify, fixed>>

\* A turn without an effect is retried in the same worker session: as often
\* as configured what the harness can correct, the rest of it once.
ProtocolRetry ==
    /\ At("verifying") /\ Again("retrying")
    /\ flow.tries < MaxRetries \/ (~Observe /\ flow.tries < 1)
    /\ UNCHANGED <<local, fixed, row, ghost>>

\* A retry that verifies is settled with the status its own turn reported.
RetryPasses ==
    /\ At("retrying") /\ ~Observe /\ SetRow("completed") /\ Goto("settling")
    /\ UNCHANGED <<local, fixed, ghost>>

RetryPassesIncomplete ==
    /\ At("retrying") /\ ~Observe /\ SetRow("failed") /\ Goto("settling")
    /\ UNCHANGED <<local, fixed, ghost>>

\* It does not, and is judged as the first turn was; an observe report is judged anew.
RetryJudged ==
    /\ At("retrying") /\ Goto("verifying") /\ UNCHANGED <<local, fixed, row, ghost>>

RetryUnaccounted ==
    /\ At("retrying") /\ Fail("accounting", FALSE) /\ Return
    /\ UNCHANGED <<done, row, fixed, ghost>>

\* The verification fails for good, with a question where a human can decide.
FailVerification ==
    /\ At("verifying") /\ SetRow("failed_verification") /\ Return
    /\ Fail("verification", FALSE) \/ (~Observe /\ Fail("verification", TRUE))
    /\ UNCHANGED <<done, fixed, ghost>>

\* A validated observation that it is blocked is a question.
ObserveBlocked ==
    /\ At("verifying") /\ Observe /\ SetRow("blocked") /\ Fail("blocked", TRUE) /\ Return
    /\ UNCHANGED <<done, fixed, ghost>>

\* A real commit on other paths than the contract's: the failure is recorded,
\* then a rescue is tried.
PathMismatch ==
    /\ At("verifying") /\ ~Observe /\ SetRow("failed_verification")
    /\ Fail("verification", FALSE) /\ Goto("rescuing") /\ UNCHANGED <<done, fixed, ghost>>

\* Another basename or directory satisfies the contract; the checkpoint is awaited
\* before the failure is retracted.
RescueVerified ==
    /\ At("rescuing") /\ SetRow("completed") /\ Goto("retracting")
    /\ UNCHANGED <<local, fixed, ghost>>

Rescued == At("retracting") /\ Retract /\ Done /\ Accept /\ Return /\ UNCHANGED <<row, fixed>>

\* The branch's history satisfies the contract.
AutoResolved ==
    /\ At("rescuing") /\ SetRow("completed") /\ Retract /\ Done /\ Accept /\ Return
    /\ UNCHANGED fixed

Escalated ==
    /\ At("rescuing") /\ Return /\ UNCHANGED <<done, row, fixed, ghost>>
    /\ UNCHANGED <<failed, clarify>> \/ Fail("verification", TRUE)

Flow ==
    \/ Refused \/ ReprobeSkipped \/ Begin \/ FirstTokenRetry \/ TurnLost \/ ScriptedFallback
    \/ BestEffort \/ TurnOver \/ TurnIncomplete \/ DispatchError \/ VerifyPasses \/ Settled
    \/ NothingToChange \/ ProtocolRetry \/ RetryPasses \/ RetryPassesIncomplete \/ RetryJudged
    \/ RetryUnaccounted \/ FailVerification \/ ObserveBlocked \/ PathMismatch
    \/ RescueVerified \/ Rescued \/ AutoResolved \/ Escalated

-----------------------------------------------------------------------------
(* The answer                                                              *)

\* The run that continues the stored plan: its cycles count from one again.
Resume(answer, r) ==
    /\ pc' = "planning" /\ cycle' = 0 /\ visited' = {} /\ scoped' = {} /\ runs' = runs + 1
    /\ row' = r
    /\ cont' = [on |-> TRUE, completed |-> Completed(r), seq |-> clarify, answer |-> answer]
    /\ done' = {} /\ failed' = "none" /\ clarify' = 0 /\ UNCHANGED flow

Answerable == pc = "paused" /\ runs < MaxRuns

\* A decision; one about a refused path amends the sub-task, or changes nothing.
AnswerText ==
    /\ Answerable /\ Resume("text", row) /\ conflicts' = conflicts \ {clarify}
    /\ UNCHANGED ghost

AnswerSkip ==
    /\ Answerable /\ Resume("skip", Marked(clarify, "completed_no_change"))
    /\ skipped' = skipped \cup {clarify} /\ UNCHANGED <<conflicts, sound, ran>>

\* Accepted is what was committed, so the sub-task has run.
AnswerAccept ==
    /\ Answerable /\ Cycles(clarify) # {} /\ Resume("accept", Marked(clarify, "completed"))
    /\ sound' = sound \cup {clarify} /\ UNCHANGED <<conflicts, skipped, ran>>

AnswerAbort ==
    /\ pc = "paused" /\ pc' = "ended"
    /\ UNCHANGED <<cycle, visited, scoped, local, fixed, row, flow, ghost>>

\* The operator exempts a path in the configuration.
Exempt ==
    /\ pc = "paused" /\ \E s \in conflicts : conflicts' = conflicts \ {s}
    /\ UNCHANGED <<driver, local, cont, runs, row, flow, ghost>>

Human == AnswerText \/ AnswerSkip \/ AnswerAccept \/ AnswerAbort \/ Exempt

-----------------------------------------------------------------------------

Driver == Planned \/ CycleHead \/ Pick \/ AppendGeneration \/ ToReview \/ Stop \/ Reviewed

Next == Driver \/ Deadline \/ Crash \/ Flow \/ Human

Spec == Init /\ [][Next]_vars

\* The driver never waits but for a sub-task, and for that no longer than the
\* deadline's timer; nothing is asked of the sub-task's promise.
Progress == Spec /\ WF_vars(Driver) /\ WF_vars(Deadline)

-----------------------------------------------------------------------------
(* Properties                                                              *)

\* What is put before the reviewer is whole: of every sub-task the last attempt was
\* accepted, or the operator dropped it -- unless a row left by an earlier run stands
\* in for it.  No deadline, retraction, retry or continuation lets a failure through.
ReviewedIsSound ==
    pc = "review" => /\ Plan \subseteq done
                     /\ \A s \in visited : s \in sound \/ s \in skipped \/ Shadowed(s)

\* An operator's decision reaches the sub-task that asked: the continuation's first
\* cycle dispatches it, unless an earlier run's row stands in for it.
AnswerLands ==
    [][(pc = "pick" /\ cycle = 1 /\ cont.answer = "text" /\ visited' = visited \cup {cont.seq}
          /\ cont.seq \notin visited /\ ~Shadowed(cont.seq)) => flow'.seq = cont.seq /\ pc' = "waiting"]_vars

\* One worker at a time writes to the session's worktree: a promise the deadline gave
\* up runs on, and nothing else is dispatched beside it, in this run or a later one.
AbandonedRunsAlone == flow.late => pc \in {"pick", "ended"} /\ failed # "none" /\ clarify = 0

\* A recorded failure is one: a sub-task the rescue accepted is not the reason its
\* session ends.
FailureStands == (failed # "none" /\ pc \in {"pick", "paused", "ended"}) => ~(visited \subseteq done)

\* However a worker, a probe or a checkpoint hangs, the session comes to rest.
ComesToRest == []<>(pc \in {"paused", "ended"})

-----------------------------------------------------------------------------
(* What docs and comments claim, and TLC refutes (README, section 14)      *)

\* "skip" is durable: the sub-task is neither asked about nor dispatched again.
SkipIsFinal ==
    [][\A s \in skipped : ~(clarify' = s /\ clarify # s) /\ ~(pc = "pick" /\ pc' = "waiting" /\ flow'.seq = s)]_vars
=============================================================================
