------------------------- MODULE SessionOwnership -------------------------
(***************************************************************************)
(* Who drives a session?  Every harness session is one row of the SQLite  *)
(* `sessions` table, driven by an asynchronous loop (OrchestratorLoop.run).*)
(* A module-scoped set `runningSessions` is the only lock: run() skips a   *)
(* session whose id is in it.  Ten other actors write the same row or      *)
(* start loops of their own: harness_run, harness_cancel, harness_resume,  *)
(* harness_answer, recovery on every (re-)register, the stall sweep, the   *)
(* stall watchdog, the reaction poller, and a crash of the process.        *)
(*                                                                         *)
(* An action is the code between two awaits, so the interleavings of this *)
(* module are those of the Node event loop.  A loop is abstracted to the   *)
(* await it is parked at; plans, findings, money and provider calls have   *)
(* modules of their own.  Time is a per-row age counted in ticks; a tick   *)
(* is at least stall_watchdog_seconds and recovery_resume_window_seconds.  *)
(***************************************************************************)
EXTENDS Integers, FiniteSets

CONSTANTS
    Sessions,     \* rows that may be created
    Loops,        \* concurrently live run() invocations (a bound)
    None,         \* "no session" / "no loop"
    StallAge,     \* session_stall_seconds, in ticks
    StuckAge,     \* stuck_loop_seconds, in ticks
    StaleAge,     \* session_hard_timeout_seconds (recovery's cutoff), in ticks
    MaxCycles,    \* cycles of one loop, extensions included (a bound)
    MaxResumes,   \* recovery_max_resumes
    Crashes,      \* may the process die and start again?
    Attended,     \* is anyone at the keyboard to cancel, resume or answer?
    PollerOn      \* is the Slack reaction poller running?

ASSUME AgesAssumption ==
    /\ StallAge \in Nat /\ StuckAge \in Nat /\ StaleAge \in Nat
    /\ StallAge <= StuckAge /\ StuckAge <= StaleAge
ASSUME BoundsAssumption ==
    /\ MaxCycles \in Nat \ {0} /\ MaxResumes \in Nat \ {0}
    /\ Crashes \in BOOLEAN /\ Attended \in BOOLEAN /\ PollerOn \in BOOLEAN
ASSUME NoneAssumption == None \notin Sessions /\ None \notin Loops

VARIABLES
    \* the sessions row
    status,     \* sessions.status ("new": not inserted yet)
    abort,      \* reactions_json.abort
    idle,       \* ticks since updated_at / last_progress_at
    work,       \* what the row records: lead_plan_json, cycles_ran, final_pr_url
    ask,        \* the open question: none, a pause, or a live loop's extension ask
    \* process memory: the registry and the loops
    registry,   \* runningSessions
    watchdog,   \* stallWatchdogs: "off", "set", or "due" after a tick
    loop,       \* each live loop: its session, the await it is at, cycles left
    \* process memory: tool calls in flight and services
    cancelling, \* cancellingSessions
    resuming,   \* harness_resume calls awaiting checkSessionStorage
    answering,  \* harness_answer calls awaiting checkSessionStorage
    recTodo,    \* rows a recovery scan has read and not handled yet
    recWait,    \* recovery relaunches awaiting their Slack reply
    sweepTodo,  \* rows the stall sweep has read and not handled yet
    reaping,    \* session the sweep's finaliser is awaiting on
    bounce,     \* resumeLedger: resumes inside the breaker's window
    \* history, read by properties only
    holder,     \* the loop whose run() made the registration that stands
    stray,      \* the registry dropped an entry under a live loop of this session
    cancelled   \* harness_cancel was accepted, and no poller has erased it since

row      == <<status, abort, idle, work, ask>>
tools    == <<cancelling, resuming, answering>>
services == <<recTodo, recWait, sweepTodo, reaping, bounce>>
vars     == <<row, registry, watchdog, loop, tools, services, holder, stray, cancelled>>

Terminal == {"done", "failed", "aborted"}
Running  == {"planning", "executing", "reviewing"}
Statuses == {"new", "awaiting_clarification", "interrupted", "accounting_incomplete"}
            \cup Running \cup Terminal
Asks     == {"askDispatch", "askDecision", "askRepair"}
Pcs      == {"planning", "planned", "executing", "gated", "working", "reviewing", "shipping",
             "published", "closing", "releasing", "aborting", "salvaging", "failing", "pausing"}
            \cup Asks
Gone     == [sess |-> None, pc |-> "gone", left |-> 0]

Scanned == [sess : Sessions, was : Running, stale : BOOLEAN]
Swept   == [sess : Sessions, was : Running \cup {"awaiting_clarification"}]

TypeOK ==
    /\ status \in [Sessions -> Statuses]
    /\ abort \in [Sessions -> BOOLEAN]
    /\ idle \in [Sessions -> 0..StaleAge + 1]
    /\ work \in [Sessions -> {"none", "planned", "cycled", "published"}]
    /\ ask \in [Sessions -> {"none", "pause", "extension"}]
    /\ registry \subseteq Sessions
    /\ watchdog \in [Sessions -> {"off", "set", "due"}]
    /\ loop \in [Loops -> [sess : Sessions, pc : Pcs, left : 0..MaxCycles] \cup {Gone}]
    /\ cancelling \subseteq Sessions /\ resuming \subseteq Sessions
    /\ answering \subseteq Sessions
    /\ recTodo \subseteq Scanned /\ recWait \subseteq Sessions
    /\ sweepTodo \subseteq Swept /\ reaping \subseteq Sessions
    /\ bounce \in [Sessions -> 0..MaxResumes + 1]
    /\ holder \in [Sessions -> Loops \cup {None}]
    /\ stray \in [Sessions -> BOOLEAN]
    /\ cancelled \in [Sessions -> BOOLEAN]

Live(s) == {l \in Loops : loop[l].sess = s}

Init ==
    /\ status = [s \in Sessions |-> "new"]
    /\ abort = [s \in Sessions |-> FALSE]
    /\ idle = [s \in Sessions |-> 0]
    /\ work = [s \in Sessions |-> "none"]
    /\ ask = [s \in Sessions |-> "none"]
    /\ registry = {}
    /\ watchdog = [s \in Sessions |-> "off"]
    /\ loop = [l \in Loops |-> Gone]
    /\ cancelling = {} /\ resuming = {} /\ answering = {}
    /\ recTodo = {} /\ recWait = {} /\ sweepTodo = {} /\ reaping = {}
    /\ bounce = [s \in Sessions |-> 0]
    /\ holder = [s \in Sessions |-> None]
    /\ stray = [s \in Sessions |-> FALSE]
    /\ cancelled = [s \in Sessions |-> FALSE]

-----------------------------------------------------------------------------
(* Writes to the row and to the registry                                   *)

\* A write of status and updated_at.  An armed watchdog that later finds the
\* row newer does nothing, which is what disarming it here says.
WriteRow(s, st, age) ==
    /\ status' = [status EXCEPT ![s] = st]
    /\ idle' = [idle EXCEPT ![s] = age]

SetStatus(s, st) == WriteRow(s, st, 0) /\ watchdog' = [watchdog EXCEPT ![s] = "off"]

MarkProgress(s) == SetStatus(s, status[s])

\* run(): called when the row reads status st, written age ticks ago.
RunSkipped(s, st, age) ==
    /\ s \in registry /\ age <= StuckAge
    /\ WriteRow(s, st, age)
    /\ watchdog' = [watchdog EXCEPT ![s] = "set"]
    /\ UNCHANGED <<registry, loop, holder, stray>>

\* runInner throws on a terminal row before its first await; run()'s finally
\* then deregisters, whoever's entry that is.
RunRefused(s, st) ==
    /\ st \in Terminal
    /\ SetStatus(s, st)
    /\ registry' = registry \ {s}
    /\ stray' = [stray EXCEPT ![s] = Live(s) # {}]
    /\ holder' = [holder EXCEPT ![s] = None]
    /\ UNCHANGED loop

RunLaunched(s, st) ==
    /\ st \notin Terminal
    /\ \E l \in Loops :
         /\ loop[l] = Gone
         /\ loop' = [loop EXCEPT ![l] = [sess |-> s, pc |-> "planning", left |-> MaxCycles]]
         /\ holder' = [holder EXCEPT ![s] = l]
    /\ SetStatus(s, "planning")
    /\ registry' = registry \cup {s}
    /\ stray' = [stray EXCEPT ![s] = @ \/ s \in registry]

Run(s, st, age) ==
    \/ RunSkipped(s, st, age)
    \/ /\ s \in registry => age > StuckAge
       /\ RunRefused(s, st) \/ RunLaunched(s, st)

\* A mutation: the finally does not deregister.
ExitKeepsEntry(l) ==
    LET s == loop[l].sess IN
    /\ loop' = [loop EXCEPT ![l] = Gone]
    /\ registry' = registry
    /\ holder' = [holder EXCEPT ![s] = IF @ = l THEN None ELSE @]
    /\ stray' = [stray EXCEPT ![s] = Live(s) # {l}]

\* Loop l returns or throws: run()'s finally deregisters the session.
Exit(l) ==
    LET s == loop[l].sess IN
    /\ loop' = [loop EXCEPT ![l] = Gone]
    /\ registry' = registry \ {s}
    /\ holder' = [holder EXCEPT ![s] = IF @ = l THEN None ELSE @]
    /\ stray' = [stray EXCEPT ![s] = Live(s) # {l}]

Goto(l, p) ==
    /\ loop' = [loop EXCEPT ![l].pc = p]
    /\ UNCHANGED <<registry, holder, stray>>

-----------------------------------------------------------------------------
(* One loop, from await to await                                           *)

at(l, p) == loop[l].pc = p

LeadDone(l) ==
    LET s == loop[l].sess IN
    /\ at(l, "planning")
    /\ work' = [work EXCEPT ![s] = IF @ = "none" THEN "planned" ELSE @]
    /\ MarkProgress(s) /\ Goto(l, "planned")
    /\ UNCHANGED <<abort, ask, tools, services, cancelled>>

\* Planning fails, or its policy check pauses for a human.
PlanStops(l) ==
    /\ \/ loop[l].pc \in {"planning", "planned"} /\ Goto(l, "failing")
       \/ at(l, "planned") /\ Goto(l, "pausing")
    /\ UNCHANGED <<row, watchdog, tools, services, cancelled>>

\* The bound of the cycle loop is checked where a loop is sent back to "planned".
CycleStart(l) ==
    LET s == loop[l].sess IN
    /\ at(l, "planned")
    /\ loop' = [loop EXCEPT ![l].pc = "executing", ![l].left = @ - 1]
    /\ work' = [work EXCEPT ![s] = IF @ = "published" THEN @ ELSE "cycled"]
    /\ SetStatus(s, "executing")
    /\ UNCHANGED <<abort, ask, registry, holder, stray, tools, services, cancelled>>

\* A mutation: the reactions are not read at the gate.
GateUnread(l) ==
    /\ at(l, "executing")
    /\ MarkProgress(loop[l].sess) /\ Goto(l, "gated")
    /\ UNCHANGED <<abort, work, ask, tools, services, cancelled>>

\* A sub-task's gate re-reads the reactions; nothing after it does.
Gate(l) ==
    /\ at(l, "executing") /\ ~abort[loop[l].sess]
    /\ MarkProgress(loop[l].sess) /\ Goto(l, "gated")
    /\ UNCHANGED <<abort, work, ask, tools, services, cancelled>>

\* Its turn is bought after the worktree's HEAD has been awaited, unless policy
\* denies a path it must write or the sub-task's deadline passes first.
Dispatch(l) ==
    /\ at(l, "gated")
    /\ \E p \in {"working", "pausing", "failing"} : Goto(l, p)
    /\ UNCHANGED <<row, watchdog, tools, services, cancelled>>

\* A timed-out, refused or empty turn of the sub-task is bought again at once.
Retry(l) ==
    /\ at(l, "working")
    /\ MarkProgress(loop[l].sess)
    /\ UNCHANGED <<abort, work, ask, registry, loop, holder, stray, tools, services, cancelled>>

StopOnAbort(l) ==
    /\ at(l, "executing") /\ abort[loop[l].sess]
    /\ Goto(l, "aborting")
    /\ UNCHANGED <<row, watchdog, tools, services, cancelled>>

StopOnLimit(l) ==
    /\ at(l, "executing") /\ ~abort[loop[l].sess]
    /\ Goto(l, "salvaging")
    /\ UNCHANGED <<row, watchdog, tools, services, cancelled>>

WorkDone(l) ==
    /\ at(l, "working")
    /\ MarkProgress(loop[l].sess)
    /\ \E p \in {"executing", "failing", "pausing"} : Goto(l, p)
    /\ UNCHANGED <<abort, work, ask, tools, services, cancelled>>

ToReview(l) ==
    /\ at(l, "executing")
    /\ SetStatus(loop[l].sess, "reviewing") /\ Goto(l, "reviewing")
    /\ UNCHANGED <<abort, work, ask, tools, services, cancelled>>

\* The review is in; the reactions are read again; advance() decides.
Decide(l) ==
    LET again == IF loop[l].left > 0 THEN {"planned"} ELSE {} IN
    /\ at(l, "reviewing")
    /\ \E p \in IF abort[loop[l].sess] THEN {"aborting"}
                ELSE again \cup {"shipping", "failing", "salvaging"} : Goto(l, p)
    /\ MarkProgress(loop[l].sess)
    /\ UNCHANGED <<abort, work, ask, tools, services, cancelled>>

\* askForTimeExtension / askForBudgetExtension: the loop stays alive and polls.
Ask(l) ==
    LET s == loop[l].sess IN
    /\ \/ at(l, "executing") /\ ~abort[s] /\ Goto(l, "askDispatch")
       \/ at(l, "reviewing") /\ ~abort[s] /\ Goto(l, "askDecision")
       \/ at(l, "published") /\ Goto(l, "askRepair")
    /\ SetStatus(s, "awaiting_clarification")
    /\ ask' = [ask EXCEPT ![s] = "extension"]
    /\ UNCHANGED <<abort, work, tools, services, cancelled>>

\* Granted, refused, timed out, or stopped polling because of an abort.  An answer
\* is read before the abort flag, and what led to the question is not redone: a
\* granted sub-task is past its gate.
AskEnds(l) ==
    LET s == loop[l].sess
        again == IF loop[l].left > 0 THEN {"planned"} ELSE {}
        resumed == IF at(l, "askDecision") THEN "reviewing" ELSE "executing" IN
    /\ loop[l].pc \in Asks
    /\ \E p \in CASE at(l, "askDispatch") -> {"gated", "salvaging"}
                  [] at(l, "askDecision") -> again \cup {"shipping", "salvaging"}
                  [] at(l, "askRepair")   -> again \cup {"closing"} : Goto(l, p)
    /\ ask' = [ask EXCEPT ![s] = "none"]
    /\ SetStatus(s, resumed)
    /\ UNCHANGED <<abort, work, tools, services, cancelled>>

Publish(l) ==
    LET s == loop[l].sess IN
    /\ at(l, "shipping")
    /\ \/ Goto(l, "failing") /\ UNCHANGED <<row, watchdog>>
       \/ /\ Goto(l, "published")
          /\ work' = [work EXCEPT ![s] = "published"]
          /\ SetStatus(s, "reviewing")
          /\ UNCHANGED <<abort, ask>>
    /\ UNCHANGED <<tools, services, cancelled>>

CiRepair(l) ==
    /\ at(l, "published") /\ loop[l].left > 0
    /\ Goto(l, "planned")
    /\ UNCHANGED <<row, watchdog, tools, services, cancelled>>

Ship(l) ==
    /\ loop[l].pc \in {"published", "closing"}
    /\ SetStatus(loop[l].sess, "done") /\ Goto(l, "releasing")
    /\ UNCHANGED <<abort, work, ask, tools, services, cancelled>>

\* The finalisers write the row unconditionally when their awaits settle.
Finalise(l) ==
    LET s == loop[l].sess
        outcome == CASE at(l, "aborting")  -> {"aborted"}
                     [] at(l, "salvaging") -> {"aborted", "done"}
                     [] at(l, "failing")   -> {"failed"}
                     [] at(l, "pausing")   -> {"awaiting_clarification"}
                     [] OTHER -> {} IN
    /\ \E st \in outcome : SetStatus(s, st)
    /\ ask' = [ask EXCEPT ![s] = IF at(l, "pausing") THEN "pause" ELSE @]
    /\ Exit(l)
    /\ UNCHANGED <<abort, work, tools, services, cancelled>>

Released(l) ==
    /\ at(l, "releasing")
    /\ Exit(l)
    /\ watchdog' = [watchdog EXCEPT ![loop[l].sess] = "off"]
    /\ UNCHANGED <<row, tools, services, cancelled>>

\* A paid call whose cost is unknown: the loop returns without a finaliser.
AccountingLost(l) ==
    /\ loop[l].pc \in {"planning", "working", "reviewing"}
    /\ SetStatus(loop[l].sess, "accounting_incomplete")
    /\ Exit(l)
    /\ UNCHANGED <<abort, work, ask, tools, services, cancelled>>

\* Anything else that throws out of runInner.
LoopThrow(l) ==
    /\ loop[l] # Gone
    /\ Exit(l)
    /\ watchdog' = [watchdog EXCEPT ![loop[l].sess] = "off"]
    /\ UNCHANGED <<row, tools, services, cancelled>>

Advance(l) ==
    \/ LeadDone(l) \/ PlanStops(l) \/ CycleStart(l) \/ Gate(l) \/ Dispatch(l)
    \/ StopOnAbort(l) \/ StopOnLimit(l) \/ WorkDone(l) \/ ToReview(l) \/ Decide(l) \/ Ask(l) \/ AskEnds(l)
    \/ Publish(l) \/ CiRepair(l) \/ Ship(l) \/ Finalise(l) \/ Released(l)
LoopStep(l) == Advance(l) \/ Retry(l) \/ AccountingLost(l) \/ LoopThrow(l)

-----------------------------------------------------------------------------
(* Tools                                                                   *)

\* harness_run inserts the row: planning at once, or behind a brief confirmation.
Start(s) ==
    /\ status[s] = "new"
    /\ \/ Run(s, "planning", 0) /\ UNCHANGED ask
       \/ /\ SetStatus(s, "awaiting_clarification")
          /\ ask' = [ask EXCEPT ![s] = "pause"]
          /\ UNCHANGED <<registry, loop, holder, stray>>
    /\ UNCHANGED <<abort, work, tools, services, cancelled>>

\* cancelSession() up to its first await.
Cancellable(s) == status[s] \notin Terminal \cup {"new"} /\ s \notin cancelling

CancelSession(s) ==
    /\ abort' = [abort EXCEPT ![s] = TRUE]
    /\ MarkProgress(s)
    /\ \/ /\ s \in registry
          /\ UNCHANGED <<cancelling, ask>>
       \/ /\ s \notin registry
          /\ cancelling' = cancelling \cup {s}
          /\ ask' = [ask EXCEPT ![s] = IF status[s] = "awaiting_clarification" THEN "none" ELSE @]
    /\ UNCHANGED <<work, registry, loop, holder, stray, resuming, answering>>

CancelRequest(s) ==
    /\ Attended /\ Cancellable(s) /\ CancelSession(s)
    /\ cancelled' = [cancelled EXCEPT ![s] = TRUE]
    /\ UNCHANGED services

CancelFinish(s) ==
    /\ s \in cancelling
    /\ cancelling' = cancelling \ {s}
    /\ SetStatus(s, "aborted")
    /\ UNCHANGED <<abort, work, ask, registry, loop, holder, stray, resuming, answering,
                   services, cancelled>>

\* harness_resume up to its await; force lets it through for a running status.
ResumeRequest(s) ==
    /\ Attended
    /\ status[s] = "interrupted" \/ (status[s] \in Running /\ s \notin registry)
    /\ ask[s] = "none"
    /\ s \notin resuming
    /\ resuming' = resuming \cup {s}
    /\ UNCHANGED <<row, registry, watchdog, loop, cancelling, answering, services,
                   holder, stray, cancelled>>

ResumeRefused(s) ==
    /\ s \in resuming
    /\ resuming' = resuming \ {s}
    /\ UNCHANGED <<row, registry, watchdog, loop, cancelling, answering, services,
                   holder, stray, cancelled>>

\* ... and after it: the row is not read again.
ResumeRun(s) ==
    /\ s \in resuming
    /\ resuming' = resuming \ {s}
    /\ Run(s, "planning", 0)
    /\ UNCHANGED <<abort, work, ask, cancelling, answering, services, cancelled>>

\* harness_answer on a pause, up to its await ...
AnswerRequest(s) ==
    /\ Attended
    /\ status[s] = "awaiting_clarification" /\ ask[s] = "pause"
    /\ s \notin answering
    /\ answering' = answering \cup {s}
    /\ UNCHANGED <<row, registry, watchdog, loop, cancelling, resuming, services,
                   holder, stray, cancelled>>

\* ... and after it: the claim is a compare-and-set on the status.
AnswerClaim(s) ==
    /\ s \in answering
    /\ answering' = answering \ {s}
    /\ IF status[s] = "awaiting_clarification"
         THEN /\ ask' = [ask EXCEPT ![s] = "none"]
              /\ \/ Run(s, "planning", 0)
                 \/ /\ SetStatus(s, "aborted")          \* the answer was "abort"
                    /\ UNCHANGED <<registry, loop, holder, stray>>
         ELSE UNCHANGED <<status, idle, ask, registry, watchdog, loop, holder, stray>>
    /\ UNCHANGED <<abort, work, cancelling, resuming, services, cancelled>>

\* harness_answer on an extension ask nobody is polling any more.
ListenerLost(s) ==
    /\ status[s] = "awaiting_clarification" /\ ask[s] = "extension"
    /\ \A l \in Live(s) : loop[l].pc \notin Asks
    /\ SetStatus(s, IF work[s] = "published" THEN "done" ELSE "aborted")
    /\ ask' = [ask EXCEPT ![s] = "none"]
    /\ UNCHANGED <<abort, work, registry, loop, holder, stray, tools, services, cancelled>>

-----------------------------------------------------------------------------
(* Recovery: a scan at every bootstrap and every plugin re-register         *)

Snapshot ==
    {[sess |-> s, was |-> status[s], stale |-> idle[s] > StaleAge] :
        s \in {x \in Sessions : status[x] \in Running}}

\* What becomes of a scanned row: it is judged by what the scan read (was,
\* stale) and by columns read now; ledger counts the resumes of the window.
Verdict(r, ledger) ==
    CASE r.stale -> "interrupted"
      [] ~r.stale /\ ledger[r.sess] + 1 > MaxResumes -> "failed"
      [] OTHER -> CASE r.was = "executing" /\ work[r.sess] # "none" -> "failed"
                    [] r.was # "executing" /\ work[r.sess] = "cycled" -> "failed"
                    [] r.was # "executing" /\ work[r.sess] = "published" -> "done"
                    [] OTHER -> "planning"

\* Handling one scanned row, up to the await that follows it.
Recover(r, ledger) ==
    LET verdict == Verdict(r, ledger) IN
    /\ WriteRow(r.sess, verdict, 0)
    /\ bounce' = IF r.stale \/ ledger[r.sess] + 1 > MaxResumes
                   THEN ledger ELSE [ledger EXCEPT ![r.sess] = @ + 1]
    /\ recWait' = IF verdict = "planning" THEN {r.sess} ELSE {}

\* A scan walks its rows without yielding until one of them makes it await;
\* rows of registered sessions are skipped, unless they are stale.
RecoveryWalk(todo) ==
    /\ \E skipped \in SUBSET {r \in todo : ~r.stale /\ r.sess \in registry} :
         \/ /\ skipped = todo /\ recTodo' = {}
            /\ UNCHANGED <<status, idle, watchdog, bounce, recWait>>
         \/ \E r \in todo \ skipped :
              /\ r.stale \/ r.sess \notin registry
              /\ Recover(r, bounce)
              /\ watchdog' = [watchdog EXCEPT ![r.sess] = "off"]
              /\ recTodo' = todo \ (skipped \cup {r})
    /\ UNCHANGED <<abort, work, ask, registry, loop, tools, sweepTodo, reaping,
                   holder, stray, cancelled>>

\* A re-register scans; after an await a scan goes on with the rows it read.
Recovery ==
    LET todo == IF recTodo = {} THEN Snapshot ELSE recTodo
    IN recWait = {} /\ todo # {} /\ RecoveryWalk(todo)

RecoveryNext == recTodo # {} /\ Recovery

\* The Slack reply settled; the row is not read again before run().
RecoveryLaunch(s) ==
    /\ s \in recWait
    /\ recWait' = recWait \ {s}
    /\ Run(s, status[s], idle[s])
    /\ UNCHANGED <<abort, work, ask, tools, recTodo, sweepTodo, reaping, bounce,
                   cancelled>>

NoTimers  == [s \in Sessions |-> "off"]
NoResumes == [s \in Sessions |-> 0]

\* The process dies and starts again: memory is lost, the table stays, and the
\* boot scan handles its first row before anything else runs.
Restart ==
    /\ Crashes
    /\ registry' = {} /\ loop' = [l \in Loops |-> Gone]
    /\ cancelling' = {} /\ resuming' = {} /\ answering' = {}
    /\ sweepTodo' = {} /\ reaping' = {}
    /\ \/ /\ Snapshot = {} /\ recTodo' = {} /\ recWait' = {}
          /\ watchdog' = NoTimers /\ bounce' = NoResumes
          /\ UNCHANGED <<status, idle>>
       \/ \E r \in Snapshot :
            /\ watchdog' = NoTimers
            /\ Recover(r, NoResumes)
            /\ recTodo' = Snapshot \ {r}
    /\ holder' = [s \in Sessions |-> None]
    /\ stray' = [s \in Sessions |-> FALSE]
    /\ UNCHANGED <<abort, work, ask, cancelled>>

-----------------------------------------------------------------------------
(* Timers                                                                  *)

\* A mutation: only executing sessions are examined.
SweepRetickExecuting(s) ==
    /\ sweepTodo = {} /\ reaping = {}
    /\ status[s] = "executing" /\ idle[s] > StallAge
    /\ s \notin registry
    /\ Run(s, "planning", 0)
    /\ UNCHANGED <<abort, work, ask, tools, services, cancelled>>

\* checkStalls(): re-drive a silent session whose loop is not registered.
SweepRetick(s) ==
    /\ sweepTodo = {} /\ reaping = {}
    /\ status[s] \in {"executing", "reviewing"} /\ idle[s] > StallAge
    /\ s \notin registry
    /\ Run(s, "planning", 0)
    /\ UNCHANGED <<abort, work, ask, tools, services, cancelled>>

\* A mutation: a paused session is not swept.
AbandonedRunning ==
    {[sess |-> s, was |-> status[s]] :
        s \in {x \in Sessions : status[x] \in Running /\ abort[x] /\ x \notin registry}}

\* The sweep's second half: cancelled sessions nobody drives.
Abandoned ==
    {[sess |-> s, was |-> status[s]] :
        s \in {x \in Sessions : /\ status[x] \in Running \cup {"awaiting_clarification"}
                                /\ abort[x] /\ x \notin registry}}

Reap(x) ==
    \/ /\ x.was = "awaiting_clarification"
       /\ IF Cancellable(x.sess)
            THEN CancelSession(x.sess)
            ELSE UNCHANGED <<row, registry, watchdog, loop, tools, holder, stray>>
       /\ UNCHANGED reaping
    \/ /\ x.was # "awaiting_clarification"
       /\ reaping' = {x.sess}
       /\ UNCHANGED <<row, registry, watchdog, loop, tools, holder, stray>>

SweepWalk(todo) ==
    /\ reaping = {}
    /\ \E x \in todo : Reap(x) /\ sweepTodo' = todo \ {x}
    /\ UNCHANGED <<recTodo, recWait, bounce, cancelled>>

\* The walk in progress goes on, or a new one begins.
Sweep == SweepWalk(IF sweepTodo = {} THEN Abandoned ELSE sweepTodo)

\* finaliseFailedPreserveWorktree on behalf of a dead loop.
ReapFinish(s) ==
    /\ s \in reaping
    /\ reaping' = {}
    /\ SetStatus(s, "failed")
    /\ UNCHANGED <<abort, work, ask, registry, loop, tools, recTodo, recWait, sweepTodo, bounce,
                   holder, stray, cancelled>>

\* No progress since a skipped re-entry: the entry is dropped, loop or no loop.
WatchdogFires(s) ==
    /\ watchdog[s] = "due"
    /\ watchdog' = [watchdog EXCEPT ![s] = "off"]
    /\ registry' = registry \ {s}
    /\ IF s \in registry
         THEN /\ stray' = [stray EXCEPT ![s] = Live(s) # {}]
              /\ holder' = [holder EXCEPT ![s] = None]
         ELSE UNCHANGED <<stray, holder>>
    /\ UNCHANGED <<row, loop, tools, services, cancelled>>

\* The poller overwrites the whole reactions blob with what Slack shows: a cancel
\* that is not also a reaction there is erased.
PollReactions(s) ==
    /\ PollerOn /\ status[s] \in Running
    /\ \E seen \in BOOLEAN :
        /\ abort' = [abort EXCEPT ![s] = seen]
        /\ cancelled' = [cancelled EXCEPT ![s] = @ /\ seen]
    /\ MarkProgress(s)
    /\ UNCHANGED <<work, ask, registry, loop, tools, services, holder, stray>>

Tick ==
    /\ \E s \in Sessions : status[s] \notin {"new"} /\ idle[s] <= StaleAge
    /\ idle' = [s \in Sessions |-> IF status[s] = "new" \/ idle[s] > StaleAge
                                     THEN idle[s] ELSE idle[s] + 1]
    /\ watchdog' = [s \in Sessions |-> IF watchdog[s] = "set" THEN "due" ELSE watchdog[s]]
    /\ bounce' = [s \in Sessions |-> 0]
    /\ UNCHANGED <<status, abort, work, ask, registry, loop, tools, recTodo, recWait,
                   sweepTodo, reaping, holder, stray, cancelled>>

-----------------------------------------------------------------------------
Tool(s) ==
    \/ Start(s) \/ CancelRequest(s) \/ CancelFinish(s)
    \/ ResumeRequest(s) \/ ResumeRefused(s) \/ ResumeRun(s)
    \/ AnswerRequest(s) \/ AnswerClaim(s) \/ ListenerLost(s)

Service(s) ==
    \/ RecoveryLaunch(s) \/ SweepRetick(s) \/ ReapFinish(s)
    \/ WatchdogFires(s) \/ PollReactions(s)

Next ==
    \/ \E l \in Loops : LoopStep(l)
    \/ \E s \in Sessions : Tool(s) \/ Service(s)
    \/ Recovery \/ Sweep \/ Restart \/ Tick

Spec == Init /\ [][Next]_vars

\* In this step nothing crashes or throws and no operator resumes, answers or reacts.
Undisturbed ==
    /\ ~Restart /\ \A l \in Loops : ~LoopThrow(l)
    /\ \A s \in Sessions : ~ResumeRequest(s) /\ ~AnswerRequest(s) /\ ~PollReactions(s)

\* Every await settles (a wedged loop is explored by Spec, not here), a cycle
\* has finitely many sub-tasks, timers and started tool calls go on, and disturbances
\* do not go on for ever.
Fairness ==
    /\ \A l \in Loops : WF_vars(Advance(l)) /\ SF_vars(ToReview(l))
    /\ \A s \in Sessions :
         /\ WF_vars(CancelFinish(s)) /\ WF_vars(AnswerClaim(s))
         /\ WF_vars(ResumeRun(s) \/ ResumeRefused(s))
         /\ WF_vars(RecoveryLaunch(s)) /\ WF_vars(SweepRetick(s)) /\ WF_vars(ReapFinish(s))
         /\ WF_vars(WatchdogFires(s))
    /\ WF_vars(RecoveryNext) /\ WF_vars(Sweep) /\ WF_vars(Tick)
    /\ <>[][Undisturbed]_vars

FairSpec == Spec /\ Fairness

-----------------------------------------------------------------------------
(* Properties                                                              *)

\* As long as the registry never dropped an entry under a live loop (which only
\* the stall watchdog and the stuck-loop reclaim do), it is exact: a session in
\* it is driven by exactly the loop that registered, any other by none.  So no
\* interleaving of tools, recovery, sweep and restarts starts a second loop.
SoleLoop == \A s \in Sessions :
    ~stray[s] => Live(s) = IF s \in registry THEN {holder[s]} ELSE {}

\* Past its gate and not bought yet: the one sub-task such a loop still starts.
Owed(s) == {l \in Live(s) : loop[l].pc \in {"askDispatch", "gated"}}

\* A cancel is overrun by what it found past the gate and by nothing else: once it
\* has been accepted no loop of the session, old or relaunched, comes to owe a
\* sub-task, and only an owed one is started, unless the poller erases the cancel.
CancelBoundsOverrun ==
    [][/\ \A s \in Sessions : cancelled[s] => Owed(s)' \subseteq Owed(s)
       /\ \A l \in Loops : loop[l].pc # "working" /\ loop'[l].pc = "working" =>
              l \in Owed(loop[l].sess)]_vars

\* An accepted cancel is honoured, unless the poller erases it: the session reaches
\* a terminal status, or stops spending where only an operator can restart it.
CancelHonoured == \A s \in Sessions :
    cancelled[s] ~> \/ status[s] \in Terminal \cup {"interrupted", "accounting_incomplete"}
                    \/ ~cancelled[s]

\* A session left executing or reviewing by a loop that died silently is taken
\* up again, or settled, without an operator.
DeadLoopRedriven == \A s \in Sessions :
    (status[s] \in {"executing", "reviewing"} /\ Live(s) = {})
        ~> (Live(s) # {} \/ status[s] \notin {"executing", "reviewing"})

\* An :x: reaction on a session whose loop is gone is not lost: the session is
\* settled or driven again (and then stopped), unless the reaction is withdrawn.
AbortedRowSettled == \A s \in Sessions :
    (status[s] \in Running /\ abort[s] /\ Live(s) = {})
        ~> (status[s] \notin Running \/ Live(s) # {} \/ ~abort[s])

-----------------------------------------------------------------------------
(* What docs and comments claim, and TLC refutes (README, section 14)      *)

\* loop.ts:408 "within one process lifetime it tracks every live loop": the
\* latest registration stays in the set while nobody declared its loop dead.
LatestLoopTracked == \A s \in Sessions : holder[s] # None => s \in registry

\* loop.ts:413 "The statuses from which a session never moves again."
TerminalIsFinal ==
    [][\A s \in Sessions : status[s] \in Terminal => status'[s] = status[s]]_vars
=============================================================================
