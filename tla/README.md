# A TLA+ model of openclaw-agent-harness

The harness is an OpenClaw plugin (TypeScript, `src/src/`) that turns a request in a chat
thread into a pull request. A session is planned by a *lead*, its sub-tasks are executed by
*workers* in a git worktree, each cycle is reviewed by an *adversary*, and the loop decides to
run another cycle, to ship, to ask a human or to fail. One Node process hosts many sessions; a
SQLite database keeps them; providers, git, GitHub and Slack are reached by asynchronous calls.

Paths below are relative to the repository; `loop.ts` is `src/src/orchestrator/loop.ts`.

## 1. Inventory

| Part | State it keeps | Operations | Talks to | Module |
|---|---|---|---|---|
| Session ownership (`loop.ts`, `tools/registration.ts`, `state/recovery.ts`) | `sessions.status`; module-scoped `runningSessions`, `cancellingSessions`, `stallWatchdogs`, `resumeLedger` | `run`, `harness_cancel`, `_resume`, `_answer`, recovery scan, `checkStalls`, `sweepStalls` | loop, store, Slack | `SessionOwnership` |
| Orchestration cycle (`loop.ts`) | the locals of `runInner` | plan, execute, review, `advance`, ship, finalise | everything below | `SessionCycle`, `SessionRun` |
| Sub-task execution (`loop.ts`) | `sub_tasks`, the driver's sets, an abandoned promise | dispatch, retry, timeout, deadline, ask, continue | worker, verifier, human | `SubTasks` |
| Plan contracts (`observe-contract.ts`, `verify-*.ts`, `loop.ts`) | `lead_plan_json` with its revision, `observe_reports`, the branch | bind, correct, verify, rescue, settle, accept | worker, git | `Contracts` |
| Accounting (`loop.ts`) | `provider_calls`, `provider_session_usage`, `sessions.cost_usd`, budget tables | begin, settle with spend, settle unknown | provider | `ProviderCalls` |
| Agent turns (`adapters/acp.ts`, `claude-code.ts`, `shared/structured.ts`, `worker.ts`) | child processes, watchdogs, cost baselines | spawn, resume, stream, cut, read back, commit | provider, git | `AgentTurns` |
| Budgets and extensions (`budgets/`, `active-deadline.ts`, `loop.ts`) | clock and grant columns | caps, headroom, asks, grants | human | `Questions`, `SessionCycle` |
| Clarification and briefs (`registration.ts`, `human-answer*.ts`, `confirmation-*.ts`) | the question's columns, `human_answer_challenges`, amendments | ask, review, claim, release, resume | human, agent | `Questions` |
| Findings (`finding-*.ts`, `revise-*.ts`, `adversary.ts`, gates) | `findings`, grants in the plan | reconcile, route, scope, gate, merge verdicts | adversary | `Findings` |
| Publication (`publication.ts`, `loop.ts`) | remote branch, evidence columns, the wait's memory | push, open, verify, preview, poll CI, repair, salvage | GitHub, Vercel | `Publication` |
| Merging (`index.ts`, `deploy-repair.ts`, `pr-link.ts`, `github-watcher.ts`) | pull request columns | `harness_merge_pr`, `harness_link_pr`, watcher | GitHub, Vercel | `Merging` |
| Storage (`git-worktree.ts`, `state/`) | bare clone, worktrees, rescue refs, bundles | allocate, checkpoint, restore, heal, reconcile | disk, git | `Storage` |
| Teardown (`index.ts`, `state/teardown-drain.ts`) | the database handle | drain, re-register | loop | - |
| Slack, credentials, policy, configuration | polls, tokens, none | post, resolve, match, parse | human, network | - |

Interaction is of three kinds. *Shared rows*: every part reads and writes `sessions`, each
statement atomic, nothing held across an `await` except by compare-and-set. *Process memory*: the
registry and the watchdogs, lost in a crash, shared by all re-registered runtimes of one process.
*Abandoned promises*: a timeout is `Promise.race`; the loser keeps running and keeps its
continuation.

What is hard: eleven writers of one row; awaits between a check and its use; timeouts that cancel
nothing; crashes between statements; a process-local lock with two mechanisms that break it; a
plan kept in three copies; commits kept in five places; a remote that somebody else pushes to.

What makes each part correct: one live loop per session; a cancel that is never lost; a dead
session taken up again; one paid turn at a time; no dollar off the books; a review of accepted
work only; a consumer that starts with what its probe found; an answer that reaches its asker and
lands on the question that was read; a live finding that is somebody's to fix; a worktree
released only for published commits; no recorded commit lost; a phase, call and question that end.

## 2. Plan

Each line is a module with its abstract promise in brackets; those up to 12 are built.

1. `SessionOwnership` [one driver per session, cancel and redrive]
2. `ProviderCalls` [a ledger that never loses a turn]
3. `SessionCycle`, which implements `SessionRun` [cycles begin against an allowance that only
   grants raise]
4. `SubTasks` [only accepted work is reviewed, an answer reaches its asker]
5. `Contracts` [what was asked for is there, what was found is handed on]
6. `Questions` [an answer lands on what was read, the clock stops for humans]
7. `AgentTurns` [a cut turn answers nothing, no session is billed twice]
8. `Findings` [no live finding is nobody's, no merge overlooks a live defect]
9. `Publication` [nothing unpublished is released, "merge" is sound]
10. `Merging` [what is reported reverted is reverted, a link is true]
11. `Storage` [recorded commits survive]
12. A pass over the hazards of the built modules: done, section 14.
13. Proofs (section 15): done for 1 to 11: every safety invariant and action property of the runs.
14. `TeardownDrain`: the drain's deadline and marker, composed with the registry of 1.
15. `ResumeBreaker`: the ledger in memory against a loop of crashes.

The modules meet at shared columns: `SessionOwnership` takes a pause and its answer as one
status, which `Questions` refines to a receipt and a claim, and `SubTasks` and `Contracts` to what
it does to the rows and to the plan; `SessionCycle` takes a review, a publication and a question
as one answer each, which `Findings`, `Publication` and `Questions` open up; `Storage` has the
sessions of `SessionOwnership` as four stages of a loop. A module that composed two of them
would exceed what TLC explores, so what one assumes of another is named in its section.

Where a property can be violated only by several actors it is checked over fault models: crashes
(1, 2, 4, 6, 10, 11), timeouts that abandon (2, 4, 7), lost responses (9, 10), a late or dying
process (7), a foreign writer (9), a lost volume (11), a refused or failing write (2, 8).

## 3. SessionOwnership

An action is the code between two awaits. A loop is the await it is parked at (`pc`), so every
interleaving the event loop allows is explored; what a step computes is a choice.

| Model | Code |
|---|---|
| `status`, `idle` | `sessions.status`; ticks since `updated_at` / `last_progress_at` |
| `abort` | `reactions_json.abort` |
| `registry`, `watchdog`, `cancelling` | `runningSessions`, `stallWatchdogs`, `cancellingSessions` |
| `Run`, `RunSkipped`, `RunLaunched`, `Exit` | `run()` and its `finally` |
| `LeadDone` ... `Released` | `runInner`: planning, dispatch, review, decide, publish, CI repair, ship |
| `Gate`, `Dispatch`, `Retry` | `runOneInner`: the abort read, the turn bought awaits later, bought again |
| `CancelRequest`, `CancelFinish` | `harness_cancel`, `cancelSession` either side of its await |
| `ResumeRequest`, `ResumeRun` / `AnswerRequest`, `AnswerClaim` | the tools, either side of `checkSessionStorage` |
| `Recovery`, `RecoveryLaunch` | the scan and its walk over rows read earlier, the relaunch |
| `SweepRetick`, `Sweep`, `ReapFinish` | `checkStalls`, `sweepStalls` and its finaliser |
| `WatchdogFires` | `armStallWatchdog` |
| `PollReactions` | `pollOnce`'s write-back |
| `Restart` | a crash: memory lost, the row kept |

`holder`, `stray` and `cancelled` are history: properties read them, no guard does.

A cancel does not stop the sub-task it arrives in. The abort flag is read at the sub-task's gate
(loop.ts:4110) and not again before its turn is bought: a budget question, two reads of the
worktree's HEAD and every retry lie behind that read, and the question's poll takes an answer
before it looks at the flag. So `CancelBoundsOverrun` does not say "no dispatch after a cancel",
which is false; it says which: what was past the gate when the cancel was accepted (`Owed`), once
per loop, and nothing a later cycle, re-drive or relaunch adds. A run abandoned at the sub-task's
deadline, which may still buy its turn, is `SubTasks`' and `ProviderCalls`' business.

Bounds. `Loops` bounds concurrent `run()` invocations (two are enough for a doubled loop, and a
displaced one plus its successor); `MaxCycles`; `Crashes`, `Attended` and `PollerOn` say which
disturbances a run explores; one scan at a time, with at most
one relaunch of a session awaiting its Slack reply; ages saturate above `StaleAge`. A tick is at
least the watchdog and the breaker window, so a set watchdog is due after one tick and the ledger
is empty after one. The poller's selection and read are one step. `CHECK_DEADLOCK FALSE`: a
system whose sessions are all settled, with its bounds used up, stops.

| Run | Shows |
|---|---|
| `ownership_safety` | two concurrent loops of a session: the registry is exact until a watchdog or the stuck-loop reclaim drops a live loop's entry |
| `ownership_settles` | with the poller, crashes and throws: an accepted cancel is overrun by the sub-task past its gate at most, and settles the session; a session left executing or reviewing without a loop is taken up or settled |

`ownership_safety` has two loops of one cycle, because one loop cannot be doubled;
`ownership_settles` has one loop of two cycles (the second is a revision or a CI repair), and there a
row is stalled, stuck and stale at the same tick, which `ownership_safety` keeps apart. The poller
writes back what it read before its await and can so erase a cancel; the history variable
`cancelled` then forgets it, for `CancelHonoured` is about a cancel that stands.

The runs have one session: two exceed what can be explored in minutes, so the walk of a recovery
scan or a sweep over several rows is covered by the proof of `SoleLoop` (any number of sessions),
and the other properties are shown of one row at a time.

Fairness (`FairSpec`). Weak fairness of every loop step, because promises settle and the event
loop runs their continuations; strong fairness of reaching the review gate, because a cycle has
finitely many sub-tasks; weak fairness of timers (sweep, watchdog, ticks) and of tool calls once
started. Operators, reactions and throwing loops are assumed to stop disturbing at some point
(`<>[][Undisturbed]_vars`), otherwise they can keep a session moving for ever. A wedged await is
explored by the safety runs, which assume no fairness. A session whose loop threw while
`planning` is outside `DeadLoopRedriven`: only the next re-register takes it up.

## 4. ProviderCalls

A *flow* is one activation of the dispatching code, a *turn* is the provider's work, a *row* is
its record; each has its own lifetime, because timeouts abandon promises and a sub-task past its
deadline lives on as a zombie. `BeginProviderCall` is the transaction that reads the fence and
inserts the row; `Charge` the one that settles row, checkpoint, session and ledgers; `SettleUnknown`
the settlement of a call without a usable cost; `MarkIncomplete` the best-effort status write
beside it. `InnerTimeout` (lead and adversary, inside the accounted call), `WorkerTimeout` (first
turn, raced from outside), `RetryTimeout` (protocol and observe retries) and `SubTaskDeadline`
are the four ways of giving up. `Crash` detaches every turn. `WritesFail` lets any transaction
roll back.

Abstractions. One row of a session is unresolved at a time, so the key of a row (cycle, sequence,
attempt) is not needed; a checkpoint belongs to the call that opened the provider session;
`spent` is the daily and monthly rows of one user; a planner's several turns are one row; sub-task
deadline and the finaliser behind it are one step. Three calls are a turn, its resumption and one
more after either; two flows are a loop and its zombie or successor; costs 0 and 1 tell a free turn from a paid one.

What is booked is what an adapter reported (`Reports`): a cost, the provider session it ran on and
the baseline it was read against. Only a worker of the ACP backend has a meter; a turn priced by its
tokens, an SDK turn or one that threw with a cost charges the ledgers and leaves the checkpoint where
it is, so the meter then runs ahead of the books. `base` is the checkpoint read at dispatch
(index.ts:1279); a `session/load` that is refused moves the turn to a session of its own and keeps
that baseline, and where none is stored the agent's replayed figure stands in. `said` is the history
of what was reported, not of what the provider charges: a turn cut by a watchdog is booked at what it
had streamed, and a planner that fails at what its measured turns cost (section 14).
`ReportedSpendIsBooked` and `MeterBookedOnce` are about the books; what they miss of the provider's
own bill is `AgentTurns!BilledNeverExceedsCharged` and `DeltaIsReal`. A lead differs from an adversary
in nothing this module tells apart, so `calls_safety` has workers and adversaries. No fairness is
assumed: all properties are safety.

## 5. SessionCycle

One session from its approved plan to its end, as `runInner` drives it, with nothing concurrent
but the clock: what is hard here is the number of ways through. `pc` is the place in `runInner`
(`bound` is the head of `while`, `gate` the daily-cap, ledger and no-change checks before the
review, `shipping` the head of the ship attempts). A review is reduced to what decisions read:
verdict, number of findings worth a cycle, and whether one only says that something could not be
verified (`env`). The clock has three regimes (`shouldReserveTimeToShip`); money enters as the
answers of the cap checks.

| Model | Code |
|---|---|
| `CycleHead`, `Commit`, `SubTasksDone`, `SubTaskStops`, `DailyCap` | the head of `while`, execution and its exits |
| `NoChange`, `Review`, `ReviewCrash`, `ReviewDiscarded`, `RuntimeReview`, ... | gate, review, preview verification |
| `Advance`, `Act`, `Decide` | `advance()`, the budget question before it is obeyed, the time question after |
| `Ship`, `Poll`, `CiRepair`, `Finish` | publish, `pollCiStatus`, the repair decision, the done write |
| `Salvage`, `Rescue`, `Unpublished` | `finaliseAbortSalvaging`, `finaliseReviewCrash` and the best-effort ship, failed publications |
| `ext`, `timeExt`, `repairs`, `funded`, `timeRefused`, `budgetRefused` | the grant and refusal locals of `runInner` |

`SessionRun` is the promise: cycles begin against an allowance, grants add one, the way back to
`while` always has one left. `Run == INSTANCE SessionRun WITH` maps `pc` to its four phases and
the allowance to `Bound - cycle`.

`cycle_safety` has two cycles, one grant of each kind and up to two blocking findings (the least
that can converge), every combination of verdicts, refusals, failures and CI outcomes, sessions
with and without required checks. Fairness (`Progress`) is weak on the steps of `runInner`: each
call it awaits has a timeout, and its continuation runs. The clock owes nothing. A question that
is refused, declined in silence or disabled are one choice. `MaxTimeGrants` bounds what an
operator may approve; the code has no such bound and `Ends` says nothing of an operator who
approves for ever. A crash of the process, which starts `runInner` again from its first cycle, is
`SessionOwnership`'s subject. The branch of `NoChange` that ships is unreachable while
`ship_when_no_blocking_findings` is on: a review that satisfies it would have shipped before.
`CHECK_DEADLOCK FALSE`: an ended session stops.

## 6. SubTasks

One driver (`pc`) works through `Plan` under a deadline per sub-task; `flow` is the promise of the
one under way, with the cycle it was dispatched in, which is also where it writes its row.
`flow.late` says that the driver went on without it.

| Model | Code |
|---|---|
| `row`, `Latest`, `Completed` | `sub_tasks`, the `MAX(cycle)` view of a continuation |
| `done`, `failed`, `clarify`, `cont` | the driver's locals and `acceptedContinuation` |
| `Planned`, `CycleHead`, `Pick`, `AppendGeneration`, `ToReview`, `Stop`, `Reviewed` | the policy conflicts of the plan, the driver, the generation step |
| `Deadline` | the race with the sub-task deadline: the row is failed, the promise runs on |
| `Begin` ... `BestEffort`, `TurnOver`, `VerifyPasses`, `ProtocolRetry`, `RetryJudged`, `Rescued`, `AutoResolved`, `Escalated` | `runOneInner` from its first gate to its row |
| `AnswerText`, `AnswerSkip`, `AnswerAccept`, `AnswerAbort`, `Exempt` | the continuation each answer starts; a path exempted in the configuration |
| `Crash` | recovery of a process that died: the running rows and the session are failed |

`subtasks_safety`: a probe, a change that needs it and an appended generation step; two cycles,
two runs, one protocol retry, two timeout attempts. Two sub-tasks are enough for a dependency and
for a promise abandoned by one dispatch to meet the next; the second run is what makes rows of an
earlier run visible. `Conflicts` only shrink, because a denylist conflict pauses the plan before its
first dispatch (`Planned`); the dispatch-time gate (loop.ts:4255-4296) is therefore never reached.
`Shadowed` exempts the one sub-task whose row of a higher cycle, from an earlier run, stands in
for the row just written (section 14). Fairness is weak on the driver and on its timer; nothing
is asked of the promise, so `ComesToRest` holds with a worker that never returns.

## 7. Contracts

The plan has three copies: `live` (the run's), `stored` (the row's, with its revision) and what a
turn was judged by (`turn`). A probe's report is bound into the consumers' contracts; a mutation is
verified against its paths, after the harness has corrected those from what it saw.

| Model | Code |
|---|---|
| `Observed`, `Invalid`, `ReportRetried`, `ScriptedFallback`, `Bind`, `BindRefused` | an observe turn, its contract, `activatePlanRevision` |
| `WorkTurn`, `Fixes`, `Reconciles`, `Rederived` | a turn's commit and the path corrections of the verifier |
| `Verified`, `Retry`, `NothingToChange`, `FailVerification` | the verification and its ladder |
| `Rescued`, `AutoResolved`, `AskMismatch`, `AskDecision` | a commit on other paths: rescue, settlement from the branch, question |
| `TextAnswer`, `SkipAnswer`, `AcceptAnswer`, `AbortAnswer` | the answers, as they rewrite the stored plan |

`held` and `reports` are the reports this run has and those the table has; `past` and
`run.declared` are history. Left to other modules: crash and late promise (`SubTasks`, so that the
compare-and-set of the plan revision cannot fail here), the skipped re-probe (`SubTasks`), amendments
(`Questions`). Abstracted: fingerprints of repeated failures; `scoped`, a later cycle leaving out any
proper subset; the contract of a sub-task is fixed by its first turn; the relaxed and the targeted
commit window coincide; generators and checks of remotes and pull requests; a file name in a sub-task's
prose is one of its files; a path proposed as new does not exist; the write-back changes the live plan only.

What a mutating sub-task owes (verify-contract.ts:274-413): the paths its plan's probes name, to be
committed (`verify`) or on disk (`disk`), or, with no such probe, what its wording asks of its first file
(`asks`): "commit" and "write", each a regular expression of the code, or neither, and then it owes
nothing and is completed on the worker's word. `commit_made` is owed when it is declared ("made") or
inferred with "commit". `Lacking` is what is not committed, in a first cycle by the sub-task and later
by anyone on the branch; `Missing` adds what is not on disk, where a first cycle takes any file this attempt
wrote and a later one wants it on the branch (verify.ts:432-600). A turn commits some files and leaves
others behind uncommitted (`left`), which count as evidence of real paths and as work on disk. In a cycle
past the first a clean turn without a commit is demoted to an observation, and "nothing to change"
follows only a dirty first turn with a clean retry.

`ReviewedContractsAreMet` is about what is owed as a commit (`Committed`) and exempts the sub-tasks a human excused, and those that found nothing to change
or were bound anew since they were judged (`loose`). An excuse lapses when the sub-task is dispatched
again, unless a row of a higher cycle keeps standing for it (`Dispatch`, section 14). `SameArtifact`
follows names the harness recognises (a learnt remap, a twin, a file inside a directory, another test)
from one to the next: a correction stays with its run and starts in the next from the old name, so the
name on the branch can be several corrections away. `settled` are the paths a human accepted the absence
of, and `asked.declared` those of a question that lack a commit, by their declared names. A probe that
binds such a path, and a correction or rescue that renames another to it, put it up again; so do a
correction that takes a path of the branch to a file left uncommitted, and a question for want of any
commit (`Reopened`, `AskDecision`). An answer that accepts other paths removes the dropped ones from the stored contract and collapses
duplicates in the whole list (registration.ts:2800-2803): `Distinct`.

`contracts_safety` has four plan shapes (a probe bound into text and verifier or into the files of its
consumer, two mutations over the same paths, and one judged by commits and by what is on disk, so that
every wording and probe occurs), one file per turn, committed or left behind, two tries, two cycles, two
runs: a second try is a correction, the second run an answered question. Only one of the two runs has a
second cycle (`Repeats`; 1.1 million states); with `Repeats = TRUE` TLC found the three to hold as well
(4.1 million states, four minutes), and the theorems leave it open. The cases that shaped the properties need three cycles or three runs; they were found
there with TLC while the proof was attempted (section 15), and the theorems cover every bound.

## 8. Questions

Four questions share the columns of one row: the brief, a sub-task's question (the loop has
returned), more time and more money (the loop listens). `receipts` are the
challenges issued to the operator, with the state they stand for (`Shown`); `calls` are the answers whose storage check is awaited.

| Model | Code |
|---|---|
| `PauseForTask`, `Listen`, `AskMoney`, `Poll`, `WindowCloses`, `GiveUp`, `TakeAnswer` | the loop's side |
| `Issue`, `Review`, `Expire`, `Consumed` | `human_answer_challenges` |
| `BeginAnswer`, `RefuseAnswer`, `AnswerTask`, `ReleaseTask` | `harness_answer` either side of its awaits |
| `AnswerDies`, `ExtensionDies`, `LeaveDies` | the process dies after the claim, or after the clock, and before the status |
| `AmendmentFails`, `AmendmentActivated`, `KeepPaused` | an answer that amends the plan |
| `StageProposal`, `ConfirmBrief` | the brief |
| `Crash`, `Recover`, `HeartbeatAges` | the process |

`questions_safety`: two asks, two receipts, two pages, one outstanding call per caller, an operator
and a delegated agent; two questions are what makes an answer late for one. The statuses of a
running loop are one, "working". `Readings` leaves of the texts those that a question tells apart. An
answer and a listener that leaves write the clock before the status, without a transaction: that such
a death alone sets the clock going while a human is asked is `ClockStopsForHumans`. Fairness (`Fair`) is weak on the listener's timer and poll only:
operator, agent and restart owe nothing.

## 9. AgentTurns

`current` has the locals of one worker turn, `agents` the process of every turn so far and the
provider session it works on, `accrued` what the provider says that session has cost, `recorded` what
the checkpoint believes. A turn's number names the session it creates.

| Model | Code |
|---|---|
| `Begin`, `Initialized`, `Loaded`, `LoadRefused`, `Created`, `Prompted`, `CostReplayed`, `PromptAnswered` | `runWorkerAcp` over JSON-RPC |
| `StreamOpens`, `StreamSpeaks`, `StreamResult` | `consumeWorkerStream` |
| `WatchdogFires`, `AgentExits` | the open, first-token and overall watchdogs, SIGTERM |
| `AgentSpends`, `AgentEdits`, `AgentCommits` | what an agent does, also after it was told to stop |
| `ReadHead`, `ReadStatus`, `Commit`, `Recount`, `GitFails` | `worker.ts` after a turn |
| `LastAttempt`, `NoReply`, `TakeReply`, `Settle` | the ladder of `structured.ts`, the charge |

Assumptions. A terminated agent may still edit and spend until it exits (at most five seconds) and
is gone before a later turn's agent answers (`EarlierGone`); an aborted SDK stream ends by throwing;
a turn that its agent ended has put its work down;
the lead's outer retry is merged with the ladder; a figure priced from tokens counts as measured.
`OutOfTurns` is a bound. `turns_safety` has two turns (the second resumes the first's session), one
unit of cost, one edit, two attempts, and the roles on either backend. Fairness is weak on the
turn's own steps and timers (`TurnsFair`): an agent owes nothing.

## 10. Findings

A defect is a class of equivalent findings (fingerprint or overlap); the reviewer may raise any of them
in any review, fixed or not. `defects` says what each is: file, related files, severity, code or
environment, and who raises it: the review or one of the four deterministic gates.

| Model | Code |
|---|---|
| `Route` with `Adoptions`, `Repaired`, `Direct`, `Granted`, `Widening`, `Skipped` | the head of a cycle: mapping, repair sub-tasks, co-fix grants, scope |
| `Work` | what the workers change, any files |
| `Gates`, `ScopeBlowout`, `GatedVerdict` | the gates and the merge of their verdicts |
| `Reconcile`, `ReconcileFails`, `StateOf` | `reconcileFindings` and a database that refuses |
| `Decide`, `EarlyExit`, `Recommended`, `RunAgain` | convergence, no change, the recommendation, a further run |

`branch` holds only the files a gate may report. The outcomes of script, configuration and type
checks are choices; the scope check is computed, its threshold abstracted; the nearness by which an
orphan is adopted is a choice. A pass is held by every finding that blocks a merge, a revise only by
those worth another cycle (`Recommended`): an environment's finding, or a check whose failure went
stale, then does not stop it, which is what `ChecksHoldTheMerge` leaves room for. "accepted" and "dispositioned" have no writer in the code, so no
state has them. `gated` and `past` are history. `findings_safety`: two defects, 144 initial states, three
cycles, two runs, one adoption; two defects are the least of which one is adopted or granted while
the other is not, and the third cycle is the first whose scope depends on a scoped one.

## 11. Publication

Sessions 1 and 2 work on one branch; `remote` is its tip, that tip's history and every tip it ever
had, `tree[s]` a worktree, `loop[s]` the locals of its run and `row[s]` its evidence columns.

| Model | Code |
|---|---|
| `Start`, `Build`, `Review`, `Author` | a run up to its review; the CI workflow the harness writes |
| `Preview`, `RuntimeReview` | the branch pushed for a preview before it ships |
| `Recheck`, `Push`, `OpenPullRequest`, `Verify` | `publishCandidate` between its awaits |
| `PollCi`, `Snapshots`, `OutOfPolls`, `PollUnreadable` | `pollCiStatus` over a CI that registers late and may show fewer checks than before |
| `FundsRepair`, `Repair`, `Ship`, `Recommendation` | the repair cycle and the end |
| `Salvage`, `Stalled` | what a broken or stalled run publishes |
| `ForeignPush`, `BranchDeleted`, `ChecksAdvance` | the world |

A read of the remote may fail, and the adapter answers as if the branch did not exist
(`Reads`). The locals are forgotten at the run's end, to merge states. `publication_safety`: three
commits (one per session and one of somebody else), one foreign push or deletion, two polls, one
repair. Fairness is weak on a run's own steps: each awaits a call with a timeout.

## 12. Merging

| Model | Code |
|---|---|
| `ReviewLands`, `ShipPushes`, `ShipOpens`, `ShipNotes`, `ShipRecords`, `ShipFails` | the review of a cycle and its ship phase, once more in a cycle that repairs CI or after a crash |
| `Revised`, `Others` | the branch and its pull requests, CI and the people on them |
| `MergeBegins`, `Gate`, `MergeReads`, `MergeLands`, `Deployed` | `harness_merge_pr` |
| `RepairBegins`, `RepairRuns`, `Reverified`, `Reverts`, `Stacked` | `deploy-repair.ts`, its attempts and the revert of the stack |
| `LinkBegins`, `LinkFetched`, `LinkApplied` | `pr-link.ts` |
| `PollOnce`, `Marked` | the watcher that closes rows |
| `ToolsCrash` | a crash, which ends the calls in progress |

`main` and `orphans` are the merges of the call in progress that are on the default branch, and
those whose response was lost. The CI of a tip is none, waiting or green. The row names its pull
request from the moment it is open, long before it has a recommendation; the gate takes a row
without one for `do_not_merge`, which the last review can override, so that a row still shipping,
or of a run that failed, can be merged and marked (`Gate`, `ShipNotes`; section 14). `MainRestored`
speaks of merges whose response arrived (section 14). `merging_safety`: one session, which may ship
twice, two pull requests, three revisions, two attempts, budget for one repair (so that the budget ends
before the attempts do). A call's merges are its own, and a link races with the loop of its own row, so
that a second session adds nothing to them; the theorems of section 15 are for any number of sessions,
and it takes `Owners = 2` for the first half of `MergesSignedOff` (section 14). Fairness is weak on
the steps of a call.

## 13. Storage

A branch is the set of its numbered commits past the base, and commits live in the bare clone's
branch (`local`), on GitHub (`remote`), under rescue refs (`rescued`) and in bundles (`saved`).

| Model | Code |
|---|---|
| `Allocate`, `ReconcileBranchWorktrees`, `RescueBranchIfAhead`, `Decision`, `Checkout`, `Allocated` | `git-worktree.ts` between its awaits |
| `Commit`, `DurableCheckpoint`, `Publish`, `Shipped`, `RunFails`, `Pause`, `Release` | a session's life and the finaliser's keep-or-release |
| `StorageGate`, `Answer`, `Resume`, `LedgerReachable` | `checkSessionStorage` before a resume |
| `Crash`, `Register`, `HealLists`, `HealRemoves`, `ReconcileRows`, `AutoResume` | a start of the gateway |

"failed" stands for aborted too; uncommitted files are not tracked; a checkpoint's files appear at
once, as its rename order makes them; the volume may be lost with the crash. Assumed: a sweep takes
less than its 120 seconds of grace. Left out: retention's pruning, the salvage pull request, a rescue that
fails. `storage_safety`: two sessions (symmetric) on one pull request or one of them on a branch
of its own, three worktrees, two commits, one restart or second registration. A third worktree
is what makes a rival allocation and a leftover exist at once; `recovered_local` is not
reached at these bounds.

## 14. Where the code and its documents differ

The following are stated in the modules as properties, each with the sentence it comes from; no
configuration lists them, because TLC finds each violated. To see the trace, add its name to the
module's configuration.

| Property | What happens |
|---|---|
| `SessionOwnership!LatestLoopTracked` | a displaced loop's `finally` deletes its successor's registry entry |
| `SessionOwnership!TerminalIsFinal` | an answer in flight moves an aborted session back to running |
| `SessionCycle!GrantLiftsTheCap` | a money grant does not lift the daily cap where the next decision reads it |
| `SessionCycle!BlockNeverPushes` | a block verdict past the deadline or the cap is salvaged into a pull request |
| `SessionCycle!MergeStopsOnEnv` | a revise verdict whose only live finding is unverifiable is recommended for merge |
| `SubTasks!SkipIsFinal` | a skip marks the row of the highest cycle only: a conflict without a row, or a later cycle, does not see it (registration.ts:3120) |
| `Contracts!ReportsSurvive` | a continuation after a re-bound plan hydrates no report of an older revision |
| `Contracts!EveryWorkerCommits` | a "mutate" sub-task, which "produces new artifacts" (lead.ts:93), is reviewed with nothing committed: its wording infers no commit, or its probe is content with a file on disk (verify-contract.ts:361-378, verify.ts:235, 470-506) |
| `Questions!MoneyIsHuman` | an agent's answer to a sub-task's question, claimed after its awaits, is read by the money question asked meanwhile |
| `Questions!PauseAnswerable` | a claim released after its amendment was recorded leaves a pause that refuses every answer |
| `Questions!WaitIsFree` | a process that dies between the clock's write and the status's leaves a wait on the active clock, which loop.ts:2835-2837 calls closed out (registration.ts:2692-3066, loop.ts:1389-1405) |
| `Questions!AwaitsAnAnswer` | a listener that dies after `clearPause` leaves a session that awaits, asks nothing and, when an answer was recorded, accepts none |
| `AgentTurns!AnswersAreWhole` | a truncated reply that parses is taken as the document |
| `AgentTurns!DeltaIsReal` | a turn that fell back to a new session subtracts the old session's baseline |
| `Findings!CreepIsRequired` | an out-of-scope file that the gate reported once becomes approved scope (loop.ts:3837) |
| `Findings!TypesStopTheMerge` | a type error that an earlier review did not see, raised again with its file unchanged, is stale; under a revise verdict a merge is recommended over it (merge-recommendation.ts:150-169) |
| `Findings!OwnershipAsDeclared` | a declared file that a co-fix also grants is no longer counted as the sub-task's own |
| `Findings!SkippedAreUntargeted` | a sub-task carries a finding and is left out of the cycle (loop.ts:3890 against 3691, 4001) |
| `Merging!MergesSignedOff` | the revision that is merged may be a later session's, or nobody's, past the gate's read |
| `Merging!MarkedIsMerged` | a merge call marks the row of a run that still ships; the run then records its next pull request and leaves the mark (loop.ts:8260-8264), so that a merge of an open one is refused as done |
| `Storage!StaleAreNotResumed` | a storage verdict resumes a row older than the hard timeout (index.ts:3041-3053) |
| `Storage!ResumeKeepsTheBranch` | an allocation for a resume that does not keep the branch starts it behind its recorded commits |
| `Storage!LiveWorktreesStay` | an allocation for a pull request removes a live session's worktree of the same branch |

Met while modelling, and kept in the models as they are:

* a continuation counts its cycles from one, its rows are read by the highest (registration.ts:3109-3112);
  a retry writes its own status and adds its cost a second time (loop.ts:5187, 5205-5215);
* for the same reason a row of a higher cycle, left accepted by an earlier run, outranks the failure of
  a lower cycle written since: the next continuation counts the sub-task as completed
  (`loadAcceptedContinuation`, loop.ts:8333) and what excused it then excuses it still, which is why
  `Dispatch` keeps the excuse of such a sub-task (three cycles and three runs show it);
* the promise a deadline abandoned goes on writing rows; a crash between a durable claim and its resume
  leaves a pause that counts as answered;
* the git adapter answers a failed `ls-remote` as an absent branch (git-worktree.ts:1291-1296);
  `finaliseStalled` pushes without the review rule; commits after `ship_for_review` stay local and the
  session is done; that the harness wrote a workflow is forgotten at every ship attempt;
* a merge whose response is lost in a repair is not in the stack that is reverted; two
  `harness_link_pr` calls race for a row; registration.ts:856 says the tool merges only on "merge", index.ts:2189-2223
  has two overrides;
* finding-lifecycle.ts:407 and 428 ask whether a file changed in this cycle only; a stale finding never
  reopens; granted files count as ownership (revise-mapping.ts:541-545);
* a trip of the breaker fails a session without marking its worktree kept; retention, when opted into,
  drops session rows and not what is on disk; a lead that times out leaks a directory;
* a planner that fails books the cost of its measured turns as the whole (lead.ts), and a worker's turn
  that a watchdog cut what its agent had streamed by then (acp.ts:1027-1045): what either spent beyond
  that is on no row; a turn priced by its tokens leaves the checkpoint behind its meter, so that the next
  metered turn of that provider session, when nothing is replayed, counts it again (loop.ts:1942-1946);
* a turn's last attempt alone decides whether its cost was measured; a stream that ends after an abort
  is an ordinary end (claude-code.ts); a failed permission probe leaves the accounting incomplete;
* an observe sub-task with an explicit verify skips its contract; a report is keyed so that a later
  cycle's collides (loop.ts:6499-6517, schema.sql:276); a blocked report is overwritten; a timed-out probe
  settled by its script leaves its consumers unbound; accepting one path leaves others stale.

## 15. Proofs

TLAPS checks these for all values of the constants, from the named assumptions of the modules only.
Each invariant below is inductive; its parts are there because the property alone does not survive some
step. The larger ones were tried with TLC at the bounds of the module's run before they were proved.
A proof has one lemma per action or group of actions and joins them along `Next`.

**`SessionOwnership_proofs`.** `SoleLoopHolds`: `SoleLoop` itself with the shape of the four variables it
reads; a lemma per way an action touches ownership (moving, exiting, running, dropping).
`CancelBoundsHolds`, an action property: `CancelInv` says that the abort flag, which every gate
reads, stands for each accepted cancel (only the poller lowers it, and takes the cancel with it);
`OnlyGated` finds the ways a loop comes to owe a sub-task or starts one.

**`SessionCycle_proofs`.** `UnreviewedHolds`, `UnseenHolds`, `MergeHolds`, `GrantHolds` and the
refinement `Refines`. `IInv` says what a place in `runInner` entails: `RoomInv` (counters within
the bound, one cycle left at `while`), `JudgedInv` (who ships has a review), `SeenInv` (only a cycle
in flight is unseen), `VerifiedInv` (a required check is green only at the last poll).
`UnseenIsMarked` says nothing of `polled`, from which `Finish` ships; it is proved and in no
configuration, because the proof covers what a run would. Endings that are not `Finish` enter every
case through one fact, `Over`.

**`ProviderTurns_proofs`**, about `ProviderCalls` and `AgentTurns`.

* `TypeHolds`, `OneTurnHolds`, `SettledHolds`: `OneTurnInFlight` speaks of turns and the code checks
  rows, so `FenceInv` adds that a running turn, attached or abandoned, has an unresolved row
  (`Tracked`) and that a session has at most one (`Fence`).
* `ReportedHolds`, `MeterHolds`: for any calls, costs and crashes. `BookInv` adds to the fence what
  nobody reported (a call that never ran or still runs), which call opened a provider session, that only
  a completed one is resumed, and by its own session, and that a completed call was heard of. Every step
  is one of four kinds (quiet, reported, booked, begun); each moves both sides of the ledger's equation
  alike, and a checkpoint only under the one unresolved call of its session, which is why a baseline read
  at dispatch still stands at the settlement.
* `CutHolds`: a turn exists only inside a call, and one that was cut did not end of itself.
* `BilledHolds`: nothing in the state says of which provider session a billed dollar was, so
  `SplitInv` asserts that there is a split: `B[s]` on the books and `C[s]` held by the call in
  progress, together at most what session `s` accrued, with `B[s]` at most its checkpoint. A resumed
  turn is measured from the checkpoint of the session it resumes or from what was replayed, and so
  fits into what is left (`CostWithin`). The proof does not use the fence on a moved checkpoint
  (`CheckpointMoved`): that protects against a rival settlement, of which this module has none.
* `AccountedHolds`: head, status and commit are read one after the other; `AccountInv` says that nobody
  works between them (`Still`), because a turn that its agent ended is answered by an agent that has put
  its work down after every earlier one is gone, and what each read so far knows. It rests on the
  assumption about processes named in section 9 (`EarlierGone`).

**`SubTasks_proofs`.** `ReviewedHolds`, `AloneHolds`, `LandsHolds` from `IInv`: the promise under way is
awaited, or late and alone (`FlowInv`); what the driver passed, or stands from the cycle before, is
good (`DoneInv`, `HeadInv`); what a continuation will find completed is good but for a checkpoint
still awaited (`RowInv`); who asks has not completed (`AskInv`). `StandsHolds` adds `StandInv`: a failure
that is recorded leaves a sub-task that was visited and is not done, also while a rescue of it is
awaited. The driver picks the least ready sub-task, which exists by well-founded induction over the
plan's numbers.

**`Answers_proofs`**, about `Questions` and `Contracts`, which share no variable.

* `ReadHolds`, `BriefHolds`: an operator's call in progress has used up a challenge that it
  had read to the end and answers the question which that challenge shows (`ReviewInv`): this survives
  the storage check in between, and is why an answer lands on what was read. While the brief is open
  nothing has begun (`BriefInv`). `ClockHolds` and `ClaimedHolds` need no invariant: each claim compares
  and sets, each release stops the clock, and what starts it leaves the pause in the same step or dies.
* `ContractsTypesHold`, from `DriverInv`: the types, where the driver is (one sub-task under way, behind
  those that are done, with the row of its dispatch) and what a turn has come to.
* `ReviewedHolds`, `ConsumersHold`: `PlansAgree` says how far the plan of the run and the stored one may
  part: the same verifiers and open bindings, what is declared one artifact, and every reported
  probe bound in both. `GoodInv` says what the driver has behind it, and what a continuation
  would find completed, `Stands`: each path its plan owes as a commit has a recognised name on the
  branch, or the sub-task is excused or let off; and the contract a turn is judged by covers what the
  plan owes. What is owed on disk only takes part in the corrections, not in the claim.
  A correction, rescue or settlement then moves along `SameArtifact`, which is why that is closed under
  chains of names.
* `AcceptedHolds`: nothing in the question says that its paths were not settled before. `SettledInv` adds
  that a settled path is no verifier and is on the branch if a plan still names it (`Named`), that one which
  a sub-task owes and did not write belongs to a sub-task that is completed or in a later cycle
  (`Counted`), and that what a turn is about to be accused of not having committed is not settled
  (`JudgedOK`). A correction keeps this because what it renames a path of the branch to is committed, or
  the settlement has ended (`FixesAre`, `StaysSettled`).

**`Findings_proofs`.** `OverlooksHolds` and `ChecksHolds`: how a finding came to its state
(`HistoryInv`), what a review reports against what the table says (`ReportInv`), that a verdict
which passes stands over no failed check (`GateInv`), and what each verdict lets through (`MergeInv`). `WorkedHolds`: the plan is built by folds over
the findings and over the sub-tasks (adoption, repair, grants, widening); the lemmas say what each
fold keeps and ensures: no stage takes a finding or a file away from a sub-task, and the repair
stage leaves no live finding without one. The claim then holds of every plan, by `PlanOK`.

**`PullRequests_proofs`**, about `Publication` and `Merging`, which share no variable.

* `ReleasedHolds`, and `ReadyHolds` for the action property, from one invariant per session: a
  candidate is the head, evidence is a tip the branch has had, what is shipped is what the last review
  read or the workflow on top of it, what CI concluded, and what a done row holds. The properties
  alone say nothing of a run between two awaits.
* `RestoredHolds`: what a merge call left on the default branch is known to it or its response was
  lost (`CallInv`). `LinkKeepsHolds`: of two writes of a row's pull request, across the awaits of
  the link, the loop's stays (`OneRow`).

**`Storage_proofs`.** `WorkHolds`, `DurableHolds`, and for the steps `SurviveHolds` and `SparesHolds`. A
branch is in at most one worktree with at most one allocation under way (`TreeInv`), a row names a
worktree only once its allocation returned (`NameInv`), and what the sweep may still remove was no
allocation when it began and is no session's that could be taken up (`SweepInv`): the sweep reads
its list once and acts on it across awaits.

`FailureStands`, `ClaimedOnce` and `CompletedIsAccounted` are proved and in no configuration: TLC found each
true at the bounds of its module's run, and violated when the retraction of a failure, the comparison of
a claim, or the second reading of the head is left out.

Sums and folds are taken over finite sets of the constants. Their laws (a sum moves with one of its
terms, the sum of a sum, a fold keeps what each step keeps, the first of each of a list's members is
what `Distinct` returns) are proved without induction over an
operator: the sets that violate the law are taken together, and a smallest one, which exists by
well-founded induction, is contradicted.

What the attempts showed. `HealSparesWork` did not hold of a crash in the middle of a sweep, where the list is
lost with the process: it now speaks of that crash. Several `CASE`s (the status of a row, the
recommendation, an unreadable poll, the start of a repair) had arms that overlap, where TLC takes the
first and the prover knows neither: their guards are disjoint now, in the order of the code. The type
invariants said less than the steps keep (a plan is a sequence of sub-tasks, a session of a turn is one
that a turn has made). Sessions and calls are assumed finite, as a database is.

`Contracts` was wrong in three places that its run does not reach; TLC showed each on a larger instance,
from the step at which the proof stood still. `ReviewedContractsAreMet` and `ConsumersAreBound` forgot
an excuse at a dispatch that leaves an older row of a higher cycle standing (section 14). The former
compared a declared path with the branch one recognised name apart, where two runs can put two between
them. `AcceptedIsNotAskedAgain` did not know that a correction of a later cycle can rename another
declared path to one the operator had settled, which is then owed and asked about again (30 steps, three
cycles): such a rename now ends the settlement. Since the contracts that ask for disk or for any commit are
in the model, so do the two other ways of section 7 by which a settled path is owed again. `Paths` is assumed finite, as a tree of files is.

Only model-checked:

* liveness under fairness, which is out of the prover's reach: `CancelHonoured`, `DeadLoopRedriven`,
  `ComesToRest`, `ListeningEnds`, `ShipEnds`, `Ends`, `MergeCallEnds`, `TurnsEnd`;
* two more liveness properties that no configuration lists, and that TLC found true at the bounds above:
  `AbortedRowSettled`, `ContractsEnd`.

No module declares a `RECURSIVE` operator.

## 16. Not modelled

Prompts, the classification of texts, probes run in a shell, path and command policy, HTTP clients,
credentials, configuration, help, message formats, pricing tables: sequential code over strings whose
outcome is a choice in the models, or static text. `PROJECT.json` gives the reason per component.
Teardown and the in-memory breaker are planned. `src/scripts/` is build and test tooling.

Known and not covered by a property: the hazards with a note in `PROJECT.json`.
