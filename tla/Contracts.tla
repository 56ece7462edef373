----------------------------- MODULE Contracts -----------------------------
(***************************************************************************)
(* What the sub-tasks of a plan owe, and how it changes while they run.    *)
(*                                                                         *)
(* An observe sub-task with a structured contract binds what it found into *)
(* the contracts of the sub-tasks that consume it; a mutating sub-task is  *)
(* verified against the paths its contract names, after the harness has    *)
(* corrected those paths from what it saw; a commit on other paths is      *)
(* rescued, settled from the branch, or asked about, and the operator's    *)
(* "accept" rewrites the stored plan.  There are three copies to keep in   *)
(* step: the plan of the run, the stored plan with its revision, and the   *)
(* contract a sub-task was judged by.                                      *)
(*                                                                         *)
(* Sub-tasks run one at a time (SubTasks has the driver, its deadline and  *)
(* its crashes), so a turn and its verification see no other's commits.    *)
(***************************************************************************)
EXTENDS Integers, FiniteSets, SequencesExt

CONSTANTS
    Paths,      \* artifacts, by their path
    Existing,   \* those the repository has before the plan
    Drift,      \* Drift[p]: where a remap learnt from real files takes p
    Evidence,   \* Evidence[p]: the real files that teach that remap
    Twins,      \* <<p, q>>: same basename, p's directory does not exist, q's does
    Inside,     \* <<p, q>>: p is a directory and q lies in it
    Tests,      \* the test files
    Shapes,     \* plans
    MaxFiles,   \* bound: files of one turn
    MaxTries,   \* worker_protocol_max_attempts
    MaxCycles,  \* loop.max_cycles
    MaxRuns,    \* bound: runs of the session, one more than its answers
    Repeats     \* bound: whether a run may go round to a cycle an earlier run had

ASSUME ContractsAssumption ==
    /\ IsFiniteSet(Paths) /\ Existing \cup Tests \subseteq Paths
    /\ Twins \cup Inside \subseteq Paths \X Paths
    /\ Drift \in [Paths -> Paths] /\ Evidence \in [Paths -> SUBSET Paths]
    /\ {MaxFiles, MaxTries, MaxCycles, MaxRuns} \subseteq Nat \ {0} /\ Repeats \in BOOLEAN

VARIABLES
    shape,    \* the plan as the lead made it: what is never rewritten
    stored,   \* sessions.lead_plan_json and plan_revision
    live,     \* the plan of this run
    held,     \* observeReports: the probes whose report this run has
    reports,  \* observe_reports: the latest result_plan_revision of a probe
    rows,     \* sub_tasks.status, by cycle and sub-task
    run,      \* the driver
    turn,     \* the sub-task under way
    branch,   \* what was committed since the plan's base
    written,   \* written[s]: what s committed in a first cycle
    found,    \* discoveredRealPaths
    asked,    \* the question the session is paused on
    past      \* history, read by properties only

contractsVars == <<shape, stored, live, held, reports, rows, run, turn, branch, written,
                   found, asked, past>>

plans == <<shape, stored, live>>
db    == <<reports, rows>>
work  == <<branch, written, found>>

Tasks    == 1 .. shape.n
Probes   == shape.probes
Works    == Tasks \ Probes
Cycles   == 1 .. MaxCycles
Accepted == {"completed", "completed_no_change"}
RowStatuses == Accepted \cup {"none", "running", "failed_verification", "failed", "blocked"}

ShapeOK(h) ==
    /\ h.n \in Nat /\ h.probes \subseteq 1 .. h.n
    /\ \A s \in 1 .. h.n : h.needs[s] \subseteq 1 .. (s - 1)
    /\ h.files \in [1 .. h.n -> Seq(Paths)]
    /\ {h.verify, h.disk} \subseteq [1 .. h.n -> SUBSET Paths]
    /\ h.asks \in [1 .. h.n -> SUBSET {"commit", "write", "made"}]
    /\ h.binds \subseteq [of : h.probes, to : (1 .. h.n) \ h.probes,
                          field : {"files", "verify", "text"}, new : BOOLEAN, marked : BOOLEAN]
ASSUME ShapesAssumption == \A h \in Shapes : ShapeOK(h)

Bindings(p) == {b \in shape.binds : b.of = p}

PlanOK(plan) ==
    plan \in [files : [Tasks -> Seq(Paths)], verify : [Tasks -> SUBSET Paths],
             disk : [Tasks -> SUBSET Paths], open : SUBSET shape.binds]

RunTypes ==
    [pc : {"running", "review", "paused", "ended"}, cycle : Cycles, at : 1 .. (shape.n + 1),
     done : SUBSET Tasks, scoped : SUBSET Tasks, n : 1 .. MaxRuns]

TurnTypes(made) ==
    [task : Tasks \cup {0},
     phase : {"idle", "turn", "report", "judge", "rescue", "settle"}, tries : 0 .. MaxTries,
     report : {<<>>} \cup UNION {[Bindings(p) -> Paths] : p \in Probes},
     commit : SUBSET made, dirty : BOOLEAN,
     says : {"nothing", "satisfied", "blocked", "invalid", "progress", "decides"},
     contract : SUBSET Paths, disk : SUBSET Paths, fixes : SUBSET (Paths \X Paths)]

AskedTypes(made) ==
    [task : Tasks \cup {0}, commit : BOOLEAN, expected : SUBSET Paths,
     originals : SUBSET Paths, actual : SUBSET made, declared : SUBSET Paths]

PastTypes ==
    [bound : SUBSET (shape.binds \X Paths), excused : SUBSET Tasks, loose : SUBSET Tasks,
     settled : SUBSET (Works \X Paths)]

ContractsTypeOK ==
    /\ shape \in Shapes /\ PlanOK(live)
    /\ stored \in [plan : {stored.plan}, rev : Nat] /\ PlanOK(stored.plan)
    /\ held \subseteq Probes /\ reports \in [Tasks -> -1 .. stored.rev]
    /\ rows \in [Cycles -> [Tasks -> RowStatuses]]
    /\ run \in RunTypes /\ turn \in TurnTypes(branch) /\ asked \in AskedTypes(branch)
    /\ branch \cup found \subseteq Paths /\ written \in [Tasks -> SUBSET branch]
    /\ past \in PastTypes

NoTurn == [task |-> 0, phase |-> "idle", tries |-> 0, report |-> <<>>,
           commit |-> {}, dirty |-> FALSE, says |-> "nothing", contract |-> {},
           disk |-> {}, fixes |-> {}]
NothingAsked == [task |-> 0, commit |-> FALSE, expected |-> {}, originals |-> {}, actual |-> {},
                 declared |-> {}]   \* the last for properties only
NewRun(done, n) == [pc |-> "running", cycle |-> 1, at |-> 1, done |-> done, scoped |-> {},
                    n |-> n]

ContractsInit ==
    /\ shape \in Shapes
    /\ live = [files |-> shape.files, verify |-> shape.verify, disk |-> shape.disk,
               open |-> {b \in shape.binds : b.marked}]
    /\ stored = [plan |-> live, rev |-> 0]
    /\ held = {} /\ reports = [s \in Tasks |-> -1]
    /\ rows = [c \in Cycles |-> [s \in Tasks |-> "none"]]
    /\ run = NewRun({}, 1) /\ turn = NoTurn
    /\ branch = {} /\ written = [s \in Tasks |-> {}] /\ found = {}
    /\ asked = NothingAsked
    /\ past = [bound |-> {}, excused |-> {}, loose |-> {}, settled |-> {}]

----------------------------------------------------------------------------
(* The driver                                                               *)

S == run.at                     \* the next sub-task, in dependency order
W == turn.task
Idle == run.pc = "running" /\ W = 0

(* loadAcceptedContinuation: the sub-tasks whose last row is accepted.      *)
Completed(table) ==
    {s \in Tasks : \E c \in Cycles :
        table[c][s] \in Accepted /\ \A d \in (c + 1) .. MaxCycles : table[d][s] = "none"}

Put(s, verdict) == rows' = [rows EXCEPT ![run.cycle][s] = verdict]
Complete(s) == run' = [run EXCEPT !.done = @ \cup {s}, !.at = @ + 1]
Fails(s, verdict) ==
    /\ Put(s, verdict) /\ run' = [run EXCEPT !.pc = "ended"] /\ turn' = NoTurn

(* Behind it: a continuation found it completed, or a later cycle leaves it *)
(* out.                                                                     *)
PassOver ==
    /\ Idle /\ S \in Tasks
    /\ \/ S \in run.done /\ run' = [run EXCEPT !.at = @ + 1] /\ UNCHANGED rows
       \/ /\ S \in run.scoped \ run.done /\ Complete(S)
          /\ rows' = IF rows[run.cycle][S] = "none" THEN rows
                     ELSE [rows EXCEPT ![run.cycle][S] = "completed_no_change"]
    /\ UNCHANGED <<plans, held, reports, turn, work, asked, past>>

(* What a sub-task was excused holds until it is judged anew; for good,     *)
(* when an earlier run's row of a higher cycle keeps standing for it.       *)
Dispatch ==
    /\ Idle /\ S \in Tasks \ (run.done \cup run.scoped) /\ shape.needs[S] \subseteq run.done
    /\ Put(S, "running") /\ turn' = [NoTurn EXCEPT !.task = S, !.phase = "turn"]
    /\ past' = IF S \in Completed(rows') THEN past
               ELSE [past EXCEPT !.excused = @ \ {S}, !.loose = @ \ {S}]
    /\ UNCHANGED <<plans, held, reports, run, work, asked>>

AllDone ==
    /\ Idle /\ S > shape.n /\ run' = [run EXCEPT !.pc = "review"]
    /\ UNCHANGED <<plans, held, db, turn, work, asked, past>>

(* The review sends the session round again, or away.  The scope it newly   *)
(* approves is written with the run's plan, at a revision of its own.       *)
Reviewed ==
    /\ run.pc = "review"
    /\ \/ run' = [run EXCEPT !.pc = "ended"] /\ UNCHANGED stored
       \/ /\ run.cycle < MaxCycles
          /\ Repeats \/ \A s \in Tasks : rows[run.cycle + 1][s] = "none"
          /\ \E scoped \in SUBSET Tasks \ {Tasks} :
                run' = [run EXCEPT !.pc = "running", !.cycle = @ + 1, !.at = 1, !.done = {},
                                   !.scoped = scoped]
          /\ stored' \in {stored, [plan |-> live, rev |-> stored.rev + 1]}
    /\ UNCHANGED <<shape, live, held, db, turn, work, asked, past>>

(* The turn fails or is lost: the run ends.                                 *)
TurnLost ==
    /\ turn.phase = "turn" /\ turn.tries = 0 /\ Fails(W, "failed")
    /\ UNCHANGED <<plans, held, reports, work, asked, past>>

(* A pause: the failed sub-task's question, and what it was asked of.       *)
Pauses(query) ==
    /\ run' = [run EXCEPT !.pc = "paused"] /\ asked' = query /\ turn' = NoTurn

----------------------------------------------------------------------------
(* Observing                                                                *)

Tree == Existing \cup branch
(* Values a report can give: a proposed output must not exist, a path that  *)
(* is said to exist must.                                                   *)
Values(p) ==
    {v \in [Bindings(p) -> Paths] : \A b \in Bindings(p) : (v[b] \in Tree) # b.new}

(* validateObserveResult: satisfied, blocked or invalid.                    *)
Observed ==
    /\ turn.phase = "turn" /\ W \in Probes
    /\ \/ \E v \in Values(W) :
            turn' = [turn EXCEPT !.phase = "report", !.says = "satisfied", !.report = v]
       \/ \E says \in {"blocked", "invalid"} :
            turn' = [turn EXCEPT !.phase = "report", !.says = says]
    /\ UNCHANGED <<plans, held, db, run, work, asked, past>>

Invalid == turn.phase = "report" /\ turn.says = "invalid"

ReportRetried ==
    /\ Invalid /\ turn.tries < MaxTries - 1
    /\ turn' = [turn EXCEPT !.phase = "turn", !.tries = @ + 1]
    /\ UNCHANGED <<plans, held, db, run, work, asked, past>>

(* The attempts are spent, the same failure came twice or the retry threw.  *)
ReportRefused ==
    /\ Invalid /\ Fails(W, "failed_verification")
    /\ UNCHANGED <<plans, held, reports, work, asked, past>>

ReportBlocked ==
    /\ turn.phase = "report" /\ turn.says = "blocked"
    /\ Put(W, "blocked") /\ Pauses([NothingAsked EXCEPT !.task = W])
    /\ UNCHANGED <<plans, held, reports, work, past>>

(* The probe timed out and the repository's own check scripts pass: the     *)
(* sub-task is settled without a report.                                    *)
ScriptedFallback ==
    /\ turn.phase = "turn" /\ W \in Probes /\ turn.tries = 0
    /\ Put(W, "completed_no_change") /\ Complete(W) /\ turn' = NoTurn
    /\ past' = [past EXCEPT !.excused = @ \cup {W}]
    /\ UNCHANGED <<plans, held, reports, work, asked>>

----------------------------------------------------------------------------
(* Binding                                                                  *)

(* applyObserveBindings: a placeholder is replaced where it is found.       *)
Applicable(p) == \A b \in Bindings(p) : b.marked => b \in live.open

To(w, p, field) == {b \in Bindings(p) : b.to = w /\ b.field = field}
Appended(files, more) == files \o SetToSeq(more \ ToSet(files))

Bound(plan, p, v) ==
    [files  |-> [w \in Tasks |-> Appended(plan.files[w], {v[b] : b \in To(w, p, "files")})],
     verify |-> [w \in Tasks |-> plan.verify[w] \cup {v[b] : b \in To(w, p, "verify")}],
     disk   |-> plan.disk,
     open   |-> plan.open \ Bindings(p)]

Revised(p) == IF Bindings(p) = {} THEN stored.rev ELSE stored.rev + 1

(* A mutation: the consumers of the plan under way keep the contract they had.*)
ActivatedInStoreOnly(p, v) ==
    /\ stored' = [plan |-> Bound(live, p, v), rev |-> Revised(p)]
    /\ reports' = [reports EXCEPT ![p] = Revised(p)] /\ UNCHANGED live

(* One transaction: the plan with the bindings in it, its revision, and the *)
(* report; then the consumers of the plan under way, in place.              *)
Activated(p, v) ==
    /\ live' = Bound(live, p, v)
    /\ stored' = IF Bindings(p) = {} THEN stored
                 ELSE [plan |-> Bound(live, p, v), rev |-> stored.rev + 1]
    /\ reports' = [reports EXCEPT ![p] = Revised(p)]

Bind ==
    /\ turn.phase = "report" /\ turn.says = "satisfied" /\ Applicable(W)
    /\ Activated(W, turn.report)
    /\ turn' = [NoTurn EXCEPT !.task = W, !.phase = "settle"]
    /\ past' = [past EXCEPT !.bound = @ \cup {<<b, turn.report[b]>> : b \in Bindings(W)},
                            !.loose = @ \cup {b.to : b \in Bindings(W)},
                            !.settled = @ \ {<<b.to, turn.report[b]>> : b \in Bindings(W)}]
    /\ UNCHANGED <<shape, held, rows, run, work, asked>>

BindRefused ==
    /\ turn.phase = "report" /\ turn.says = "satisfied" /\ ~Applicable(W)
    /\ Fails(W, "failed_verification")
    /\ UNCHANGED <<plans, held, reports, work, asked, past>>

----------------------------------------------------------------------------
(* Mutating                                                                 *)

(* inferVerifyContract: the probes that are declared, or what the wording   *)
(* asks of the first declared file: to be committed, to be on disk, both or *)
(* neither.  A sub-task of neither owes nothing.                            *)
Explicit(plan, w) == plan.verify[w] \cup plan.disk[w] # {}
First(plan, w) == IF plan.files[w] = <<>> THEN {} ELSE {Head(plan.files[w])}
Inferred(plan, w, wording) == IF wording \in shape.asks[w] THEN First(plan, w) ELSE {}

Committed(plan, w) ==
    IF Explicit(plan, w) THEN plan.verify[w] ELSE Inferred(plan, w, "commit")
OnDisk(plan, w) == IF Explicit(plan, w) THEN plan.disk[w] ELSE Inferred(plan, w, "write")
Declared(plan, w) == Committed(plan, w) \cup OnDisk(plan, w)

(* rederiveContractPath: a path nothing bears out, and a remap that was     *)
(* learnt from a file that is there; a test's place is no evidence for      *)
(* another artifact.                                                        *)
Rederived(p, real) ==
    IF p \notin real \cup Tree /\ Evidence[p] \cap real # {} /\ (Drift[p] \in Tests => p \in Tests)
    THEN Drift[p] ELSE p

(* reconcileTestContractPaths: the one test that was not touched and the    *)
(* one touched test that nothing claims are the same.                       *)
Reconciles(contract, touched) ==
    {f \in Tests \X Tests :
        {f[1]} = (contract \cap Tests) \ touched /\ {f[2]} = (touched \cap Tests) \ contract}

Replaced(contract, fixes) ==
    {p \in contract : \A f \in fixes : f[1] # p}
        \cup {q \in Paths : \E p \in contract : <<p, q>> \in fixes}

Fixes(w, touched) ==
    LET declared == Declared(live, w)
        drifted  == {<<p, Rederived(p, found \cup touched)>> : p \in declared}
        moved    == {f \in drifted : f[1] # f[2]}
    IN  moved \cup Reconciles(Replaced(declared, moved), touched)

(* The files without those that are gone, and the first of each.            *)
Distinct(files, gone) ==
    FoldLeft(LAMBDA out, p : IF p \in gone \cup ToSet(out) THEN out ELSE Append(out, p),
             <<>>, files)

(* applyPathCorrections, to the plan of the run only: in place, duplicates  *)
(* collapsed.                                                               *)
Corrected(files, fixes) ==
    Distinct([i \in DOMAIN files |->
                 IF \E f \in fixes : f[1] = files[i]
                 THEN (CHOOSE f \in fixes : f[1] = files[i])[2] ELSE files[i]], {})

FileSets == {c \in SUBSET Paths : Cardinality(c) <= MaxFiles}

(* History: a correction opens anew the path it corrects to, and all that   *)
(* was settled of a sub-task one of whose paths is on the branch and gets   *)
(* the name of a file that is not committed.                                *)
Reopened(fixes, commit) ==
    {e \in past.settled :
        e[1] = W /\ \E f \in fixes : f[2] = e[2] \/ (f[1] \in branch /\ f[2] \notin commit)}

(* A worker's turn: what it committed, what it left uncommitted in its      *)
(* worktree, and how its last message reads (after a commit, whether a      *)
(* policy refused the rest).  The contract is fixed by its first turn; in   *)
(* a later cycle a worker that did nothing is not held to one.  A first     *)
(* cycle looks on disk for files that this attempt wrote.                   *)
Worked(commit, left, says) ==
    /\ turn.phase = "turn" /\ W \in Works
    /\ branch' = branch \cup commit /\ found' = found \cup commit \cup left
    /\ written' = IF run.cycle = 1 THEN [written EXCEPT ![W] = @ \cup commit] ELSE written
    /\ LET first == turn.tries = 0
           idle  == first /\ run.cycle > 1 /\ commit \cup left = {}
           fixes == IF idle THEN {}
                    ELSE IF first THEN Fixes(W, commit \cup left) ELSE turn.fixes
           owed(kind, before) == IF idle THEN {}
                                 ELSE IF first THEN Replaced(Replaced(kind, fixes), fixes)
                                 ELSE before
       IN  /\ turn' = [turn EXCEPT !.phase = "judge", !.commit = commit, !.dirty = left # {},
                 !.says = says, !.fixes = fixes,
                 !.contract = owed(Committed(live, W), @),
                 !.disk = owed(OnDisk(live, W), @) \
                              (IF run.cycle = 1 THEN commit \cup left ELSE {})]
           /\ live' = IF first THEN [live EXCEPT !.files[W] = Corrected(@, fixes)] ELSE live
           /\ past' = IF idle THEN [past EXCEPT !.loose = @ \cup {W}]
                      ELSE [past EXCEPT !.settled = @ \ Reopened(fixes, commit)]
    /\ UNCHANGED <<shape, stored, held, db, run, asked>>

WorkTurn ==
    \E commit, left \in FileSets, says \in {"progress", "decides", "nothing"} :
        /\ commit \cup left \in FileSets /\ (commit # {} => says # "progress")
        /\ Worked(commit, left, says)

(* verifySubTaskOutput: a first cycle looks at what the sub-task committed  *)
(* and wrote, a later one at the branch.  A commit_made asks for a commit   *)
(* of this turn; the one that is inferred comes with the wording.           *)
Lacking == turn.contract \ (IF run.cycle = 1 THEN written[W] ELSE branch)
Missing == Lacking \cup (IF run.cycle = 1 THEN turn.disk ELSE turn.disk \ branch)

OwesCommit ==
    \/ "made" \in shape.asks[W]
    \/ "commit" \in shape.asks[W] /\ ~Explicit(live, W)
LetOff == turn.tries = 0 /\ run.cycle > 1 /\ ~turn.dirty
Unmade == OwesCommit /\ turn.commit = {} /\ ~LetOff

Unmet == Missing # {} \/ Unmade
Judging == turn.phase = "judge"

Verified ==
    /\ Judging /\ ~Unmet /\ turn' = [NoTurn EXCEPT !.task = W, !.phase = "settle"]
    /\ UNCHANGED <<plans, held, db, run, work, asked, past>>

Settle ==
    /\ turn.phase = "settle" /\ Put(W, "completed") /\ Complete(W) /\ turn' = NoTurn
    /\ held' = held \cup ({W} \cap Probes)
    /\ UNCHANGED <<plans, reports, work, asked, past>>

(* A turn without an effect is retried: what the harness can correct as     *)
(* often as configured, the rest once and in a first cycle only.            *)
Budget == IF turn.says = "progress" THEN MaxTries - 1 ELSE 1
MayRetry ==
    /\ turn.commit = {} /\ turn.says # "decides" /\ turn.tries < Budget
    /\ run.cycle = 1 \/ turn.says = "progress"

Retry ==
    /\ Judging /\ Unmet /\ MayRetry
    /\ turn' = [turn EXCEPT !.phase = "turn", !.tries = @ + 1]
    /\ UNCHANGED <<plans, held, db, run, work, asked, past>>

(* In a later cycle a worker that made no commit and left nothing behind    *)
(* has nothing to change.                                                   *)
Agrees == run.cycle > 1 /\ turn.commit = {} /\ ~turn.dirty
NothingToChange ==
    /\ Judging /\ Unmet /\ ~MayRetry /\ Agrees
    /\ Put(W, "completed_no_change") /\ Complete(W) /\ turn' = NoTurn
    /\ past' = [past EXCEPT !.loose = @ \cup {W}]
    /\ UNCHANGED <<plans, held, reports, work, asked>>

(* The failure: a question when the worker said something a human can       *)
(* decide, a mismatch when it committed elsewhere.                          *)
Failed == Judging /\ Unmet /\ ~MayRetry /\ ~Agrees
FailVerification ==
    /\ Failed /\ (turn.says = "decides" => turn.commit # {}) /\ turn.commit = {}
    /\ Fails(W, "failed_verification")
    /\ UNCHANGED <<plans, held, reports, work, asked, past>>

(* A refusal or a blocker; or a denial by policy, whatever was committed.   *)
(* (History: what was settled of a sub-task that is asked about for want of *)
(* a commit alone is open again.)                                           *)
AskDecision ==
    /\ Failed /\ turn.says = "decides"
    /\ Put(W, "failed_verification")
    /\ Pauses([NothingAsked EXCEPT !.task = W, !.commit = turn.commit # {}])
    /\ past' = IF Missing # {} THEN past
               ELSE [past EXCEPT !.settled = {e \in @ : e[1] # W}]
    /\ UNCHANGED <<plans, held, reports, work>>

Mismatch ==
    /\ Failed /\ turn.commit # {} /\ turn.says # "decides"
    /\ Put(W, "failed_verification") /\ turn' = [turn EXCEPT !.phase = "rescue"]
    /\ UNCHANGED <<plans, held, reports, run, work, asked, past>>

(* proposeBasenameRescue, proposeDirectoryRescue: of a single path.         *)
Rescues ==
    {f \in Twins : Missing = {f[1]} /\ turn.commit = {f[2]}}
        \cup {f \in Inside : Missing = {f[1]}
                              /\ {q \in turn.commit : <<f[1], q>> \in Inside} = {f[2]}}

Rescued ==
    /\ turn.phase = "rescue"
    /\ \E f \in Rescues :
        /\ live' = [live EXCEPT !.files[W] = Corrected(@, {f})]
        /\ past' = [past EXCEPT !.settled = @ \ {<<W, f[2]>>}]
    /\ Put(W, "completed") /\ Complete(W) /\ turn' = NoTurn
    /\ UNCHANGED <<shape, stored, held, reports, work, asked>>

(* A mutation: one path the branch has is enough.                           *)
CoveredSome == Missing \cap branch # {}

(* autoResolveContract: what the sub-task did not touch was changed on the  *)
(* branch before.                                                           *)
Covered == Missing \ turn.commit # {} /\ Missing \ turn.commit \subseteq branch

AutoResolved ==
    /\ turn.phase = "rescue" /\ Rescues = {} /\ Covered
    /\ Put(W, "completed") /\ Complete(W) /\ turn' = NoTurn
    /\ UNCHANGED <<plans, held, reports, work, asked, past>>

(* The question names what was expected, with the names the stored plan     *)
(* has for it, and what was committed instead.                              *)
AskMismatch ==
    /\ turn.phase = "rescue" /\ Rescues = {} /\ ~Covered
    /\ LET renamed(missing) == {f \in turn.fixes : f[2] \in missing}
       IN  Pauses([task |-> W, commit |-> TRUE, expected |-> Missing, actual |-> turn.commit,
                   originals |-> {f[1] : f \in renamed(Missing)},
                   declared  |-> {f[1] : f \in renamed(Lacking)}
                                     \cup (Lacking \ {f[2] : f \in renamed(Lacking)})])
    /\ UNCHANGED <<plans, held, db, work, past>>

----------------------------------------------------------------------------
(* The answer                                                               *)

Rowed(s) == {c \in Cycles : rows[c][s] # "none"}
Latest(s) == CHOOSE c \in Rowed(s) : \A d \in Rowed(s) : d <= c
Marked(s, verdict) == [rows EXCEPT ![Latest(s)][s] = verdict]

(* hydrateObserveReports: the reports of the revision that is stored.       *)
Hydrated(rev) == {p \in Probes : reports[p] = rev}

Resume(table, plan, rev) ==
    /\ rows' = table /\ stored' = [plan |-> plan, rev |-> rev] /\ live' = plan
    /\ held' = Hydrated(rev) /\ found' = {} /\ asked' = NothingAsked
    /\ run' = NewRun(Completed(table), run.n + 1)
    /\ UNCHANGED <<shape, reports, turn, branch, written>>

Answerable == run.pc = "paused" /\ run.n < MaxRuns

(* A decision: the sub-task is dispatched again, with the answer.           *)
TextAnswer == Answerable /\ Resume(rows, stored.plan, stored.rev) /\ UNCHANGED past

SkipAnswer ==
    /\ Answerable /\ Resume(Marked(asked.task, "completed_no_change"), stored.plan, stored.rev)
    /\ past' = [past EXCEPT !.excused = @ \cup {asked.task}]

(* A mutation: what was asked about is dropped under its last name only.    *)
DroppedLast == asked.expected

Dropped == asked.expected \cup asked.originals

(* The declared paths give way to those that were committed.                *)
AcceptedPlan ==
    [stored.plan EXCEPT !.files[asked.task] = Appended(Distinct(@, Dropped), asked.actual),
                        !.verify[asked.task] = @ \ Dropped, !.disk[asked.task] = @ \ Dropped]

AcceptAnswer ==
    /\ Answerable /\ asked.commit
    /\ IF asked.actual = {} THEN Resume(Marked(asked.task, "completed"), stored.plan, stored.rev)
       ELSE Resume(Marked(asked.task, "completed"), AcceptedPlan, stored.rev + 1)
    /\ past' = [past EXCEPT !.excused = @ \cup {asked.task},
                    !.settled = @ \cup {<<asked.task, p>> : p \in asked.declared},
                    !.bound = {e \in @ : e[1].to # asked.task \/ e[2] \notin Dropped}]

AbortAnswer ==
    /\ run.pc = "paused" /\ run' = [run EXCEPT !.pc = "ended"]
    /\ UNCHANGED <<plans, held, db, turn, work, asked, past>>

----------------------------------------------------------------------------

Program ==
    \/ PassOver \/ Dispatch \/ AllDone \/ Reviewed
    \/ TurnLost \/ Observed \/ ReportRetried \/ ReportRefused \/ ReportBlocked
    \/ ScriptedFallback \/ Bind \/ BindRefused
    \/ WorkTurn \/ Verified \/ Settle \/ Retry \/ NothingToChange \/ FailVerification
    \/ AskDecision \/ Mismatch \/ Rescued \/ AutoResolved \/ AskMismatch

Answer == TextAnswer \/ SkipAnswer \/ AcceptAnswer \/ AbortAnswer

ContractsNext == Program \/ Answer
ContractsSpec == ContractsInit /\ [][ContractsNext]_contractsVars

(* The driver awaits every call it makes, and every call has a timer.       *)
ContractsFair == ContractsSpec /\ WF_contractsVars(Program)

----------------------------------------------------------------------------
(* Properties                                                               *)

(* What is put before the reviewer has every artifact the plan asks to have *)
(* committed, by a probe or by the wording of a sub-task, under the name it *)
(* was given or one the harness came to from there, name by recognised      *)
(* name: no retry, correction, rescue, settlement from the branch or        *)
(* continuation accepts a sub-task whose paths were never committed.  (A    *)
(* correction stays with its run, so a continuation starts from the old     *)
(* name, and one run may end at a name another set out from.)  Left out are *)
(* sub-tasks that a human excused, that found nothing to change in a later  *)
(* cycle or were bound anew since they were judged.  A sub-task whose       *)
(* wording asks for no commit owes none: see EveryWorkerCommits below.      *)
Recognised(p, q) == q = Drift[p] \/ <<p, q>> \in Twins \cup Inside \/ {p, q} \subseteq Tests

SameArtifact(p, q) ==
    \A names \in SUBSET Paths :
        p \in names /\ (\A x \in names, y \in Paths : Recognised(x, y) => y \in names)
            => q \in names

ReviewedContractsAreMet ==
    run.pc = "review" =>
        \A w \in Works \ (past.excused \cup past.loose) :
            \A p \in Committed(live, w) : \E q \in branch : SameArtifact(p, q)

(* A worker is never sent out on a contract that its probes have not been   *)
(* bound into: validated bindings reach every dependent before dispatch, in *)
(* the run that made them and in the ones that continue it.  A probe that a *)
(* human skipped, or the check scripts stood in for, binds nothing.         *)
ConsumersAreBound ==
    W \in Works =>
        \A b \in {c \in shape.binds : c.to = W /\ c.of \in shape.needs[W] \ past.excused} :
            /\ reports[b.of] # -1 /\ b \notin live.open
            /\ b.field = "verify" =>
                  \A v \in Paths : <<b, v>> \in past.bound => v \in live.verify[W]

(* What a human accepted is not asked about again as something to commit,   *)
(* unless a probe binds it anew, the harness renames another path to it or  *)
(* one that is on the branch to a file that was left uncommitted, or the    *)
(* sub-task was asked about for want of any commit: the stored contract has *)
(* lost the disproven paths under every name they had.                      *)
AcceptedIsNotAskedAgain ==
    \A p \in asked.declared : <<asked.task, p>> \notin past.settled

(* A run of the session never goes on for ever: it is reviewed, pauses for  *)
(* a human or ends, whatever the workers and the probes answer.             *)
ContractsEnd == run.pc = "running" ~> run.pc # "running"

-----------------------------------------------------------------------------
(* What docs and comments claim, and TLC refutes (README, section 14)      *)

(* A worker has the report of every validated probe it depends on, also in  *)
(* the run that continues after an answer.                                  *)
ReportsSurvive ==
    W \in Works => \A p \in shape.needs[W] \cap run.done \cap Probes : reports[p] # -1 => p \in held

(* A sub-task that changes the repository (taskMode "mutate") "produces new *)
(* artifacts": none is reviewed as completed in a first cycle with nothing  *)
(* committed.  (Without commit wording nothing asks for one, and what a     *)
(* probe finds on disk need not be committed.)                              *)
EveryWorkerCommits ==
    run.pc = "review" /\ run.cycle = 1 /\ run.n = 1 => \A w \in Works : written[w] # {}
=============================================================================
