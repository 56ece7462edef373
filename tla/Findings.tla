------------------------------ MODULE Findings ------------------------------
(***************************************************************************)
(* The life of a reviewer's findings: how they are matched across reviews  *)
(* (orchestrator/finding-lifecycle.ts and the findings table), when one    *)
(* argues for another cycle or blocks a merge (finding-classify.ts,        *)
(* adversary.ts), and which sub-task of the plan is made to work on it     *)
(* (revise-mapping.ts, cross-cutting-findings.ts, revise-scope.ts and the  *)
(* head of a cycle of loop.ts).                                            *)
(*                                                                         *)
(* A defect is what two findings that are "equivalent" have in common;     *)
(* the reviewer may raise any of them in any review, fixed or not.         *)
(***************************************************************************)
EXTENDS Naturals, FiniteSets, FiniteSetsExt, Sequences, SequencesExt

CONSTANTS Files,        \* files of the repository
          Defects,      \* the defects a review may raise
          Shapes,       \* what the defects may be: functions from Defects to records
          Plans,        \* the plans a run may start with: sequences of tasks
          Depends,      \* dependsOn: pairs of sequence numbers of a plan
          MaxCycles,    \* config.loop.max_cycles
          MaxRuns,      \* bound: runs over the same session
          MaxAdoptions  \* config.loop.revise_max_adoptions_per_cycle

NoFile == "no file"
Severities == {"low", "medium", "high"}
Kinds == {"code", "env"}       \* a defect of the diff, a blocker of verification
Lifecycle == {"open", "late_discovery", "resolved", "stale", "environment_blocked"}

Sources == {"review", "scripts", "config", "scope", "types"}   \* who raises it

(* A sub-task of a plan: what it may write, what it reads, and where the    *)
(* former come from.                                                        *)
Tasks == [title : Files \cup {NoFile}, files : SUBSET Files, reads : SUBSET Files,
          granted : SUBSET Files, approved : SUBSET Files, declared : SUBSET Files]

ASSUME FindingsAssumption ==
    /\ {MaxCycles, MaxRuns} \subseteq Nat \ {0} /\ MaxAdoptions \in Nat
    /\ IsFiniteSet(Files) /\ IsFiniteSet(Defects)
    /\ Plans \subseteq Seq(Tasks)
    /\ Shapes \subseteq [Defects -> [by : Sources, file : Files \cup {NoFile}, related : SUBSET Files,
                                     severity : Severities, kind : Kinds]]

VARIABLES
    defects,   \* what each defect is
    plan,      \* the plan's sub-tasks: their files, what they read, what was granted
    cycle,     \* the cycle of the run, 0 before the first
    runs,      \* runs started
    phase,     \* "route", "work", "review" or "end"
    changed,   \* files this cycle's workers committed
    branch,    \* files the branch changes, of those a gate may report
    record,    \* the findings table
    report,    \* the last review of the run: each raised defect's state, or "none"
    verdict,   \* its verdict
    before,    \* defects raised by the review before it, in this run
    carried,   \* <<s, d>>: sub-task s is answerable for d in this cycle
    assisted,  \* <<s, d>>: sub-task s supports the fix of d
    skip,      \* sub-tasks this cycle does not run
    outcome,   \* the recommendation of a run that ended, or "none"
    gated,     \* history: what the gates raised in the last review
    past       \* history: per defect, "new", "owed" (live since) or "closed" (not raised)

findingVars == <<defects, plan, cycle, runs, phase, changed, branch, record, report,
                 verdict, before, carried, assisted, skip, outcome, gated, past>>

File(d) == defects[d].file
Raised == {d \in Defects : report[d] # "none"}

(* A finding that is not settled, and is at least medium (a finding whose  *)
(* record could not be reconciled has no state, and counts as live).        *)
Settled(d) == report[d] \in {"resolved", "stale"}
AtLeastMedium(d) == defects[d].severity \in {"medium", "high"}
Blocking(d) == d \in Raised /\ ~Settled(d) /\ AtLeastMedium(d) /\ defects[d].kind = "code"
BlocksMerge(d) == d \in Raised /\ ~Settled(d) /\ AtLeastMedium(d)

FindingsTypeOK ==
    /\ cycle \in 0 .. MaxCycles /\ runs \in 1 .. MaxRuns
    /\ phase \in {"route", "work", "review", "end"}
    /\ changed \cup branch \subseteq Files /\ {before, gated} \subseteq SUBSET Defects
    /\ past \in [Defects -> {"new", "owed", "closed"}]
    /\ defects \in Shapes
    /\ plan \in Seq(Tasks)
    /\ record \in [Defects -> Lifecycle \cup {"none"}]
    /\ report \in [Defects -> Lifecycle \cup {"none", "raw"}]
    /\ verdict \in {"none", "pass", "revise", "block"}
    /\ carried \cup assisted \subseteq (DOMAIN plan) \X Defects
    /\ skip \subseteq DOMAIN plan /\ skip # DOMAIN plan
    /\ outcome \in {"none", "merge", "do_not_merge", "failed"}

Nowhere == [d \in Defects |-> "none"]

FindingsInit ==
    /\ defects \in Shapes /\ plan \in Plans
    /\ cycle = 0 /\ runs = 1 /\ phase = "route" /\ changed = {} /\ branch = {} /\ gated = {}
    /\ record = Nowhere /\ report = Nowhere /\ verdict = "none" /\ before = {}
    /\ carried = {} /\ assisted = {} /\ skip = {} /\ outcome = "none"
    /\ past = [d \in Defects |-> "new"]

----------------------------------------------------------------------------
(* Routing: which sub-task works on which finding.                          *)

(* Findings some worker may act on: not settled, not an environment's.      *)
IsRoutableLifecycle(d) == d \in Raised /\ report[d] \in {"open", "late_discovery", "raw"}
IsRoutable(d) == IsRoutableLifecycle(d) /\ File(d) # NoFile

Owned(p, s) == p[s].files \cup p[s].reads
Owners(p, d) == {s \in DOMAIN p : File(d) \in Owned(p, s)}
Misses(p) == {d \in Defects : IsRoutable(d) /\ Owners(p, d) = {}}

(* Raised by this review and by the one before it.                          *)
Stuck == Raised \cap before

(* groupUnownedFindingsForRepair: a finding joins the first group that has  *)
(* one of its files.                                                        *)
GroupWith(groups, d) ==
    LET mine == {File(d)} \cup defects[d].related
        hits == {i \in DOMAIN groups : groups[i].files \cap mine # {}}
    IN  IF hits = {} THEN Append(groups, [title |-> File(d), files |-> mine])
        ELSE [groups EXCEPT ![Min(hits)].files = @ \cup mine]

(* Mutant of Repaired: the new sub-task is not given the group's files.     *)
RepairedUngranted(p, group) ==
    Append(p, [title |-> group.title, files |-> {}, reads |-> {}, granted |-> {}, approved |-> {},
               declared |-> {}])

(* addFindingRepairSubTasks: one sub-task per group, refreshed when the     *)
(* plan already has it.                                                     *)
Repaired(p, group) ==
    LET same == {s \in DOMAIN p : p[s].title = group.title}
    IN  IF same = {} THEN Append(p, [title |-> group.title, files |-> group.files, reads |-> {},
                                     granted |-> {}, approved |-> {}, declared |-> group.files])
        ELSE [p EXCEPT ![Min(same)].files = @ \cup group.files,
                       ![Min(same)].declared = @ \cup group.files]

WithRepairs(p, unowned) ==
    FoldLeft(Repaired, p, FoldLeft(GroupWith, <<>>, SetToSeq(unowned)))

(* adoptOrphanFindings: a finding without an owner goes to the sub-task     *)
(* with the nearest path, if any is near; how near is the plan's data.      *)
Adoptions(p, orphans) ==
    UNION {[ds -> {s \in DOMAIN p : Owned(p, s) # {}}] :
              ds \in {x \in SUBSET orphans : Cardinality(x) <= MaxAdoptions}}

(* Who else a fix needs: the sub-tasks that own one of its other files, by  *)
(* the plan and not by an earlier grant; what nobody owns falls to the      *)
(* finding's primary owner.  tgt is who carries what before this.           *)
OwnedByPlan(p, s) == Owned(p, s) \ p[s].granted
Extras(d) == defects[d].related \ {File(d)}
Prior(tgt, d) == {pair[1] : pair \in {q \in tgt : q[2] = d}}
Recruits(p, tgt, d) ==
    {s \in DOMAIN p : OwnedByPlan(p, s) \cap Extras(d) # {} /\ (<<s, d>> \in tgt => d \in Stuck)}
Matched(p, tgt, d) == UNION {OwnedByPlan(p, s) \cap Extras(d) : s \in Recruits(p, tgt, d)}
Fallback(p, tgt, d) ==
    IF Extras(d) \subseteq Matched(p, tgt, d) \/ Prior(tgt, d) = {} THEN {} ELSE {Min(Prior(tgt, d))}
Widened(p, tgt, d) ==
    IF IsRoutableLifecycle(d) THEN Recruits(p, tgt, d) \cup Fallback(p, tgt, d) ELSE {}
Granted(p, tgt, d) == IF Fallback(p, tgt, d) = {} THEN Matched(p, tgt, d) ELSE Extras(d)
Primary(p, tgt, d) ==
    IF Prior(tgt, d) # {} THEN Min(Prior(tgt, d)) ELSE Min(Recruits(p, tgt, d))

(* mapFindingsToSubTasks, with the findings adopted.                        *)
Direct(p, adopted) ==
    {pair \in (DOMAIN p) \X Defects : IsRoutable(pair[2]) /\ pair[1] \in Owners(p, pair[2])}
        \cup {<<adopted[d], d>> : d \in DOMAIN adopted}
Carriers(p, tgt) == tgt \cup {<<Primary(p, tgt, d), d>> : d \in {x \in Defects : Widened(p, tgt, x) # {}}}
Assistants(p, tgt) ==
    {pair \in (DOMAIN p) \X Defects :
        pair[1] \in Widened(p, tgt, pair[2]) /\ pair[1] # Primary(p, tgt, pair[2])}

(* The plan keeps what a cycle adopted, what it granted and, as approved    *)
(* scope, the files of the findings somebody is answerable for.             *)
GrantsTo(p, tgt, s) == UNION {Granted(p, tgt, d) : d \in {x \in Defects : s \in Widened(p, tgt, x)}}
AdoptedBy(adopted, s) == {File(d) : d \in {x \in DOMAIN adopted : adopted[x] = s}}
Approved(tgt, s) == {File(d) : d \in {x \in Defects : <<s, x>> \in tgt}}
Widening(p, tgt, adopted) ==
    [s \in DOMAIN p |->
        [p[s] EXCEPT !.approved = @ \cup Approved(tgt, s),
                     !.files = @ \cup AdoptedBy(adopted, s) \cup GrantsTo(p, tgt, s),
                     !.granted = @ \cup GrantsTo(p, tgt, s)]]

(* computeReviseScope: the sub-tasks whose files no finding names are not   *)
(* run again, unless one that is depends on them, or nothing can be told.   *)
Needed(p, keep) ==
    LET closed == {k \in SUBSET DOMAIN p :
                     keep \subseteq k /\ \A e \in Depends : e[1] \in k /\ e[2] \in DOMAIN p => e[2] \in k}
    IN  {s \in DOMAIN p : \A k \in closed : s \in k}
Skipped(p) ==
    LET named == {File(d) : d \in Raised} \ {NoFile}
        unfiled == \E d \in Raised : File(d) = NoFile /\ AtLeastMedium(d)
        keep == {s \in DOMAIN p : p[s].files = {} \/ p[s].files \cap named # {}}
    IN  IF unfiled \/ named = {} \/ keep = {} THEN {} ELSE DOMAIN p \ Needed(p, keep)

----------------------------------------------------------------------------
(* The head of a cycle: the first runs every sub-task, a later one routes   *)
(* the findings of the last review.                                         *)
FirstCycle ==
    /\ cycle = 0
    /\ carried' = {} /\ assisted' = {} /\ skip' = {} /\ UNCHANGED plan

RouteFindings ==
    /\ cycle > 0
    /\ \E first \in {x \in SUBSET Misses(plan) : Cardinality(x) <= MaxAdoptions} :
        LET p == WithRepairs(plan, Misses(plan) \ first) IN
        \E adopted \in Adoptions(p, first \cap Misses(p)) :
            LET tgt == Direct(p, adopted) IN
            /\ DOMAIN adopted = first \cap Misses(p)
            /\ plan' = Widening(p, tgt, adopted)
            /\ carried' = Carriers(p, tgt) /\ assisted' = Assistants(p, tgt)
            /\ skip' = Skipped(plan')

Route ==
    /\ phase = "route" /\ cycle < MaxCycles
    /\ FirstCycle \/ RouteFindings
    /\ cycle' = cycle + 1 /\ phase' = "work" /\ UNCHANGED <<changed, branch>>
    /\ UNCHANGED <<defects, runs, record, report, verdict, before, outcome, gated, past>>

(* Files a gate may name.                                                   *)
Watched == {File(d) : d \in {x \in Defects : defects[x].by \in {"scope", "types"}}} \ {NoFile}

(* The workers commit something, or nothing; some of it takes back what was *)
(* committed before.                                                        *)
Work ==
    /\ phase = "work"
    /\ changed' \in SUBSET Files
    /\ \E reverted \in SUBSET (branch \cap changed') :
            branch' = (branch \cup (changed' \cap Watched)) \ reverted
    /\ phase' = "review"
    /\ UNCHANGED <<defects, plan, cycle, runs, record, report, verdict, before, carried, assisted,
                   skip, outcome, gated, past>>

(* The locals of a cycle.                                                   *)
CycleOver == changed' = {} /\ carried' = {} /\ assisted' = {} /\ skip' = {}

End(o) == phase' = "end" /\ outcome' = o

(* deriveMergeRecommendation: a pass is held by what blocks a merge, a      *)
(* revise only by what is worth another cycle, which the environment's is   *)
(* not.                                                                     *)
Recommended ==
    IF \/ verdict' = "pass" /\ \A d \in Defects : ~BlocksMerge(d)'
       \/ verdict' = "revise" /\ \A d \in Defects : ~Blocking(d)'
    THEN "merge" ELSE "do_not_merge"

(* A revise cycle that committed nothing needs no review: the last one      *)
(* decides.                                                                 *)
EarlyExit ==
    /\ phase = "review" /\ cycle > 1 /\ changed = {}
    /\ UNCHANGED <<defects, verdict, report>>
    /\ IF verdict = "pass" \/ (verdict = "revise" /\ \A d \in Defects : ~Blocking(d))
       THEN End(Recommended) ELSE End("failed")
    /\ CycleOver
    /\ UNCHANGED <<plan, cycle, runs, branch, record, before, gated, past>>

----------------------------------------------------------------------------
(* The deterministic gates, which run before the review.                    *)

(* runFinalVerifyChecks: a check script of the repository failed, or ran    *)
(* out of memory.                                                           *)
ScriptFails(d) == defects[d].by = "scripts" /\ File(d) = NoFile

(* runGeneratorConfigCheck: a generator is misconfigured or missing.        *)
GeneratorUnusable(d) == defects[d].by = "config" /\ File(d) = NoFile

(* runFinalScopeCheck: the branch changes a file outside the declared and   *)
(* the approved scope.                                                      *)
InScope == UNION {plan[s].files \cup plan[s].approved : s \in DOMAIN plan}
OutOfScope(d) == defects[d].by = "scope" /\ File(d) \in branch \ InScope

(* runTypecheckGate: the compiler reports a file the branch changes, or     *)
(* could not run.                                                           *)
TypecheckFails(d) ==
    defects[d].by = "types" /\ (defects[d].kind = "env" \/ File(d) \in branch)

(* The scope check always reports what it finds; whether the others fail is *)
(* the repository's affair.                                                 *)
Gates ==
    {g \in SUBSET {d \in Defects : ScriptFails(d) \/ GeneratorUnusable(d) \/ OutOfScope(d)
                                   \/ TypecheckFails(d)} :
        \A d \in Defects : OutOfScope(d) => d \in g}

(* ScopeBlowoutError: with too many files out of scope there is no review.  *)
ScopeBlowout ==
    /\ phase = "review" /\ \E d \in Defects : OutOfScope(d)
    /\ End("failed") /\ CycleOver
    /\ UNCHANGED <<defects, plan, cycle, runs, branch, record, report, verdict, before, gated,
                   past>>

(* Mutant of Merged: the gates' findings are attached, and no more.         *)
MergedAsIs(v, gates) == v

(* A failed gate takes a pass back to revise when its finding is blocking.  *)
Merged(v, gates) ==
    IF v = "pass" /\ \E d \in gates : defects[d].kind = "code" /\ AtLeastMedium(d)
    THEN "revise" ELSE v

(* gateVerdict: a revise verdict none of whose findings is both a defect of *)
(* the diff and new since the last review becomes a pass.                   *)
GatedVerdict(v, now) ==
    IF v = "revise" /\ \A d \in now : defects[d].kind # "code" \/ ~AtLeastMedium(d) \/ d \in Raised
    THEN "pass" ELSE v

(* lateDiscoveryReason.                                                     *)
Exposed(d) == defects[d].related \cap changed # {}
Admitted(d) == Exposed(d) \/ defects[d].severity = "high" \/ defects[d].by = "scope"
(* Mutant of StateOf: a finding that is already open is taken for a new one. *)
StateOfAfresh(d) ==
    IF defects[d].kind = "env" THEN "environment_blocked"
    ELSE IF cycle = 1 \/ File(d) \in changed THEN "open"
    ELSE IF Admitted(d) THEN "late_discovery" ELSE "stale"

(* reconcileFindings: what becomes of a finding that is raised ...          *)
StateOf(d) ==
    CASE defects[d].kind = "env" -> "environment_blocked"
      [] defects[d].kind = "code" /\ record[d] = "resolved" ->
            IF File(d) \in changed THEN "open" ELSE "stale"
      [] defects[d].kind = "code" /\ record[d] = "none" ->
            IF cycle = 1 \/ File(d) \in changed THEN "open"
            ELSE IF Admitted(d) THEN "late_discovery" ELSE "stale"
      [] OTHER -> record[d]
(* ... and of one that is not: it is closed.                                *)
Unraised(d) == IF record[d] \in {"open", "late_discovery"} THEN "resolved" ELSE record[d]

Reconcile(now) ==
    /\ record' = [d \in Defects |-> IF d \in now THEN StateOf(d) ELSE Unraised(d)]
    /\ report' = [d \in Defects |-> IF d \in now THEN StateOf(d) ELSE "none"]
    /\ LET closed == {d \in Defects : record[d] # "resolved" /\ record'[d] = "resolved"}
       IN  past' = [d \in Defects |->
                IF record'[d] \in {"open", "late_discovery"} THEN "owed"
                ELSE IF d \in closed THEN "closed" ELSE past[d]]

(* The reconciliation failed: the run goes on with the raw findings.        *)
ReconcileFails(now) ==
    /\ report' = [d \in Defects |-> IF d \in now THEN "raw" ELSE "none"]
    /\ UNCHANGED <<record, past>>

(* What the verdict and the findings decide: to ship, to fail, or to run    *)
(* another cycle while there is one.                                        *)
Decide ==
    \/ /\ verdict' = "block" /\ End("failed")
    \/ /\ verdict' = "pass" \/ (verdict' = "revise" /\ \A d \in Defects : ~Blocking(d)')
       /\ End(Recommended)
    \/ /\ verdict' = "revise" /\ \E d \in Defects : Blocking(d)'
       /\ IF cycle = MaxCycles THEN End(Recommended) ELSE phase' = "route" /\ UNCHANGED outcome

Review ==
    /\ phase = "review"
    /\ UNCHANGED <<defects, plan, cycle, runs, branch>> /\ CycleOver
    /\ \E said \in SUBSET {d \in Defects : defects[d].by = "review"}, gates \in Gates,
          v \in {"pass", "revise", "block"} :
        /\ verdict' = Merged(GatedVerdict(v, said), gates)
        /\ Reconcile(said \cup gates) \/ ReconcileFails(said \cup gates)
        /\ gated' = gates
    /\ before' = Raised
    /\ Decide

(* The session is run again: its findings and its plan are kept.            *)
RunAgain ==
    /\ phase = "end" /\ runs < MaxRuns
    /\ runs' = runs + 1 /\ cycle' = 0 /\ phase' = "route"
    /\ report' = Nowhere /\ verdict' = "none" /\ before' = {} /\ outcome' = "none"
    /\ gated' = {}
    /\ UNCHANGED <<defects, plan, branch, record, changed, carried, assisted, skip, past>>

FindingsNext == Route \/ Work \/ EarlyExit \/ ScopeBlowout \/ Review \/ RunAgain

FindingsSpec == FindingsInit /\ [][FindingsNext]_findingVars

----------------------------------------------------------------------------
(* Properties                                                               *)

(* A finding somebody could fix, and that names a file, is never left as    *)
(* background: some sub-task that runs is answerable for it, unless its     *)
(* only owners merely read the file (loop.ts, addFindingRepairSubTasks:     *)
(* without a sub-task of its own every worker would decline it).            *)
DefectsAreWorkedOn ==
    phase = "work" /\ cycle > 1 =>
        \A d \in Defects : IsRoutable(d) =>
            LET by == {s \in DOMAIN plan : <<s, d>> \in carried} IN
            /\ by # {}
            /\ \A s \in by : File(d) \in plan[s].files => s \notin skip

(* A merge is recommended over a defect at medium or above only if an       *)
(* earlier review closed it by not raising it, or if it is of medium        *)
(* severity and was first raised too late to count; and over something that *)
(* could not be verified only on a verdict that asks for a revision         *)
(* (reconcileFindings, lateDiscoveryReason, gateVerdict and                 *)
(* deriveMergeRecommendation).                                              *)
MergeOverlooksNothing ==
    outcome = "merge" =>
        \A d \in Raised : AtLeastMedium(d) =>
            \/ past[d] = "closed" \/ (past[d] = "new" /\ defects[d].severity = "medium")
            \/ defects[d].kind = "env" /\ verdict = "revise"

(* A merge is never recommended over a check that failed in the last review *)
(* and whose failure the table counts as live; nor over any that failed or  *)
(* could not run when the reviewer passes the branch: the check takes the   *)
(* pass back, and what lets the merge through then is not the review.       *)
ChecksHoldTheMerge ==
    outcome = "merge" =>
        \A d \in gated : AtLeastMedium(d) => past[d] # "owed" /\ verdict # "pass"

-----------------------------------------------------------------------------
(* What docs and comments claim, and TLC refutes (README, section 14)      *)

(* A file outside the plan is merged only if a reviewer's finding asks for  *)
(* it (loop.ts:3837, "Reviewer-required files are approved scope, not scope *)
(* creep").                                                                 *)
CreepIsRequired ==
    outcome = "merge" =>
        \A d \in Defects : defects[d].by = "scope" /\ File(d) \in branch =>
            \E e \in Defects : /\ defects[e].by = "review" /\ report[e] # "none"
                             /\ File(d) \in {File(e)} \cup defects[e].related

(* What the compiler reports stops the merge (typecheck-gate.ts:89, "this   *)
(* blocks the merge even if the adversary passes").                         *)
TypesStopTheMerge ==
    outcome = "merge" => \A d \in gated : defects[d].by = "types" => ~AtLeastMedium(d)

(* A sub-task of the plan owns the files it was declared with, whatever a   *)
(* fix was granted (loop.ts:3820, "leaving ownership as the plan declared   *)
(* it").                                                                    *)
OwnershipAsDeclared == \A s \in DOMAIN plan : plan[s].declared \subseteq OwnedByPlan(plan, s)

(* A sub-task is left out of a cycle only if no finding is its to fix       *)
(* (loop.ts:4001, "not targeted by any review finding").                    *)
SkippedAreUntargeted ==
    \A s \in skip : \A d \in Defects : <<s, d>> \notin carried \cup assisted
=============================================================================
