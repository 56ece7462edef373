--------------------------- MODULE SessionCycle ---------------------------
(***************************************************************************)
(* One session from an approved plan to its end, as runInner drives it:    *)
(* a cycle executes the sub-tasks and is reviewed; advance() decides whether  *)
(* to ship, go on, give up; a shipped candidate is published, its CI       *)
(* is polled, and a red CI may buy a repair cycle.  Four kinds of grant    *)
(* lengthen a run and two questions to the operator stop it from ending in *)
(* silence.                                                                *)
(*                                                                         *)
(* A review is what the decisions read of it: the verdict, whether and how *)
(* many findings would sustain a revise, and whether one only says that    *)
(* something could not be verified.  Money enters as the answers the cap   *)
(* checks give; the clock as its three regimes.                            *)
(***************************************************************************)
EXTENDS Integers

CONSTANTS
    MaxCycles,       \* loop.max_cycles
    MaxExtensions,   \* loop.max_cycle_extensions
    MaxRepairs,      \* ci.max_repair_cycles
    MaxTimeGrants,   \* time questions a human approves (a bound)
    MaxBlocking,     \* blocking findings of one review (a bound)
    ShipNonBlocking, \* loop.ship_when_no_blocking_findings
    Preview          \* is a preview deployment verified before a pass counts?

ASSUME CyclesAssumption ==
    /\ MaxCycles \in Nat \ {0} /\ MaxExtensions \in Nat /\ MaxRepairs \in Nat
    /\ MaxTimeGrants \in Nat /\ MaxBlocking \in Nat \ {0}
ASSUME ConfigAssumption ==
    ShipNonBlocking \in BOOLEAN /\ Preview \in BOOLEAN

VARIABLES
    required,      \* does the plan require behaviour checks of CI?
    pc,            \* where runInner is
    cycle,
    ext,           \* cycleExtensionsGranted
    timeExt,       \* timeExtensionCyclesGranted
    repairs,       \* ciRepairCyclesGranted
    timeRefused,   \* timeExtensionRefused
    funded,        \* budgetOverrideGranted
    budgetRefused, \* budgetExtensionRefused
    clock,         \* against hardDeadlineMs: "ample", inside the "reserve", or "over"
    review,        \* lastReview
    trend,         \* the first, previous and last entries of blockingCountsByCycle
    changed,       \* has this cycle committed anything (cycleBaseSha against the tip)?
    ci,            \* what the last CI poll reported, "none" before a poll
    verified,      \* behaviorVerificationPassed
    result,        \* status, merge_recommendation and the reason of the ending
    \* history, read by properties only
    judged,        \* an adversary has reviewed something of this session
    seen,          \* the last review saw every commit of a worker
    pushed         \* something was pushed as this session's candidate

grants == <<ext, timeExt, repairs>>
asks   == <<timeRefused, funded, budgetRefused>>
code   == <<changed, seen>>
vars   == <<required, pc, cycle, grants, asks, clock, review, trend, code, ci, verified,
            result, judged, pushed>>

Verdicts == {"pass", "revise", "block"}
Reports  == [verdict : Verdicts, blocking : 0..MaxBlocking, env : BOOLEAN]
NoReview == [verdict |-> "none", blocking |-> 0, env |-> FALSE]
NoTrend  == [first |-> 0, prev |-> 0, last |-> 0]
Red      == {"red", "redSilent"}        \* failed with, and without, logs to repair from
Override == Red \cup {"missing", "timeout", "indeterminate"}
Outcomes == Override \cup {"none", "green", "unregistered"}
Resource == {"hard_timeout", "budget_exhausted", "daily_max_exhausted"}
Reasons  == Resource \cup {"none", "user_abort_reaction", "other"}
Results  == [status : {"running", "done", "failed", "aborted", "paused", "unaccounted"},
             rec : {"none", "merge", "do_not_merge", "needs_human_review"}, why : Reasons]
Going    == [status |-> "running", rec |-> "none", why |-> "none"]

TypeOK ==
    /\ pc \in {"bound", "executing", "gate", "previewing", "deciding",
              "shipping", "published", "polled", "ended"}
    /\ required \in BOOLEAN
    /\ cycle \in Nat /\ ext \in 0..MaxExtensions /\ timeExt \in 0..MaxTimeGrants
    /\ repairs \in 0..MaxRepairs
    /\ timeRefused \in BOOLEAN /\ funded \in BOOLEAN /\ budgetRefused \in BOOLEAN
    /\ clock \in {"ample", "reserve", "over"}
    /\ review \in Reports \cup {NoReview}
    /\ trend \in [first : 0..MaxBlocking, prev : 0..MaxBlocking, last : 0..MaxBlocking]
    /\ changed \in BOOLEAN /\ seen \in BOOLEAN /\ judged \in BOOLEAN /\ pushed \in BOOLEAN
    /\ ci \in Outcomes /\ verified \in BOOLEAN
    /\ result \in Results

Init ==
    /\ required \in BOOLEAN /\ pc = "bound" /\ cycle = 0 /\ ext = 0 /\ timeExt = 0 /\ repairs = 0
    /\ timeRefused = FALSE /\ funded = FALSE /\ budgetRefused = FALSE
    /\ clock = "ample" /\ review = NoReview /\ trend = NoTrend
    /\ changed = FALSE /\ ci = "none" /\ verified = ~required /\ result = Going
    /\ judged = FALSE /\ seen = TRUE /\ pushed = FALSE

-----------------------------------------------------------------------------
(* Endings                                                                 *)

EndedAs(status, rec, why) ==
    pc' = "ended" /\ result' = [status |-> status, rec |-> rec, why |-> why]

Failed == EndedAs("failed", "none", "other") /\ UNCHANGED pushed

\* publishCandidate: a push may go out although the publication then fails.
Unpublished(status, why) == EndedAs(status, "none", why) /\ pushed' \in {pushed, TRUE}

PublishedForHumans(why) == EndedAs("done", "needs_human_review", why) /\ pushed' = TRUE

\* A mutation: the resource ceilings are salvaged without looking for a review.
SalvageUnreviewed(why) ==
    \/ EndedAs("aborted", "none", why) /\ UNCHANGED pushed
    \/ why \in Resource /\ (Unpublished("aborted", why) \/ PublishedForHumans(why))

\* finaliseAbortSalvaging: a resource ceiling ships what an earlier cycle's
\* review vouches for; anything else keeps the worktree.
Salvage(why) ==
    \/ EndedAs("aborted", "none", why) /\ UNCHANGED pushed
    \/ /\ why \in Resource /\ review # NoReview
       /\ Unpublished("aborted", why) \/ PublishedForHumans(why)

\* finaliseReviewCrash, and the best-effort ending of a verify timeout.
Rescue ==
    \/ Failed
    \/ review # NoReview /\ (Unpublished("failed", "other") \/ PublishedForHumans("other"))

-----------------------------------------------------------------------------
(* Executing                                                               *)

\* A mutation: time grants do not lengthen the loop.
BoundOfCycles == MaxCycles + ext + repairs

\* The bound of `while`.
Bound == MaxCycles + ext + repairs + timeExt

Keep == UNCHANGED <<required, cycle, grants, clock, review, trend, code, ci, verified, judged>>

\* The head of `while`; a loop that leaves through its bound ships.
CycleHead ==
    /\ pc = "bound"
    /\ IF cycle < Bound
         THEN pc' = "executing" /\ cycle' = cycle + 1 /\ changed' = FALSE
         ELSE pc' = "shipping" /\ UNCHANGED <<cycle, changed>>
    /\ UNCHANGED <<required, grants, asks, clock, review, trend, seen, ci, verified, result,
                   judged, pushed>>

\* A sub-task commits.
Commit ==
    /\ pc = "executing" /\ changed' = TRUE /\ seen' = FALSE
    /\ UNCHANGED <<required, pc, cycle, grants, asks, clock, review, trend, ci, verified, result,
                   judged, pushed>>

SubTasksDone == pc = "executing" /\ pc' = "gate" /\ Keep /\ UNCHANGED <<asks, result, pushed>>

\* A sub-task fails, pauses for a human, loses its cost record, is stopped, or
\* runs out of verification time.
SubTaskStops ==
    /\ pc = "executing"
    /\ \/ Rescue
       \/ EndedAs("paused", "none", "other") /\ UNCHANGED pushed
       \/ EndedAs("unaccounted", "none", "other") /\ UNCHANGED pushed
       \/ Salvage("user_abort_reaction")
       \/ clock = "over" /\ Salvage("hard_timeout")
    /\ Keep /\ UNCHANGED asks

\* Before a dispatch and before the review: would it pass the daily cap?  An
\* operator who refused once is not asked again; one who granted, never.
DailyCap ==
    /\ pc \in {"executing", "gate"} /\ ~funded
    /\ \/ /\ ~budgetRefused /\ funded' = TRUE
          /\ UNCHANGED <<pc, result, pushed, budgetRefused>>
       \/ budgetRefused' = TRUE /\ Salvage("daily_max_exhausted") /\ UNCHANGED funded
    /\ Keep /\ UNCHANGED timeRefused

-----------------------------------------------------------------------------
(* Reviewing                                                               *)

LedgerUnreachable == pc = "gate" /\ Failed /\ Keep /\ UNCHANGED asks

\* A cycle without a commit is not reviewed again: the last review stands.  (A
\* dirty worktree, or a contract settled without a commit, is reviewed all the same.)
NoChange ==
    /\ pc = "gate" /\ cycle > 1 /\ review # NoReview /\ ~changed
    /\ IF review.verdict = "pass" \/ (review.verdict = "revise" /\ review.blocking = 0 /\ ShipNonBlocking)
         THEN pc' = "shipping" /\ UNCHANGED <<result, pushed>>
         ELSE Failed
    /\ Keep /\ UNCHANGED asks

\* The adversary throws, times out or its report cannot be saved.
ReviewCrash ==
    /\ pc \in {"gate", "previewing"}
    /\ Rescue \/ (EndedAs("unaccounted", "none", "other") /\ UNCHANGED pushed)
    /\ Keep /\ UNCHANGED asks

\* The operator's abort is read again when the report is in.
ReviewDiscarded ==
    /\ pc = "gate" /\ Salvage("user_abort_reaction")
    /\ judged' = TRUE
    /\ UNCHANGED <<required, cycle, grants, asks, clock, review, trend, code, ci, verified>>

Recorded(r) ==
    /\ pc' = "deciding" /\ review' = r /\ seen' = TRUE
    /\ trend' = [first |-> IF review = NoReview THEN r.blocking ELSE trend.first,
                 prev  |-> IF review = NoReview THEN r.blocking ELSE trend.last,
                 last  |-> r.blocking]
    /\ UNCHANGED <<result, pushed>>

\* The report counts once it is reconciled and saved; a pass, where previews
\* are verified, only after its exact commit was pushed and looked at.
Review ==
    /\ pc = "gate"
    /\ \E r \in Reports :
         \/ ~(Preview /\ r.verdict = "pass") /\ Recorded(r)
         \/ /\ Preview /\ r.verdict = "pass" /\ pc' = "previewing" /\ pushed' = TRUE
            /\ UNCHANGED <<result, review, seen, trend>>
         \/ /\ Preview /\ r.verdict = "pass" /\ Unpublished("failed", "other")
            /\ UNCHANGED <<review, seen, trend>>
    /\ judged' = TRUE
    /\ UNCHANGED <<required, cycle, grants, asks, clock, changed, ci, verified>>

PreviewUnavailable == pc = "previewing" /\ Failed /\ Keep /\ UNCHANGED asks

RuntimeReview ==
    /\ pc = "previewing" /\ \E r \in Reports : Recorded(r)
    /\ UNCHANGED <<required, cycle, grants, asks, clock, changed, ci, verified, judged>>

-----------------------------------------------------------------------------
(* Deciding                                                                *)

\* isConvergingBlockingTrend
Converging == trend.last > 0 /\ trend.last < trend.first /\ trend.last <= trend.prev

\* advance(), after a review.
Advance(exhausted, headroom, ship) ==
    LET final == review.verdict = "pass" \/ ship IN
    IF ~final /\ exhausted THEN "budget_exhausted"
    ELSE IF ~final /\ clock = "over" THEN "hard_timeout"
    ELSE IF final THEN "done"
    ELSE IF review.verdict = "block" THEN "failed"
    ELSE IF clock = "reserve" THEN "ship_time_reserved"
    ELSE IF ShipNonBlocking /\ review.blocking = 0 THEN "done"
    ELSE IF cycle < MaxCycles + ext THEN "again"
    ELSE IF ext < MaxExtensions /\ headroom /\ Converging THEN "extend"
    ELSE "done"

Act(decision, headroom) ==
    \/ /\ decision \in {"budget_exhausted", "hard_timeout"} /\ Salvage(decision)
       /\ UNCHANGED <<grants, timeRefused, clock>>
    \/ decision = "failed" /\ Failed /\ UNCHANGED <<grants, timeRefused, clock>>
    \/ /\ decision = "again" /\ pc' = "bound"
       /\ UNCHANGED <<grants, timeRefused, clock, result, pushed>>
    \/ /\ decision = "extend" /\ pc' = "bound" /\ ext' = ext + 1
       /\ UNCHANGED <<timeExt, repairs, timeRefused, clock, result, pushed>>
    \/ LET ask == /\ decision = "ship_time_reserved" /\ ~timeRefused
                  /\ review.blocking > 0 /\ headroom
       IN \/ /\ ask /\ timeExt < MaxTimeGrants
             /\ pc' = "bound" /\ timeExt' = timeExt + 1 /\ clock' \in {"ample", "reserve"}
             /\ UNCHANGED <<ext, repairs, timeRefused, result, pushed>>
          \/ /\ decision \in {"done", "ship_time_reserved"}
             /\ pc' = "shipping" /\ timeRefused' = (timeRefused \/ ask)
             /\ UNCHANGED <<grants, clock, result, pushed>>

\* The decision, after the money question where money alone stands between the
\* session and another cycle.  The cap check looks at the :moneybag: reaction,
\* not at what a question was answered.
Decide ==
    /\ pc = "deciding"
    /\ \/ /\ Salvage("user_abort_reaction")
          /\ UNCHANGED <<grants, asks, clock>>
       \/ \E exhausted, headroom, ship \in BOOLEAN :
            LET room   == funded \/ headroom
                plain  == Advance(exhausted, room, ship)
                rich   == Advance(FALSE, TRUE, ship)
                ask    == /\ ~funded /\ ~budgetRefused
                          /\ plain \notin {"again", "extend"} /\ rich \in {"again", "extend"}
            IN \/ ask /\ funded' = TRUE /\ UNCHANGED budgetRefused /\ Act(rich, TRUE)
               \/ /\ budgetRefused' = (budgetRefused \/ ask) /\ UNCHANGED funded
                  /\ Act(plain, room)
    /\ UNCHANGED <<required, cycle, review, trend, code, ci, verified, judged>>

-----------------------------------------------------------------------------
(* Shipping                                                                *)

Ship ==
    /\ pc = "shipping" /\ ci' = "none"
    /\ \/ pc' = "published" /\ pushed' = TRUE /\ UNCHANGED result
       \/ Unpublished("failed", "other")
    /\ UNCHANGED <<required, cycle, grants, asks, clock, review, trend, code, verified, judged>>

\* A green CI that lacks a required check is no verification.
Poll ==
    /\ pc = "published" /\ pc' = "polled"
    /\ ci' \in (IF required THEN Outcomes ELSE Outcomes \ {"missing"})
    /\ verified' = CASE ci' = "green"   -> TRUE
                     [] ci' = "missing" -> FALSE
                     [] OTHER           -> verified
    /\ UNCHANGED <<required, cycle, grants, asks, clock, review, trend, code, result, judged, pushed>>

Repairable == ci = "red" /\ repairs < MaxRepairs

\* A mutation: a repair cycle is not counted.
CiRepairUncounted ==
    /\ pc = "polled" /\ Repairable /\ pc' = "bound"
    /\ \/ UNCHANGED funded
       \/ ~budgetRefused /\ funded' = TRUE
    /\ \/ clock = "ample" /\ UNCHANGED clock
       \/ clock # "ample" /\ ~timeRefused /\ clock' \in {"ample", "reserve"}
    /\ review' = [review EXCEPT !.verdict = "revise",
                                !.blocking = IF @ < MaxBlocking THEN @ + 1 ELSE @]
    /\ UNCHANGED <<required, cycle, grants, timeRefused, budgetRefused, trend, code, ci, verified,
                   result, judged, pushed>>

\* CI found something, money and time suffice or are granted: its findings join
\* the review and the plan, for one more cycle.
CiRepair ==
    /\ pc = "polled" /\ Repairable /\ pc' = "bound" /\ repairs' = repairs + 1
    /\ \/ UNCHANGED funded
       \/ ~budgetRefused /\ funded' = TRUE
    /\ \/ clock = "ample" /\ UNCHANGED clock
       \/ clock # "ample" /\ ~timeRefused /\ clock' \in {"ample", "reserve"}
    /\ review' = [review EXCEPT !.verdict = "revise",
                                !.blocking = IF @ < MaxBlocking THEN @ + 1 ELSE @]
    /\ UNCHANGED <<required, cycle, ext, timeExt, timeRefused, budgetRefused, trend, code, ci, verified,
                   result, judged, pushed>>

\* A mutation: the poll's override is forgotten.
RecommendationBlind ==
    IF review.verdict = "block" \/ review.blocking # 0 THEN "do_not_merge"
    ELSE IF review.verdict = "pass" /\ review.env THEN "do_not_merge"
    ELSE "merge"

\* deriveMergeRecommendation, under the override a poll may have left.
Recommendation ==
    IF ci \in Override THEN "needs_human_review"
    ELSE IF review.verdict = "block" \/ review.blocking # 0 THEN "do_not_merge"
    ELSE IF review.verdict = "pass" /\ review.env THEN "do_not_merge"
    ELSE "merge"

\* A mutation: a repair that cannot be had is asked of CI again.
FinishRetries ==
    /\ pc = "polled" /\ UNCHANGED asks
    /\ IF Repairable THEN pc' = "shipping" /\ UNCHANGED result
       ELSE IF verified THEN EndedAs("done", Recommendation, "other")
       ELSE EndedAs("failed", "none", "other")
    /\ Keep /\ UNCHANGED pushed

\* No repair, or one that was refused.
Finish ==
    /\ pc = "polled"
    /\ \/ ~Repairable /\ UNCHANGED asks
       \/ /\ Repairable /\ budgetRefused' = TRUE /\ UNCHANGED <<funded, timeRefused>>
       \/ /\ Repairable /\ clock # "ample" /\ timeRefused' = TRUE
          /\ funded' \in {funded, funded \/ ~budgetRefused} /\ UNCHANGED budgetRefused
    /\ IF verified THEN EndedAs("done", Recommendation, "other") ELSE EndedAs("failed", "none", "other")
    /\ Keep /\ UNCHANGED pushed

TimePasses ==
    /\ pc # "ended"
    /\ \/ clock = "ample" /\ clock' = "reserve"
       \/ clock # "over" /\ clock' = "over"
    /\ UNCHANGED <<required, pc, cycle, grants, asks, review, trend, code, ci, verified, result,
                   judged, pushed>>

-----------------------------------------------------------------------------

Step ==
    \/ CycleHead \/ Commit \/ SubTasksDone \/ SubTaskStops \/ DailyCap
    \/ LedgerUnreachable \/ NoChange \/ Review \/ ReviewCrash \/ ReviewDiscarded
    \/ PreviewUnavailable \/ RuntimeReview \/ Decide
    \/ Ship \/ Poll \/ CiRepair \/ Finish

Next == Step \/ TimePasses

Spec == Init /\ [][Next]_vars

\* Every call runInner awaits is bounded by a timeout, so it goes on.
Progress == Spec /\ WF_vars(Step)

-----------------------------------------------------------------------------
(* Properties                                                              *)

\* Whatever was granted -- an extension, more time, a repair -- is a cycle that
\* really begins: the loop never leaves through its bound with work just granted.
GrantIsACycle == pc = "bound" => cycle < Bound

\* "A session that no adversary has ever reviewed does not push at all."
UnreviewedStaysHome == pushed => judged

\* What the last review did not see is shipped only under a human's eyes.
UnseenIsMarked == (result.status = "done" /\ ~seen) => result.rec = "needs_human_review"

\* A merge is recommended only of code the last review saw and found nothing to
\* hold against, with every verdict of CI in its favour, the required one included.
MergeIsVouchedFor ==
    result.rec = "merge" =>
        /\ seen /\ review.verdict # "block" /\ review.blocking = 0
        /\ ci \notin Override /\ (required => ci = "green")

\* Extensions, repairs and questions notwithstanding, a session ends.
Ends == <>(pc = "ended")

\* The machinery implements SessionRun: cycles are begun against an allowance.
Run == INSTANCE SessionRun WITH
    phase <- CASE pc = "bound" -> "ready"
               [] pc \in {"executing", "gate", "previewing", "deciding"} -> "working"
               [] pc \in {"shipping", "published", "polled"} -> "publishing"
               [] OTHER -> "over",
    allowance <- Bound - cycle
CyclesAreGranted == Run!Spec

-----------------------------------------------------------------------------
(* What docs and comments claim, and TLC refutes (README, section 14)      *)

\* An answered budget question lifts the daily cap, as the reaction does.
GrantLiftsTheCap == result.why \in {"budget_exhausted", "daily_max_exhausted"} => ~funded

\* "An explicit block verdict never pushes", unless a human's :rocket: ships it.
BlockNeverPushes ==
    [][(pc = "deciding" /\ review.verdict = "block") => pushed' = pushed]_vars

\* What could not be verified stops a merge.
MergeStopsOnEnv == result.rec = "merge" => ~review.env
=============================================================================
