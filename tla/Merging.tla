------------------------------ MODULE Merging ------------------------------
(***************************************************************************)
(* What happens to a pull request after its session shipped: the merge     *)
(* tool of index.ts with its gates, the deployment check after a merge,    *)
(* the repair and revert of orchestrator/deploy-repair.ts, the recovery of *)
(* a lost association by orchestrator/pr-link.ts and the watcher of        *)
(* adapters/github-watcher.ts that closes a session's row.  The sessions   *)
(* work on one branch, each revising what the one before left; revisions   *)
(* of the branch are numbered, 0 stands for none, as for pull requests.    *)
(***************************************************************************)
EXTENDS Naturals, FiniteSets

CONSTANTS Owners,        \* sessions 1 .. Owners of the branch
          MaxPulls,      \* bound: pull requests ever opened from it
          MaxTips,       \* bound: revisions of the branch
          MaxAttempts,   \* vercel.deploy_repair.max_attempts
          RepairBudget   \* the repair budget, in repairs

ASSUME MergingAssumption ==
    {Owners, MaxPulls, MaxTips, MaxAttempts, RepairBudget} \subseteq Nat \ {0}

Owner == 1 .. Owners
Pulls == 1 .. MaxPulls
Nothing == 0

(* The last review of a session, as the gate classifies its findings: none *)
(* that blocks a merge, only the environment's, or a real one, as which a  *)
(* verdict of "block" counts.                                              *)
Reviews == {"clean", "env", "blocking"}
Recs == {"merge", "do_not_merge", "needs_human_review"}

VARIABLES
    tip,      \* the branch's revision
    by,       \* by[t]: the session that made revision t, Nothing for others
    tested,   \* the CI of the tip: no checks, some not passed (yet), all passed
    pull,     \* pull[p]: none, open, closed or merged
    owned,    \* owned[s]: the session row's columns about its pull request
    link,     \* the harness_link_pr call in progress
    call,     \* the harness_merge_pr call in progress
    main,     \* the merges of the call in progress that are on the default branch
    orphans   \* those of them whose response was lost

mergingVars == <<tip, by, tested, pull, owned, link, call, main, orphans>>

(* 0 is the merge of the pull request, n that of the n-th repair.           *)
Merges == 0 .. MaxAttempts
Idle == [at |-> "idle"]
Open(p) == p # Nothing /\ pull[p] = "open"

MergingTypeOK ==
    /\ tip \in 0 .. MaxTips /\ by \in [1 .. MaxTips -> 0 .. Owners]
    /\ tested \in {"none", "waiting", "green"}
    /\ pull \in [Pulls -> {"none", "open", "closed", "merged"}]
    /\ Cardinality({p \in Pulls : pull[p] = "open"}) <= 1
    /\ main \subseteq Merges /\ orphans \subseteq Merges
    /\ \A s \in Owner :
        /\ owned[s].status \in {"running", "reviewed", "pushed", "opened", "noted", "done", "failed"}
        /\ {owned[s].pr, owned[s].url} \subseteq 0 .. MaxPulls
        /\ owned[s].rec \in Recs \cup {"none"} /\ owned[s].review \in Reviews
        /\ owned[s].link \in {"null", "recovered"}
        /\ {owned[s].marked, owned[s].closed} \subseteq BOOLEAN

MergingInit ==
    /\ tip = 0 /\ by = [t \in 1 .. MaxTips |-> Nothing] /\ tested = "none"
    /\ pull = [p \in Pulls |-> "none"]
    /\ owned = [s \in Owner |->
                  [status |-> "running", url |-> Nothing, pr |-> Nothing,
                   rec |-> "none", review |-> "blocking", link |-> "null", marked |-> FALSE, closed |-> FALSE]]
    /\ link = Idle /\ call = Idle /\ main = {} /\ orphans = {}

----------------------------------------------------------------------------
(* The branch and its pull request                                          *)

Revised(s) ==
    /\ tip < MaxTips
    /\ tip' = tip + 1
    /\ by' = [by EXCEPT ![tip + 1] = s]
    /\ tested' = "none"

Opens == \E p \in Pulls : /\ pull[p] = "none" /\ \A q \in 1 .. p - 1 : pull[q] # "none"
                         /\ pull' = [pull EXCEPT ![p] = "open"]

(* createPullRequest: the branch's open pull request, or a new one.         *)
EnsurePullRequest == IF \E p \in Pulls : Open(p) THEN UNCHANGED pull ELSE Opens

(* A cycle's review comes before it ships.  A cycle that repairs the CI of  *)
(* what was shipped reviews and ships again, and so does a run that is      *)
(* driven again after a crash.                                              *)
ReviewLands(s) ==
    /\ owned[s].status \in {"running", "pushed", "opened", "noted"}
    /\ s > 1 => owned[s - 1].status \in {"done", "failed"}
    /\ \E review \in Reviews :
          owned' = [owned EXCEPT ![s].status = "reviewed", ![s].review = review, ![s].url = Nothing]
    /\ UNCHANGED <<tip, by, tested, pull, link, call, main, orphans>>

(* The ship phase pushes, then finds the open pull request or opens one.    *)
ShipPushes(s) ==
    /\ owned[s].status = "reviewed"
    /\ Revised(s)
    /\ owned' = [owned EXCEPT ![s].status = "pushed"]
    /\ UNCHANGED <<pull, link, call, main, orphans>>

ShipOpens(s) ==
    /\ owned[s].status = "pushed"
    /\ EnsurePullRequest
    /\ \E p \in Pulls : /\ pull'[p] = "open"
                       /\ owned' = [owned EXCEPT ![s].status = "opened", ![s].url = p]
    /\ UNCHANGED <<tip, by, tested, link, call, main, orphans>>

(* The row learns the pull request as soon as it is there, and with the     *)
(* recommendation again at the end.  A mark the row has stays.  The review  *)
(* is read again only under "do_not_merge"; what it was else is left out.   *)
ShipNotes(s) ==
    /\ owned[s].status = "opened"
    /\ owned' = [owned EXCEPT ![s].status = "noted", ![s].pr = owned[s].url]
    /\ UNCHANGED <<tip, by, tested, pull, link, call, main, orphans>>

ShipRecords(s) ==
    /\ owned[s].status = "noted"
    /\ \E rec \in Recs :
          owned' = [owned EXCEPT ![s].status = "done", ![s].pr = owned[s].url,
                                 ![s].url = Nothing, ![s].rec = rec,
                                 ![s].review = IF rec = "do_not_merge" THEN @ ELSE "blocking"]
    /\ UNCHANGED <<tip, by, tested, pull, link, call, main, orphans>>

(* A run fails on the way; when what it published is not what it verified,  *)
(* the row keeps the pull request all the same.                             *)
ShipFails(s) ==
    /\ owned[s].status \in {"reviewed", "pushed", "opened", "noted"}
    /\ \E pr \in {owned[s].pr} \cup ({owned[s].url} \ {Nothing}) :
          owned' = [owned EXCEPT ![s].status = "failed", ![s].url = Nothing, ![s].pr = pr]
    /\ UNCHANGED <<tip, by, tested, pull, link, call, main, orphans>>

(* GitHub and the people on it.                                             *)
Others ==
    /\ \/ /\ Revised(Nothing) /\ tip # 0 /\ UNCHANGED pull
       \/ /\ tested # "green" /\ tip # 0
          /\ tested' \in {"waiting", "green"} \ {tested}
          /\ UNCHANGED <<tip, by, pull>>
       \/ /\ \E p \in Pulls, how \in {"closed", "merged"} :
                Open(p) /\ pull' = [pull EXCEPT ![p] = how]
          /\ UNCHANGED <<tip, by, tested>>
    /\ UNCHANGED <<owned, link, call, main, orphans>>

(* The watcher polls the done rows that are not closed.                     *)
PollOnce(s) ==
    /\ owned[s].status = "done" /\ owned[s].pr # Nothing /\ ~owned[s].closed
    /\ pull[owned[s].pr] \in {"closed", "merged"}
    /\ owned' = [owned EXCEPT ![s].closed = TRUE, ![s].marked = pull[owned[s].pr] = "merged"]
    /\ UNCHANGED <<tip, by, tested, pull, link, call, main, orphans>>

----------------------------------------------------------------------------
(* linkPullRequest                                                          *)

(* Applying a link reads the row and looks for a rival before it awaits the *)
(* pull request; the operator names the head a dry run showed.  On a row    *)
(* that has a pull request it changes nothing.                              *)
LinkBegins(s, p) ==
    /\ link.at = "idle" /\ tip # 0 /\ owned[s].pr = Nothing
    /\ ~\E r \in Owner \ {s} : owned[r].pr = p /\ owned[r].link = "recovered"
    /\ link' = [at |-> "fetch", s |-> s, p |-> p, shown |-> tip]
    /\ UNCHANGED <<tip, by, tested, pull, owned, call, main, orphans>>

(* verifyPrLink: an open pull request that carries a commit of the session, *)
(* still at the head that was shown.  Its base, fork and repository are     *)
(* given: when they differ the link is refused.                             *)
Verified(s, p, shown) ==
    /\ Open(p) /\ shown = tip
    /\ \E t \in 1 .. tip : by[t] = s

LinkFetched ==
    /\ link.at = "fetch"
    /\ \/ /\ Verified(link.s, link.p, link.shown)
          /\ link' = [at |-> "apply", s |-> link.s, p |-> link.p]
       \/ link' = Idle
    /\ UNCHANGED <<tip, by, tested, pull, owned, call, main, orphans>>

(* Mutant: the row is still as it was read before the await.                *)
StillUnlinkedAsRead(s, p) == owned[s].link = "null"

(* The WHERE clause of the update.                                          *)
StillUnlinked(s, p) == owned[s].link = "null" /\ owned[s].pr \in {Nothing, p}

LinkApplied ==
    /\ link.at = "apply"
    /\ owned' = IF StillUnlinked(link.s, link.p)
                  THEN [owned EXCEPT ![link.s].pr = link.p, ![link.s].link = "recovered"]
                  ELSE owned
    /\ link' = Idle
    /\ UNCHANGED <<tip, by, tested, pull, call, main, orphans>>

----------------------------------------------------------------------------
(* mergePr                                                                  *)

(* The gate on the row: a recommendation to merge; or none, which counts as *)
(* one not to, or one not to, that only lacks a sign-off where a deployment *)
(* is verified, or is held by nothing but the harness's own environment,    *)
(* which then needs a green CI.                                             *)
NoSignOff(s) == owned[s].rec \in {"do_not_merge", "none"}

DefersToCi(s) == NoSignOff(s) /\ owned[s].review = "env"

Gate(s) ==
    \/ owned[s].rec = "merge"
    \/ NoSignOff(s) /\ owned[s].review = "clean"
    \/ DefersToCi(s)

MergeBegins(s) ==
    /\ call.at = "idle"
    /\ owned[s].pr # Nothing /\ ~owned[s].marked
    /\ Gate(s)
    /\ call' = [at |-> "read", s |-> s, p |-> owned[s].pr, defer |-> DefersToCi(s)]
    /\ UNCHANGED <<tip, by, tested, pull, owned, link, main, orphans>>

Marked(s) == [owned EXCEPT ![s].marked = TRUE]

(* The pull request and the CI of its head are read, or a read fails; red,  *)
(* running or unreadable checks refuse.                                     *)
MergeReads ==
    /\ call.at = "read"
    /\ \/ /\ pull[call.p] = "merged" /\ owned' = Marked(call.s) /\ call' = Idle
       \/ /\ pull[call.p] # "merged" /\ UNCHANGED owned
          /\ \/ call' = Idle
             \/ /\ tested = "green" \/ (tested = "none" /\ ~call.defer)
                /\ call' = [at |-> "merge", s |-> call.s, p |-> call.p]
    /\ UNCHANGED <<tip, by, tested, pull, link, main, orphans>>

Landed(p) == pull' = [pull EXCEPT ![p] = "merged"]

(* The request merges the pull request as it is now, or GitHub refuses it,  *)
(* or it is merged and the answer is lost.                                  *)
MergeLands ==
    /\ call.at = "merge"
    /\ \/ /\ Open(call.p) /\ Landed(call.p)
          /\ main' = {0}
          /\ \/ /\ owned' = Marked(call.s)
                /\ call' = [at |-> "deployed", shas |-> {0},
                            attempt |-> 0, spent |-> 0]
                /\ UNCHANGED orphans
             \/ /\ call' = [at |-> "over", outcome |-> "lost"]
                /\ orphans' = {0} /\ UNCHANGED owned
       \/ call' = Idle /\ UNCHANGED <<pull, main, owned, orphans>>
    /\ UNCHANGED <<tip, by, tested, link>>

----------------------------------------------------------------------------
(* runDeployRepair                                                          *)

Over(outcome) ==
    call' = [at |-> "over", outcome |-> outcome]

(* The deployment of the merge: ready, still building or nowhere to be      *)
(* found end the call; an error is repaired where repair is enabled.        *)
Deployed ==
    /\ call.at = "deployed"
    /\ \/ Over("merged")
       \/ call' = [call EXCEPT !.at = "repair"]
    /\ UNCHANGED <<tip, by, tested, pull, owned, link, main, orphans>>

Reverting(outcome) ==
    call' = [at |-> "revert", shas |-> call.shas, outcome |-> outcome]

(* Mutant: the attempt that failed is made again.                           *)
AttemptsLeftAlways == TRUE

AttemptsLeft == call.attempt < MaxAttempts

(* The next attempt, while attempts and money last.                         *)
RepairBegins ==
    /\ call.at = "repair"
    /\ CASE ~AttemptsLeft -> Reverting("reverted")
         [] AttemptsLeft /\ call.spent >= RepairBudget -> Reverting("budget_paused")
         [] OTHER -> \E cost \in 0 .. 1 :
                        call' = [call EXCEPT !.at = "attempt", !.spent = @ + cost,
                                   !.attempt = IF @ < MaxAttempts THEN @ + 1 ELSE @]
    /\ UNCHANGED <<tip, by, tested, pull, owned, link, main, orphans>>

(* Mutant: the merge of a repair is forgotten.                              *)
StackedOnce(shas, sha) == shas

(* The merges to revert; they are reverted newest first.                    *)
Stacked(shas, sha) == shas \cup {sha}

(* A repair session that does not ship a merged fix ends the repair.  One   *)
(* whose merge lands without an answer is taken for one that did not merge. *)
RepairRuns ==
    /\ call.at = "attempt"
    /\ LET sha == call.attempt IN
        \/ /\ Reverting("reverted") /\ UNCHANGED <<main, orphans>>
        \/ /\ main' = main \cup {sha} /\ orphans' = orphans \cup {sha}
           /\ Reverting("reverted")
        \/ /\ main' = main \cup {sha} /\ UNCHANGED orphans
           /\ call' = [call EXCEPT !.at = "reverify", !.shas = Stacked(@, sha)]
    /\ UNCHANGED <<tip, by, tested, pull, owned, link>>

(* A verification that is undecided leaves the merges where they are; one   *)
(* that throws counts as an error.                                          *)
Reverified ==
    /\ call.at = "reverify"
    /\ \/ \E outcome \in {"repaired", "unverified"} : Over(outcome)
       \/ call' = [call EXCEPT !.at = "repair"]
    /\ UNCHANGED <<tip, by, tested, pull, owned, link, main, orphans>>

(* finaliseRevert: every sha or none is reverted on the default branch,     *)
(* pushed there or merged as a pull request whose answer may be lost.       *)
Reverts ==
    /\ call.at = "revert"
    /\ \/ /\ main' = main \ call.shas
          /\ Over(call.outcome) \/ Over("revert_failed")
       \/ Over("revert_failed") /\ UNCHANGED main
    /\ UNCHANGED <<tip, by, tested, pull, owned, link, orphans>>

Return ==
    /\ call.at = "over"
    /\ call' = Idle /\ main' = {} /\ orphans' = {}
    /\ UNCHANGED <<tip, by, tested, pull, owned, link>>

(* A crash ends the calls in progress; nothing resumes a repair.            *)
ToolsCrash ==
    /\ <<call, link>> # <<Idle, Idle>>
    /\ call' = Idle /\ link' = Idle /\ main' = {} /\ orphans' = {}
    /\ UNCHANGED <<tip, by, tested, pull, owned>>

CallStep ==
    \/ MergeReads \/ MergeLands \/ Deployed \/ RepairBegins \/ RepairRuns
    \/ Reverified \/ Reverts \/ Return

MergingNext ==
    \/ \E s \in Owner :
        \/ ReviewLands(s) \/ ShipPushes(s) \/ ShipOpens(s) \/ ShipNotes(s) \/ ShipRecords(s) \/ ShipFails(s)
        \/ PollOnce(s) \/ MergeBegins(s)
        \/ \E p \in Pulls : LinkBegins(s, p)
    \/ Others \/ LinkFetched \/ LinkApplied \/ CallStep \/ ToolsCrash

MergingSpec == MergingInit /\ [][MergingNext]_mergingVars

(* A call's own steps are awaits of one async function.                     *)
MergingFair == MergingSpec /\ WF_mergingVars(CallStep)

----------------------------------------------------------------------------
(* Properties                                                               *)

(* When the tool reports that the default branch was reverted, no merge of  *)
(* this call is left on it, except one whose answer never came back         *)
(* (finaliseRevert: "main has been reverted to a WORKING state").           *)
MainRestored ==
    call.at = "over" /\ call.outcome \in {"reverted", "budget_paused"} =>
        main \subseteq orphans

(* Recovering a link never moves a row off the pull request that the loop   *)
(* itself recorded meanwhile (pr-link.ts, "Unlinking is deliberately not    *)
(* offered").                                                               *)
LinkKeepsLoopsPr ==
    [][\A s \in Owner : owned[s].pr # Nothing /\ owned[s].status = "done" =>
            owned'[s].pr = owned[s].pr]_mergingVars

(* A merge call ends, whatever the deployment does: repairs are bounded.    *)
MergeCallEnds == call.at # "idle" ~> call.at = "idle"

-----------------------------------------------------------------------------
(* What docs and comments claim, and TLC refutes (README, section 14)      *)

(* What README.md:243 says of harness_merge_pr, "Refuses anything the review*)
(* did not sign off on": the revision that is merged was made by the session*)
(* whose review the gate read.                                              *)
MergesSignedOff ==
    [][main' # main /\ call.at = "merge" => by[tip] = call.s]_mergingVars

(* What the tool answers for a marked row, "PR # is already merged"         *)
(* (index.ts:2134): the pull request the row names is merged.               *)
MarkedIsMerged ==
    \A s \in Owner : owned[s].marked => pull[owned[s].pr] = "merged"
=============================================================================
