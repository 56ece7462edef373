---------------------------- MODULE Publication ----------------------------
(***************************************************************************)
(* How a session's commits reach the remote branch and its pull request:   *)
(* the ship phase of orchestrator/loop.ts, publishCandidate and the        *)
(* evidence of orchestrator/publication.ts, the wait for CI and its repair *)
(* cycle, and the salvage paths that publish what a broken run left.       *)
(* Session n + 1 revises the pull request of session n on the same branch, *)
(* somebody else may push to that branch or delete it between any two      *)
(* steps, and a read of the remote may fail, which the git adapter reports *)
(* as a branch that does not exist.                                        *)
(* Commits are numbered as they are made; 0 stands for none.               *)
(***************************************************************************)
EXTENDS Naturals, FiniteSets

CONSTANTS Last,         \* sessions 1 .. Last, each revising the one before
          MaxCommits,   \* bound: commits anybody makes
          MaxForeign,   \* bound: pushes and deletions by somebody else
          MaxPolls,     \* polls that fit ci.wait_timeout_seconds
          Grace,        \* polls that fit ci.none_grace_seconds
          MaxCycles,    \* loop.max_cycles
          MaxRepairs,   \* ci.max_repair_cycles
          PreviewOn,    \* vercel.enabled: a pass is pushed and previewed first
          Required      \* the plan names CI behaviour checks it requires

ASSUME PublicationAssumption ==
    /\ {Last, MaxCommits, MaxPolls, MaxCycles} \subseteq Nat \ {0}
    /\ {MaxForeign, Grace, MaxRepairs} \subseteq Nat
    /\ {PreviewOn, Required} \subseteq BOOLEAN

Sessions == 1 .. Last
Commits == 1 .. MaxCommits
None == 0
Denials == 2            \* ci.permanent_denial_polls

(* What the adversary returned: "nits" is a verdict other than pass with    *)
(* nothing blocking, "revise" one with blocking findings.                   *)
Verdicts == {"pass", "nits", "revise"}

(* The checks of the awaited commit: a lone quick check registers before    *)
(* the rest, and the Check Runs API may later return fewer than it did.     *)
Stages == <<"none", "lone", "running", "red", "green">>
Registered(stage) == CASE stage = "none" -> 0 [] stage = "lone" -> 1 [] OTHER -> 2

VARIABLES
    born,      \* commits made so far
    meddled,   \* pushes and deletions by somebody else so far
    remote,    \* the branch: its tip, the tip's history, every tip ever seen
    tree,      \* tree[s]: head, history and harness CI workflow; whether it is kept
    loop,      \* loop[s]: where the run of s is and its local variables
    row        \* row[s]: status, pr, rec and published of the session row

vars == <<born, meddled, remote, tree, loop, row>>

Running == {"work", "review", "stage", "preview", "runtime", "author", "candidate",
            "recheck", "push", "open", "verify", "wait", "decide"}

Numbers == 0 .. MaxCommits
Trees == [head : Numbers, hist : SUBSET Commits, workflow : Numbers, kept : BOOLEAN]
Loops == [at : Running \cup {"idle", "done", "failed"}, salvage : BOOLEAN,
          verdict : Verdicts \cup {"none"}, of : Numbers, ev : Numbers, cand : Numbers,
          reuse : BOOLEAN, polls : 0 .. MaxPolls, seen : 0 .. 2, denied : 0 .. Denials,
          checks : {"none", "lone", "running", "red", "green"},
          override : {"none", "timeout", "missing", "red", "indeterminate"},
          findings : BOOLEAN, cycles : 0 .. MaxCycles + MaxRepairs, repairs : 0 .. MaxRepairs,
          behaved : BOOLEAN]
Rows == [status : {"open", "done", "failed"}, pr : BOOLEAN,
         rec : {"none", "merge", "do_not_merge", "needs_human_review"}, published : Numbers]

TypeOK ==
    /\ born \in Numbers /\ meddled \in 0 .. MaxForeign
    /\ remote \in [tip : Numbers, hist : SUBSET Commits, seen : SUBSET Commits]
    /\ remote.tip \in remote.hist \cup {None} /\ remote.hist \cup remote.seen \subseteq 1 .. born
    /\ tree \in [Sessions -> Trees] /\ loop \in [Sessions -> Loops] /\ row \in [Sessions -> Rows]
    /\ \A s \in Sessions : /\ tree[s].head \in tree[s].hist \cup {None}
                           /\ tree[s].hist \subseteq 1 .. born
                           /\ loop[s].cycles <= MaxCycles + loop[s].repairs

NoRun == [at |-> "idle", salvage |-> FALSE, verdict |-> "none", of |-> None,
          ev |-> None, cand |-> None, reuse |-> FALSE,
          polls |-> 0, seen |-> 0, denied |-> 0, checks |-> "none",
          override |-> "none", findings |-> FALSE, cycles |-> 0, repairs |-> 0,
          behaved |-> FALSE]

Init ==
    /\ born = 0 /\ meddled = 0
    /\ remote = [tip |-> None, hist |-> {}, seen |-> {}]
    /\ tree = [s \in Sessions |-> [head |-> None, hist |-> {}, workflow |-> None, kept |-> FALSE]]
    /\ loop = [s \in Sessions |->
                 [NoRun EXCEPT !.behaved = ~Required]]
    /\ row = [s \in Sessions |->
                 [status |-> "open", pr |-> FALSE, rec |-> "none", published |-> None]]

----------------------------------------------------------------------------
(* The steps of one session                                                 *)

Go(s, at) == loop' = [loop EXCEPT ![s].at = at]

(* A new commit on top of the worktree's head.                              *)
Extended(t, c) == [t EXCEPT !.head = c, !.hist = @ \cup {c}]

Commit(s) ==
    /\ born < MaxCommits
    /\ born' = born + 1
    /\ tree' = [tree EXCEPT ![s] = Extended(@, born + 1)]

(* finaliseFailedPreserveWorktree: the row fails and the worktree stays;    *)
(* what the run held in memory is gone.                                     *)
FailKept(s, pr) ==
    /\ loop' = [loop EXCEPT ![s] = [NoRun EXCEPT !.at = "failed"]]
    /\ row' = [row EXCEPT ![s].status = "failed", ![s].pr = @ \/ pr]
    /\ UNCHANGED <<born, tree, remote>>

(* A run allocates its worktree; harness_revise starts from the branch tip. *)
Start(s) ==
    /\ loop[s].at = "idle"
    /\ s > 1 => row[s - 1].pr /\ row[s - 1].status = "done"
    /\ tree' = [tree EXCEPT ![s] =
                   [head |-> remote.tip, hist |-> remote.hist, kept |-> TRUE,
                    workflow |-> IF s > 1 THEN tree[s - 1].workflow ELSE None]]
    /\ Go(s, "work")
    /\ UNCHANGED <<born, remote, row>>

(* A cycle of the workers, which commit or find nothing to change.          *)
Build(s) ==
    /\ loop[s].at = "work" /\ loop[s].cycles < MaxCycles + loop[s].repairs
    /\ Commit(s) \/ (tree[s].head # None /\ UNCHANGED <<born, tree>>)
    /\ loop' = [loop EXCEPT ![s].at = "review", ![s].cycles = @ + 1]
    /\ UNCHANGED <<remote, row>>

(* Another cycle is an answer to blocking findings, while cycles are left.  *)
MayRevise(s, v) == v = "revise" /\ loop[s].cycles < MaxCycles + loop[s].repairs

(* The review: a pass is previewed where previews are on, a verdict with    *)
(* blocking findings may be worked on again or shipped at a ceiling.        *)
Review(s) ==
    /\ loop[s].at = "review"
    /\ \E v \in Verdicts, again \in BOOLEAN :
        /\ again => MayRevise(s, v)
        /\ loop' = [loop EXCEPT ![s].verdict = v, ![s].of = tree[s].head,
                                ![s].at = CASE again -> "work"
                                            [] v = "pass" /\ PreviewOn -> "stage"
                                            [] OTHER -> "author"]
    /\ UNCHANGED <<born, tree, remote, row>>

(* Before a preview and at each ship attempt the harness may author a CI    *)
(* workflow, in a commit of its own that no review has read; a worktree that*)
(* has one gets no other.                                                   *)
Author(s) ==
    /\ loop[s].at \in {"stage", "author"}
    /\ LET next == IF loop[s].at = "stage" THEN "preview" ELSE "candidate" IN
        /\ \/ /\ tree[s].workflow = None
              /\ born < MaxCommits
              /\ born' = born + 1
              /\ tree' = [tree EXCEPT ![s] =
                            [Extended(@, born + 1) EXCEPT !.workflow = born + 1]]
           \/ UNCHANGED <<born, tree>>
        /\ loop' = [loop EXCEPT ![s].at = next, ![s].override = "none"]
    /\ UNCHANGED <<remote, row>>

(* git push without force: the tip must be an ancestor of what is pushed.   *)
FastForward(s) == remote.tip \in tree[s].hist \cup {None}

Pushed(s) ==
    remote' = [tip |-> tree[s].head, hist |-> tree[s].hist,
               seen |-> remote.seen \cup {tree[s].head}]

(* The preview of a pass: push the exact head, read the tip back, and keep  *)
(* that as evidence; anything else keeps the worktree and fails.            *)
Preview(s) ==
    /\ loop[s].at = "preview"
    /\ \/ FastForward(s) /\ Pushed(s)
          /\ loop' = [loop EXCEPT ![s].at = "runtime", ![s].ev = tree[s].head]
          /\ UNCHANGED <<born, tree, row>>
       \/ FailKept(s, FALSE)

(* The review again, with what the preview showed.                          *)
RuntimeReview(s) ==
    /\ loop[s].at = "runtime"
    /\ \/ \E v \in Verdicts, again \in BOOLEAN :
            /\ again => MayRevise(s, v)
            /\ loop' = [loop EXCEPT ![s].verdict = v, ![s].of = tree[s].head,
                                    ![s].at = IF again THEN "work" ELSE "author"]
            /\ UNCHANGED <<born, tree, remote, row>>
       \/ FailKept(s, FALSE)

(* A run that breaks, or hits a ceiling, publishes what an earlier review   *)
(* has seen for a human to judge, and keeps its worktree otherwise.         *)
Salvaged(s) ==
    /\ loop' = [loop EXCEPT ![s].at = "candidate", ![s].salvage = TRUE]
    /\ UNCHANGED <<born, tree, remote, row>>

Salvage(s) ==
    /\ loop[s].at \in {"work", "review"}
    /\ IF loop[s].of # None THEN Salvaged(s) \/ FailKept(s, FALSE) ELSE FailKept(s, FALSE)

(* finaliseStalled publishes whatever the branch holds, reviewed or not.    *)
Stalled(s) ==
    /\ loop[s].at \in {"work", "review"} /\ tree[s].head # None
    /\ Salvaged(s)

----------------------------------------------------------------------------
(* publishCandidate                                                         *)

(* Mutant: any evidence of this run will do.                                *)
CoversOnceHeld(ev, cand) == ev # None

(* Evidence is about one commit: it covers the candidate or nothing.        *)
Covers(ev, cand) == ev # None /\ ev = cand

(* resolveCandidateSha: the head, or nothing when it cannot be read.        *)
Candidate(s) == {tree[s].head, None}

Resolve(s) ==
    /\ loop[s].at = "candidate"
    /\ \E cand \in Candidate(s) :
        LET reuse == ~loop[s].salvage /\ Covers(loop[s].ev, cand) IN
        loop' = [loop EXCEPT ![s].cand = cand, ![s].reuse = reuse,
                             ![s].at = IF reuse THEN "recheck" ELSE "push"]
    /\ UNCHANGED <<born, tree, remote, row>>

(* What ls-remote returns: the tip, or nothing when it cannot be read.      *)
Reads == {remote.tip, None}

(* Evidence is read again before it is reused: a moved tip is somebody's    *)
(* work and ends the run, a missing one falls back to pushing.              *)
Recheck(s) ==
    /\ loop[s].at = "recheck"
    /\ \E tip \in Reads :
        \/ /\ tip = loop[s].cand /\ Go(s, "open") /\ UNCHANGED <<born, tree, remote, row>>
        \/ /\ tip \notin {loop[s].cand, None} /\ FailKept(s, FALSE)
        \/ /\ tip = None
           /\ loop' = [loop EXCEPT ![s].at = "push", ![s].reuse = FALSE]
           /\ UNCHANGED <<born, tree, remote, row>>

(* The push lands, or fails, or lands and its answer is lost.               *)
Push(s) ==
    /\ loop[s].at = "push"
    /\ \/ /\ FastForward(s) /\ Pushed(s)
          /\ \/ Go(s, "open") /\ UNCHANGED <<born, tree, row>>
             \/ /\ loop' = [loop EXCEPT ![s] = [NoRun EXCEPT !.at = "failed"]]
                /\ row' = [row EXCEPT ![s].status = "failed"]
                /\ UNCHANGED <<born, tree>>
       \/ FailKept(s, FALSE)

(* The row learns its pull request and evidence once the publication holds. *)
Published(s, ev) ==
    /\ loop' = [loop EXCEPT ![s].ev = ev, ![s].at = IF loop[s].salvage THEN "decide" ELSE "wait",
                            ![s].polls = 0, ![s].seen = 0, ![s].denied = 0,
                            ![s].cand = None, ![s].reuse = FALSE, ![s].checks = "none", ![s].findings = FALSE]
    /\ row' = [row EXCEPT ![s].pr = TRUE]
    /\ UNCHANGED <<born, tree, remote>>

(* The pull request is created, or the open one of the branch is found.     *)
OpenPullRequest(s) ==
    /\ loop[s].at = "open"
    /\ \/ loop[s].reuse /\ Published(s, loop[s].ev)
       \/ ~loop[s].reuse /\ Go(s, "verify") /\ UNCHANGED <<born, tree, remote, row>>
       \/ FailKept(s, FALSE)

(* verifyRemoteSha: only the remote's own tip, read back, is evidence.      *)
Confirms(tip, cand) == tip # None /\ tip = cand

Verify(s) ==
    /\ loop[s].at = "verify"
    /\ \E tip \in Reads :
        IF Confirms(tip, loop[s].cand) THEN Published(s, tip) ELSE FailKept(s, TRUE)

----------------------------------------------------------------------------
(* The wait for CI                                                          *)

(* One poll's snapshot: any stage up to the true one, or an unreadable one. *)
Snapshots(stage) ==
    {r \in {"none", "lone"} : Registered(r) <= Registered(stage)} \cup {stage}

(* Mutant: every list of checks is believed.                                *)
RegressedNever(s, r) == FALSE

(* The time of one poll; past the end of the wait none is counted.          *)
Tick(polls) == IF polls < MaxPolls THEN polls + 1 ELSE polls

(* A list of checks shorter than one already seen is a stale read.          *)
Regressed(s, r) == Registered(r) < loop[s].seen

StatusOf(s, r) ==
    IF r = "running" \/ (r \in {"none", "lone", "green"} /\ Regressed(s, r)) THEN "pending"
    ELSE IF r \in {"lone", "green"} THEN "success" ELSE r

(* A readable poll: keep waiting while time is left, else conclude; a green *)
(* without a required behaviour check is no green.                          *)
PollCi(s) ==
    /\ loop[s].at = "wait"
    /\ \E r \in Snapshots(loop[s].checks) :
        LET polls == Tick(loop[s].polls)
            status == StatusOf(s, r)
            seen == [loop EXCEPT ![s].polls = polls, ![s].denied = 0,
                       ![s].seen = IF Registered(r) > @ THEN Registered(r) ELSE @]
            over == [seen EXCEPT ![s].at = "decide", ![s].polls = 0]
        IN  /\ \/ /\ \/ status = "pending" /\ polls < MaxPolls
                     \/ status = "none" /\ polls < Grace /\ polls < MaxPolls
                  /\ loop' = seen
               \/ /\ status = "pending" /\ polls >= MaxPolls
                  /\ loop' = [over EXCEPT ![s].override = "timeout"]
               \/ /\ status = "none" /\ (polls >= Grace \/ polls >= MaxPolls)
                  /\ loop' = over
               \/ /\ status = "success"
                  /\ \/ loop' = [over EXCEPT ![s].behaved = TRUE]
                     \/ /\ Required
                        /\ loop' = [over EXCEPT ![s].override = "missing",
                                                ![s].behaved = FALSE]
               \/ /\ status = "red"
                  /\ \E logs \in BOOLEAN :
                        loop' = [over EXCEPT ![s].override = "red",
                                             ![s].findings = logs]
            /\ UNCHANGED <<born, tree, remote, row>>

(* Mutant: a poll that could not be read is tried again without end.        *)
OutOfPollsNever(s) == FALSE

(* An unreadable poll: a denial repeated to the ceiling, or the end of the  *)
(* wait, is indeterminate; a read that threw counts as checks still running.*)
OutOfPolls(s) == loop[s].polls + 1 >= MaxPolls

PollUnreadable(s) ==
    /\ loop[s].at = "wait"
    /\ \E how \in {"unknown", "denied", "threw"} :
        LET denials == CASE how = "denied" -> loop[s].denied + 1
                         [] how = "unknown" -> 0
                         [] OTHER -> loop[s].denied
            over == OutOfPolls(s) \/ (how = "denied" /\ denials >= Denials)
        IN  loop' = [loop EXCEPT ![s].polls = IF over THEN 0 ELSE Tick(@),
                       ![s].denied = IF over THEN 0 ELSE denials,
                       ![s].override = CASE ~over -> @ [] over /\ how = "threw" -> "timeout"
                                         [] OTHER -> "indeterminate",
                       ![s].at = IF over THEN "decide" ELSE @]
    /\ UNCHANGED <<born, tree, remote, row>>

(* The ceiling of repair cycles; money and time may decline one too.        *)
FundsRepair(s) == loop[s].repairs < MaxRepairs

(* A red CI with findings buys a repair cycle while ceiling, money and time *)
(* last, and the findings join the review as blocking ones.                 *)
Repair(s) ==
    /\ loop[s].at = "decide" /\ ~loop[s].salvage
    /\ loop[s].override # "none" /\ loop[s].findings
    /\ FundsRepair(s)
    /\ loop' = [loop EXCEPT ![s].at = "work", ![s].verdict = "revise",
                            ![s].repairs = @ + 1, ![s].findings = FALSE]
    /\ UNCHANGED <<born, tree, remote, row>>

(* deriveMergeRecommendation, then the override CI put on it.               *)
Recommendation(s) ==
    IF loop[s].salvage \/ loop[s].override # "none" THEN "needs_human_review"
    ELSE IF loop[s].verdict \in {"pass", "nits"} THEN "merge" ELSE "do_not_merge"

(* The end of a run: shipped with its evidence, and its worktree released   *)
(* unless the removal fails.                                                *)
Ship(s) ==
    /\ loop[s].at = "decide"
    /\ IF loop[s].behaved \/ loop[s].salvage
       THEN /\ row' = [row EXCEPT ![s].status = "done", ![s].rec = Recommendation(s),
                                  ![s].published = loop[s].ev]
            /\ loop' = [loop EXCEPT ![s] = [NoRun EXCEPT !.at = "done"]]
            /\ \E gone \in BOOLEAN : tree' = [tree EXCEPT ![s].kept = ~gone]
            /\ UNCHANGED <<born, remote>>
       ELSE FailKept(s, FALSE)

----------------------------------------------------------------------------
(* Everybody else                                                           *)

ChecksAdvance(s) ==
    /\ loop[s].at = "wait"
    /\ \E i \in 1 .. 4 :
        /\ loop[s].checks = Stages[i] /\ i < 4
        /\ \E j \in {i + 1, IF i = 3 THEN 5 ELSE i + 1} :
            loop' = [loop EXCEPT ![s].checks = Stages[j]]
    /\ UNCHANGED <<born, meddled, remote, tree, row>>

ForeignPush ==
    /\ remote.tip # None /\ meddled < MaxForeign /\ born < MaxCommits
    /\ meddled' = meddled + 1 /\ born' = born + 1
    /\ remote' = [tip |-> born + 1, hist |-> remote.hist \cup {born + 1},
                  seen |-> remote.seen \cup {born + 1}]
    /\ UNCHANGED <<tree, loop, row>>

BranchDeleted ==
    /\ remote.tip # None /\ meddled < MaxForeign
    /\ meddled' = meddled + 1
    /\ remote' = [remote EXCEPT !.tip = None, !.hist = {}]
    /\ UNCHANGED <<born, tree, loop, row>>

Step(s) ==
    /\ \/ Start(s) \/ Build(s) \/ Review(s) \/ Author(s) \/ Preview(s)
       \/ RuntimeReview(s) \/ Salvage(s) \/ Stalled(s) \/ Resolve(s) \/ Recheck(s)
       \/ Push(s) \/ OpenPullRequest(s) \/ Verify(s) \/ PollCi(s)
       \/ PollUnreadable(s) \/ Repair(s) \/ Ship(s)
    /\ UNCHANGED meddled

Next ==
    \/ \E s \in Sessions : Step(s) \/ ChecksAdvance(s)
    \/ ForeignPush \/ BranchDeleted

Spec == Init /\ [][Next]_vars

(* A run's own steps are awaited calls of one async function.               *)
Fair == Spec /\ \A s \in Sessions : WF_vars(Step(s))
----------------------------------------------------------------------------
(* Properties                                                               *)

(* A worktree is released only for commits the remote branch has really     *)
(* held, at the sha the row names as its evidence (tryReleaseWorktree after *)
(* publishCandidate, #1168: a local head is not a published one).           *)
ReleasedWasPublished ==
    \A s \in Sessions : row[s].status = "done" /\ ~tree[s].kept =>
        /\ tree[s].head \in remote.seen
        /\ row[s].published = tree[s].head

(* "merge" is recommended for a commit the last review read, or the         *)
(* workflow the harness added on top of it, and never over checks that were *)
(* already seen and did not all pass (the false green of b118).             *)
ReadyIsSound ==
    [][\A s \in Sessions : row'[s].rec = "merge" /\ row[s].rec # "merge" =>
        /\ loop[s].verdict \in {"pass", "nits"}
        /\ row'[s].published \in {loop[s].of, tree[s].workflow}
        /\ loop[s].seen = 2 => loop[s].checks = "green"]_vars

(* A red CI is answered by a bounded number of repairs and every wait for   *)
(* it ends: a run that started is shipped or failed (pollCiStatus and the   *)
(* ship attempts of runInner).                                              *)
ShipEnds ==
    \A s \in Sessions : loop[s].at \in Running ~> loop[s].at \in {"done", "failed"}
=============================================================================
