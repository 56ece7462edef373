------------------------ MODULE PullRequests_proofs ------------------------
(* What is proved of pull requests: of what is published and recommended    *)
(* (Publication), for every number of sessions, commits, foreign pushes,    *)
(* polls, cycles and repairs, with and without previews and required        *)
(* behaviour checks; and of what is merged, repaired and reverted           *)
(* (Merging), for every number of sessions, pull requests, revisions,       *)
(* attempts and every budget.  The two share no variable.                   *)
EXTENDS Publication, Merging, TLAPS

\* Where a run has a candidate, and from where on its head is meant to be shipped.
Candidates == {"recheck", "push", "open", "verify"}
Shipping   == {"candidate"} \cup Candidates \cup {"wait"}
Authored   == {"stage", "preview", "runtime", "author", "decide"} \cup Shipping

\* The invariant speaks of one session: of its run l, its worktree t, its row r and the
\* tips the branch has had.

\* A candidate is the head, or nobody could tell; what is reused is the evidence of it.
CandidateInv(l, t) ==
    /\ l.at \in Candidates => l.cand \in {t.head, None}
    /\ l.at \in Candidates /\ l.reuse => l.ev = l.cand /\ l.ev # None
    /\ l.at = "recheck" => l.reuse
    /\ l.at \in {"push", "verify"} => ~l.reuse

\* Evidence is a tip the branch has had; past the publication it is the head.
EvidenceInv(l, t, seen) ==
    /\ l.ev \in seen \cup {None}
    /\ l.at \in {"wait", "decide"} => l.ev = t.head /\ l.ev # None

\* The head of what is shipped is what the last review read, or the workflow on top of it.
ReviewInv(l, t) == l.at \in Authored /\ ~l.salvage => t.head \in {l.of, t.workflow}

\* While CI is awaited nothing is held against the run; what it concluded from a full list
\* of checks without an objection is that all of them passed.
CiInv(l) ==
    /\ l.at \in Shipping /\ ~l.salvage => l.override = "none"
    /\ l.at = "decide" /\ ~l.salvage /\ l.override = "none" /\ l.seen = 2 => l.checks = "green"

\* The row is done when the run is, with the head it released as its evidence.
RowInv(l, t, r, seen) ==
    /\ r.status = "done" <=> l.at = "done"
    /\ r.status = "done" => r.published = t.head /\ t.head \in seen

\* From the first review on there is something to ship.
HeadInv(l, t) ==
    /\ l.at = "idle" => l.of = None
    /\ l.at \in {"review"} \cup Authored \/ l.of # None => t.head # None

SessionInv(l, t, r, seen) ==
    /\ CandidateInv(l, t) /\ EvidenceInv(l, t, seen) /\ ReviewInv(l, t) /\ HeadInv(l, t) /\ CiInv(l)
    /\ RowInv(l, t, r, seen)

IInv ==
    /\ TypeOK /\ remote.tip \in remote.seen \cup {None}
    /\ \A s \in Sessions : SessionInv(loop[s], tree[s], row[s], remote.seen)

-----------------------------------------------------------------------------
LEMMA Limits ==
  /\ Last \in Nat /\ MaxCommits \in Nat /\ MaxPolls \in Nat /\ MaxCycles \in Nat
  /\ MaxForeign \in Nat /\ Grace \in Nat /\ MaxRepairs \in Nat
  /\ MaxPolls >= 1 /\ MaxCycles >= 1
  /\ PreviewOn \in BOOLEAN /\ Required \in BOOLEAN
  <1>1. \A n \in {Last, MaxCommits, MaxPolls, MaxCycles} : n \in Nat \ {0}
    BY PublicationAssumption, Zenon
  <1>2. \A n \in {MaxForeign, Grace, MaxRepairs} : n \in Nat
    BY PublicationAssumption, Zenon
  <1>3. \A b \in {PreviewOn, Required} : b \in BOOLEAN
    BY PublicationAssumption, Zenon
  <1>4. Last \in Nat /\ MaxCommits \in Nat /\ MaxPolls \in Nat \ {0} /\ MaxCycles \in Nat \ {0}
    BY <1>1
  <1>5. MaxForeign \in Nat /\ Grace \in Nat /\ MaxRepairs \in Nat
    BY <1>2
  <1>6. PreviewOn \in BOOLEAN /\ Required \in BOOLEAN
    BY <1>3, Zenon
  <1> QED
    BY <1>4, <1>5, <1>6

LEMMA LoopFields ==
  ASSUME TypeOK, NEW s \in Sessions
  PROVE  /\ loop[s] \in Loops /\ tree[s] \in Trees /\ row[s] \in Rows
         /\ loop[s].at \in Running \cup {"idle", "done", "failed"} /\ loop[s].salvage \in BOOLEAN
         /\ loop[s].verdict \in Verdicts \cup {"none"} /\ loop[s].of \in Numbers
         /\ loop[s].ev \in Numbers /\ loop[s].cand \in Numbers /\ loop[s].reuse \in BOOLEAN
         /\ loop[s].polls \in 0 .. MaxPolls /\ loop[s].seen \in 0 .. 2
         /\ loop[s].denied \in 0 .. Denials
         /\ loop[s].checks \in {"none", "lone", "running", "red", "green"}
         /\ loop[s].override \in {"none", "timeout", "missing", "red", "indeterminate"}
         /\ loop[s].findings \in BOOLEAN /\ loop[s].cycles \in 0 .. MaxCycles + MaxRepairs
         /\ loop[s].repairs \in 0 .. MaxRepairs /\ loop[s].behaved \in BOOLEAN
  <1>1. loop[s] \in Loops /\ tree[s] \in Trees /\ row[s] \in Rows
    BY DEF TypeOK
  <1> QED
    BY <1>1 DEF Loops

LEMMA TreeFields ==
  ASSUME TypeOK, NEW s \in Sessions
  PROVE  /\ tree[s].head \in Numbers /\ tree[s].hist \in SUBSET Commits
         /\ tree[s].workflow \in Numbers /\ tree[s].kept \in BOOLEAN
         /\ tree[s].head \in tree[s].hist \cup {None} /\ tree[s].hist \subseteq 1 .. born
  <1>1. tree[s] \in Trees
    BY DEF TypeOK
  <1> QED
    BY <1>1 DEF Trees, TypeOK

LEMMA RowFields ==
  ASSUME TypeOK, NEW s \in Sessions
  PROVE  /\ row[s].status \in {"open", "done", "failed"} /\ row[s].pr \in BOOLEAN
         /\ row[s].rec \in {"none", "merge", "do_not_merge", "needs_human_review"}
         /\ row[s].published \in Numbers
  <1>1. row[s] \in Rows
    BY DEF TypeOK
  <1> QED
    BY <1>1 DEF Rows

Remotes == [tip : Numbers, hist : SUBSET Commits, seen : SUBSET Commits]

LEMMA RemoteFields ==
  ASSUME TypeOK
  PROVE  /\ remote \in Remotes /\ born \in Numbers /\ born \in Nat
         /\ remote.tip \in Numbers /\ remote.hist \in SUBSET Commits /\ remote.seen \in SUBSET Commits
         /\ remote.tip \in remote.hist \cup {None}
         /\ remote.hist \subseteq 1 .. born /\ remote.seen \subseteq 1 .. born
  <1>1. remote \in Remotes /\ born \in Numbers
    BY DEF TypeOK, Remotes
  <1>2. remote.tip \in Numbers /\ remote.hist \in SUBSET Commits /\ remote.seen \in SUBSET Commits
    BY <1>1 DEF Remotes
  <1>3. born \in Nat
    BY <1>1, Limits DEF Numbers
  <1>4. remote.tip \in remote.hist \cup {None} /\ remote.hist \subseteq 1 .. born /\ remote.seen \subseteq 1 .. born
    BY DEF TypeOK
  <1> QED
    BY <1>1, <1>2, <1>3, <1>4

\* A step of session s moves its run to l, its worktree to t and its row to r.
Moves(s, l, t, r) ==
    /\ loop' = [loop EXCEPT ![s] = l] /\ tree' = [tree EXCEPT ![s] = t] /\ row' = [row EXCEPT ![s] = r]

\* What the branch and the commits may do in any step.
World ==
    /\ born' \in Numbers /\ born <= born' /\ meddled' \in 0 .. MaxForeign /\ remote' \in Remotes
    /\ remote'.tip \in remote'.hist \cup {None} /\ remote'.tip \in remote'.seen \cup {None}
    /\ remote'.hist \subseteq 1 .. born' /\ remote'.seen \subseteq 1 .. born'
    /\ remote.seen \subseteq remote'.seen

\* Evidence stays evidence: the branch forgets no tip it had.
LEMMA SeenGrows ==
  ASSUME NEW l, NEW t, NEW r, NEW seen, NEW more, seen \subseteq more, SessionInv(l, t, r, seen)
  PROVE  SessionInv(l, t, r, more)
  BY DEF SessionInv, CandidateInv, EvidenceInv, ReviewInv, CiInv, RowInv, HeadInv

\* A step of one session keeps the invariant of the others.
LEMMA Moved ==
  ASSUME IInv, World, NEW s \in Sessions, NEW l \in Loops, NEW t \in Trees, NEW r \in Rows,
         Moves(s, l, t, r), t.head \in t.hist \cup {None}, t.hist \subseteq 1 .. born',
         l.cycles <= MaxCycles + l.repairs, SessionInv(l, t, r, remote'.seen)
  PROVE  IInv'
  <1>1. /\ loop \in [Sessions -> Loops] /\ tree \in [Sessions -> Trees] /\ row \in [Sessions -> Rows]
        /\ born \in Nat
    BY RemoteFields DEF IInv, TypeOK
  <1>2. loop' \in [Sessions -> Loops] /\ tree' \in [Sessions -> Trees] /\ row' \in [Sessions -> Rows]
    BY <1>1 DEF Moves
  <1>3. loop'[s] = l /\ tree'[s] = t /\ row'[s] = r
    BY <1>1 DEF Moves
  <1>4. \A q \in Sessions : q # s => loop'[q] = loop[q] /\ tree'[q] = tree[q] /\ row'[q] = row[q]
    BY <1>1 DEF Moves
  <1>5. ASSUME NEW q \in Sessions
        PROVE  /\ tree'[q].head \in tree'[q].hist \cup {None} /\ tree'[q].hist \subseteq 1 .. born'
               /\ loop'[q].cycles <= MaxCycles + loop'[q].repairs
               /\ SessionInv(loop'[q], tree'[q], row'[q], remote'.seen)
    <2>1. CASE q = s
      BY <1>3, <2>1
    <2>2. CASE q # s
      <3>1. \A n \in 1 .. born : n \in 1 .. born'
        BY <1>1, Limits DEF World, Numbers
      <3>2. tree'[q].head \in tree'[q].hist \cup {None} /\ tree'[q].hist \subseteq 1 .. born'
        BY <1>4, <2>2, <3>1 DEF IInv, TypeOK
      <3>3. loop'[q].cycles <= MaxCycles + loop'[q].repairs
        BY <1>4, <2>2 DEF IInv, TypeOK
      <3>4. SessionInv(loop'[q], tree'[q], row'[q], remote'.seen)
        BY <1>4, <2>2, SeenGrows DEF IInv, World
      <3> QED
        BY <3>2, <3>3, <3>4
    <2> QED
      BY <2>1, <2>2
  <1>6. TypeOK'
    BY <1>2, <1>5 DEF TypeOK, World, Remotes
  <1> QED
    BY <1>5, <1>6 DEF IInv, World

\* A step that leaves the branch and the commits alone.
LEMMA WorldStays ==
  ASSUME IInv, UNCHANGED <<born, meddled, remote>>
  PROVE  World
  BY RemoteFields DEF World, TypeOK, IInv

LEMMA InitInv == Init => IInv
  <1> SUFFICES ASSUME Init PROVE IInv
    OBVIOUS
  <1>1. 0 \in Numbers /\ 0 \in 0 .. MaxForeign /\ 0 \in 0 .. MaxPolls /\ 0 \in 0 .. 2 /\ 0 \in 0 .. Denials
        /\ 0 \in 0 .. MaxCycles + MaxRepairs /\ 0 \in 0 .. MaxRepairs
    BY Limits DEF Numbers, Denials
  <1>2. [NoRun EXCEPT !.behaved = ~Required] \in Loops
    BY <1>1 DEF NoRun, Loops, None
  <1>3. [head |-> None, hist |-> {}, workflow |-> None, kept |-> FALSE] \in Trees
    BY <1>1 DEF Trees, None
  <1>4. [status |-> "open", pr |-> FALSE, rec |-> "none", published |-> None] \in Rows
    BY <1>1 DEF Rows, None
  <1>5. remote \in [tip : Numbers, hist : SUBSET Commits, seen : SUBSET Commits]
    BY <1>1 DEF Init, None
  <1>6. TypeOK
    BY <1>1, <1>2, <1>3, <1>4, <1>5, Limits DEF Init, TypeOK, NoRun
  <1>7. ASSUME NEW s \in Sessions PROVE SessionInv(loop[s], tree[s], row[s], remote.seen)
    BY DEF Init, SessionInv, CandidateInv, EvidenceInv, ReviewInv, CiInv, RowInv, HeadInv, NoRun, Candidates,
           Shipping, Authored
  <1> QED
    BY <1>6, <1>7 DEF IInv, Init

-----------------------------------------------------------------------------
(* The steps of one session                                                *)

LEMMA Unmoved ==
  ASSUME TypeOK, NEW s \in Sessions
  PROVE  /\ loop = [loop EXCEPT ![s] = loop[s]] /\ tree = [tree EXCEPT ![s] = tree[s]]
         /\ row = [row EXCEPT ![s] = row[s]]
  BY DEF TypeOK

\* A step that only moves the run of s: what is left to show.
LEMMA RunMoved ==
  ASSUME IInv, NEW s \in Sessions, NEW l \in Loops, loop' = [loop EXCEPT ![s] = l],
         UNCHANGED <<born, meddled, remote, tree, row>>, l.cycles <= MaxCycles + l.repairs,
         SessionInv(l, tree[s], row[s], remote.seen)
  PROVE  IInv'
  <1>1. World
    BY WorldStays DEF IInv
  <1>2. tree[s] \in Trees /\ row[s] \in Rows /\ tree[s].head \in tree[s].hist \cup {None} /\ tree[s].hist \subseteq 1 .. born'
    BY LoopFields, TreeFields DEF IInv
  <1>3. Moves(s, l, tree[s], row[s])
    BY Unmoved DEF Moves, IInv
  <1>4. SessionInv(l, tree[s], row[s], remote'.seen)
    OBVIOUS
  <1> QED
    BY <1>1, <1>2, <1>3, <1>4, Moved

LEMMA FailKeeps ==
  ASSUME IInv, World, NEW s \in Sessions, NEW pr \in BOOLEAN, loop[s].at \in Running,
         loop' = [loop EXCEPT ![s] = [NoRun EXCEPT !.at = "failed"]],
         row' = [row EXCEPT ![s].status = "failed", ![s].pr = @ \/ pr], tree' = tree
  PROVE  IInv'
  <1> DEFINE l == [NoRun EXCEPT !.at = "failed"]
             r == [row[s] EXCEPT !.status = "failed", !.pr = @ \/ pr]
  <1>1. /\ tree[s] \in Trees /\ row[s] \in Rows /\ row[s].pr \in BOOLEAN
        /\ tree[s].head \in tree[s].hist \cup {None} /\ tree[s].hist \subseteq 1 .. born'
    <2>1. \A n \in 1 .. born : n \in 1 .. born'
      BY RemoteFields, Limits DEF World, Numbers, IInv
    <2> QED
      BY <2>1, LoopFields, TreeFields, RowFields DEF IInv
  <1>2. l \in Loops
    <2>1. 0 \in Numbers /\ 0 \in 0 .. MaxPolls /\ 0 \in 0 .. 2 /\ 0 \in 0 .. Denials
          /\ 0 \in 0 .. MaxCycles + MaxRepairs /\ 0 \in 0 .. MaxRepairs
      BY Limits DEF Numbers, Denials
    <2> QED
      BY <2>1 DEF NoRun, Loops, None
  <1>3. r \in Rows
    BY <1>1 DEF Rows
  <1>4. Moves(s, l, tree[s], r)
    BY Unmoved DEF Moves, IInv, TypeOK
  <1>5. l.cycles <= MaxCycles + l.repairs
    BY Limits DEF NoRun
  <1>6. SessionInv(l, tree[s], r, remote'.seen)
    <2>1. l.at = "failed" /\ l.ev = None /\ l.of = None /\ r.status = "failed"
      BY <1>1 DEF NoRun, Rows
    <2> HIDE DEF l, r
    <2> QED
      BY <2>1 DEF SessionInv, CandidateInv, EvidenceInv, ReviewInv, CiInv, RowInv, HeadInv, Candidates, Shipping, Authored
  <1> HIDE DEF l, r
  <1> QED
    BY <1>1, <1>2, <1>3, <1>4, <1>5, <1>6, Moved

LEMMA FailKeptKeeps ==
  ASSUME IInv, NEW s \in Sessions, NEW pr \in BOOLEAN, loop[s].at \in Running, FailKept(s, pr),
         meddled' = meddled
  PROVE  IInv'
  <1>1. World
    BY WorldStays DEF IInv, FailKept
  <1> QED
    BY <1>1, FailKeeps DEF FailKept

LEMMA StartKeeps ==
  ASSUME IInv, NEW s \in Sessions, Start(s), meddled' = meddled
  PROVE  IInv'
  <1> DEFINE l == [loop[s] EXCEPT !.at = "work"]
             t == [head |-> remote.tip, hist |-> remote.hist, kept |-> TRUE,
                   workflow |-> IF s > 1 THEN tree[s - 1].workflow ELSE None]
  <1>1. World
    BY WorldStays DEF IInv, Start
  <1>2. l \in Loops /\ l.cycles <= MaxCycles + l.repairs /\ l.at = "work" /\ l.ev = loop[s].ev /\ l.of = loop[s].of
    <2>1. loop[s] \in Loops
      BY LoopFields DEF IInv
    <2>2. loop[s].cycles <= MaxCycles + loop[s].repairs
      BY DEF IInv, TypeOK
    <2> QED
      BY <2>1, <2>2 DEF Loops, Running
  <1>3. t \in Trees
    <2>1. s > 1 => s - 1 \in Sessions
      BY Limits DEF Sessions
    <2>2. s > 1 => tree[s - 1].workflow \in Numbers
      BY <2>1, TreeFields DEF IInv
    <2>3. None \in Numbers
      BY Limits DEF Numbers, None
    <2> QED
      BY <2>2, <2>3, RemoteFields DEF Trees, IInv
  <1>4. t.head \in t.hist \cup {None} /\ t.hist \subseteq 1 .. born'
    BY RemoteFields DEF IInv, Start
  <1>5. Moves(s, l, t, row[s]) /\ row[s] \in Rows
    BY Unmoved, LoopFields DEF Moves, Start, Go, IInv
  <1>6. SessionInv(l, t, row[s], remote'.seen)
    <2>1. loop[s].at = "idle" /\ remote' = remote
      BY DEF Start
    <2> HIDE DEF l, t
    <2> QED
      BY <1>2, <2>1 DEF IInv, SessionInv, CandidateInv, EvidenceInv, ReviewInv, CiInv, RowInv, HeadInv,
                        Candidates, Shipping, Authored
  <1> HIDE DEF l, t
  <1> QED
    BY <1>1, <1>2, <1>3, <1>4, <1>5, <1>6, Moved

\* A commit on top of the head.
LEMMA Extends ==
  ASSUME TypeOK, NEW s \in Sessions, born < MaxCommits
  PROVE  /\ born + 1 \in Numbers /\ born + 1 # None
         /\ Extended(tree[s], born + 1) \in Trees
         /\ Extended(tree[s], born + 1).head = born + 1
         /\ Extended(tree[s], born + 1).head \in Extended(tree[s], born + 1).hist \cup {None}
         /\ Extended(tree[s], born + 1).hist \subseteq 1 .. (born + 1)
  <1>1. tree[s] \in Trees /\ tree[s].hist \subseteq 1 .. born /\ tree[s].hist \in SUBSET Commits
    BY LoopFields, TreeFields
  <1>2. born \in Nat
    BY RemoteFields
  <1>3. born + 1 \in Numbers /\ born + 1 # None /\ born + 1 \in Commits /\ born + 1 \in 1 .. (born + 1)
    BY <1>2, Limits DEF Numbers, None, Commits
  <1>4. /\ Extended(tree[s], born + 1).head = born + 1
        /\ Extended(tree[s], born + 1).hist = tree[s].hist \cup {born + 1}
    BY <1>1 DEF Extended, Trees
  <1>5. tree[s].hist \cup {born + 1} \in SUBSET Commits
    BY <1>1, <1>3
  <1>6. Extended(tree[s], born + 1) \in Trees
    BY <1>1, <1>3, <1>5 DEF Extended, Trees
  <1>7. \A n \in 1 .. born : n \in 1 .. (born + 1)
    BY <1>2
  <1>8. tree[s].hist \cup {born + 1} \subseteq 1 .. (born + 1)
    BY <1>1, <1>3, <1>7
  <1> QED
    BY <1>3, <1>4, <1>6, <1>8

LEMMA WorldGrows ==
  ASSUME IInv, born < MaxCommits, born' = born + 1, meddled' = meddled, remote' = remote
  PROVE  World
  <1>1. born \in Nat /\ born' \in Numbers /\ born <= born'
    BY RemoteFields, Limits DEF Numbers, IInv
  <1>2. \A n \in 1 .. born : n \in 1 .. born'
    BY <1>1
  <1> QED
    BY <1>1, <1>2, RemoteFields DEF World, TypeOK, IInv

LEMMA BuildKeeps ==
  ASSUME IInv, NEW s \in Sessions, Build(s), meddled' = meddled
  PROVE  IInv'
  <1> DEFINE l == [loop[s] EXCEPT !.at = "review", !.cycles = @ + 1]
  <1>1. /\ loop[s] \in Loops /\ row[s] \in Rows /\ loop[s].at = "work" /\ remote' = remote
        /\ loop' = [loop EXCEPT ![s] = l] /\ row' = row
        /\ loop[s].cycles < MaxCycles + loop[s].repairs
        /\ loop[s].cycles \in 0 .. MaxCycles + MaxRepairs /\ loop[s].repairs \in 0 .. MaxRepairs
    BY LoopFields DEF Build, IInv
  <1>2. loop[s].cycles + 1 \in 0 .. MaxCycles + MaxRepairs /\ loop[s].cycles + 1 <= MaxCycles + loop[s].repairs
    BY <1>1, Limits
  <1>3. l \in Loops /\ l.cycles <= MaxCycles + l.repairs /\ l.at = "review" /\ l.ev = loop[s].ev
    BY <1>1, <1>2 DEF Loops, Running
  <1>4. \A t : t.head # None => SessionInv(l, t, row[s], remote'.seen)
    <2> HIDE DEF l
    <2> QED
      BY <1>1, <1>3 DEF IInv, SessionInv, CandidateInv, EvidenceInv, ReviewInv, CiInv, RowInv, HeadInv,
                        Candidates, Shipping, Authored
  <1> HIDE DEF l
  <1>5. CASE Commit(s)
    <2>1. World /\ born < MaxCommits
      BY <1>1, <1>5, WorldGrows DEF IInv, Commit
    <2>2. Moves(s, l, Extended(tree[s], born + 1), row[s]) /\ born' = born + 1
      BY <1>1, <1>5, Unmoved DEF IInv, Moves, Commit
    <2> QED
      BY <1>1, <1>3, <1>4, <2>1, <2>2, Extends, Moved DEF IInv
  <1>6. CASE tree[s].head # None /\ UNCHANGED <<born, tree>>
    BY <1>1, <1>3, <1>4, <1>6, RunMoved
  <1> QED
    BY <1>5, <1>6 DEF Build

\* The head is what the last review read; a pass goes to its preview.
LEMMA ReviewKeeps ==
  ASSUME IInv, NEW s \in Sessions, NEW v \in Verdicts, NEW at \in {"work", "stage", "author"},
         loop[s].at \in {"review", "runtime"},
         loop' = [loop EXCEPT ![s].verdict = v, ![s].of = tree[s].head, ![s].at = at],
         UNCHANGED <<born, meddled, remote, tree, row>>
  PROVE  IInv'
  <1> DEFINE l == [loop[s] EXCEPT !.verdict = v, !.of = tree[s].head, !.at = at]
  <1>1. loop[s] \in Loops /\ tree[s].head \in Numbers /\ loop[s].cycles <= MaxCycles + loop[s].repairs
    BY LoopFields, TreeFields DEF IInv, TypeOK
  <1>2. /\ l \in Loops /\ l.cycles <= MaxCycles + l.repairs /\ l.at = at /\ l.of = tree[s].head
        /\ l.ev = loop[s].ev
    BY ZenonT(40), <1>1 DEF Loops, Running
  <1>3. loop' = [loop EXCEPT ![s] = l]
    OBVIOUS
  <1> HIDE DEF l
  <1>4. SessionInv(l, tree[s], row[s], remote.seen)
    BY <1>2 DEF IInv, SessionInv, CandidateInv, EvidenceInv, ReviewInv, CiInv, RowInv, HeadInv,
                Candidates, Shipping, Authored
  <1> QED
    BY <1>2, <1>3, <1>4, RunMoved

LEMMA AuthorKeeps ==
  ASSUME IInv, NEW s \in Sessions, Author(s), meddled' = meddled
  PROVE  IInv'
  <1>1. PICK next \in {"preview", "candidate"} :
            /\ loop' = [loop EXCEPT ![s].at = next, ![s].override = "none"]
            /\ loop[s].at \in {"stage", "author"}
    BY DEF Author
  <1> DEFINE l == [loop[s] EXCEPT !.at = next, !.override = "none"]
             t == [Extended(tree[s], born + 1) EXCEPT !.workflow = born + 1]
  <1>2. loop[s] \in Loops /\ row[s] \in Rows /\ loop[s].cycles <= MaxCycles + loop[s].repairs /\ remote' = remote /\ row' = row
    BY LoopFields DEF IInv, TypeOK, Author
  <1>3. /\ l \in Loops /\ l.cycles <= MaxCycles + l.repairs /\ l.at = next /\ l.override = "none"
        /\ l.ev = loop[s].ev /\ l.of = loop[s].of /\ l.salvage = loop[s].salvage
    BY ZenonT(40), <1>2 DEF Loops, Running
  <1>4. loop' = [loop EXCEPT ![s] = l]
    BY <1>1
  <1> HIDE DEF l
  <1>5. CASE UNCHANGED <<born, tree>>
    <2>1. SessionInv(l, tree[s], row[s], remote.seen)
      BY <1>1, <1>3 DEF IInv, SessionInv, CandidateInv, EvidenceInv, ReviewInv, CiInv, RowInv, HeadInv,
                        Candidates, Shipping, Authored
    <2> QED
      BY <1>2, <1>3, <1>4, <1>5, <2>1, RunMoved
  <1>6. CASE born < MaxCommits /\ born' = born + 1 /\ tree' = [tree EXCEPT ![s] = t]
    <2>1. World
      BY <1>2, <1>6, WorldGrows DEF IInv
    <2>2. /\ t \in Trees /\ t.head = born + 1 /\ t.head # None /\ t.workflow = born + 1
          /\ t.head \in t.hist \cup {None} /\ t.hist \subseteq 1 .. born'
      <3>1. /\ Extended(tree[s], born + 1) \in Trees /\ born + 1 \in Numbers /\ born + 1 # None
            /\ Extended(tree[s], born + 1).head = born + 1
            /\ Extended(tree[s], born + 1).head \in Extended(tree[s], born + 1).hist \cup {None}
            /\ Extended(tree[s], born + 1).hist \subseteq 1 .. (born + 1)
        BY <1>6, Extends DEF IInv
      <3> QED
        BY <1>6, <3>1 DEF Trees
    <2>3. Moves(s, l, t, row[s])
      BY <1>2, <1>4, <1>6, Unmoved DEF IInv, Moves
    <2> HIDE DEF t
    <2>4. SessionInv(l, t, row[s], remote'.seen)
      BY <1>1, <1>2, <1>3, <2>2 DEF IInv, SessionInv, CandidateInv, EvidenceInv, ReviewInv, CiInv, RowInv, HeadInv,
                        Candidates, Shipping, Authored
    <2> QED
      BY <1>2, <1>3, <2>1, <2>2, <2>3, <2>4, Moved
  <1> QED
    BY <1>5, <1>6 DEF Author

\* git push moves the tip to the head of s, which the branch then has had.
LEMMA PushedIsSeen ==
  ASSUME IInv, NEW s \in Sessions, Pushed(s), tree[s].head # None, UNCHANGED <<born, meddled>>
  PROVE  World /\ tree[s].head \in remote'.seen /\ remote'.tip = tree[s].head
  <1>1. /\ tree[s].head \in Numbers /\ tree[s].hist \in SUBSET Commits /\ tree[s].head \in tree[s].hist
        /\ tree[s].hist \subseteq 1 .. born
    BY TreeFields DEF IInv
  <1>2. remote.seen \cup {tree[s].head} \in SUBSET Commits /\ remote.seen \cup {tree[s].head} \subseteq 1 .. born
    BY <1>1, RemoteFields DEF IInv
  <1>3. remote' = [tip |-> tree[s].head, hist |-> tree[s].hist, seen |-> remote.seen \cup {tree[s].head}]
    BY DEF Pushed
  <1>4. remote' \in Remotes
    BY <1>1, <1>2, <1>3 DEF Remotes
  <1> QED
    BY <1>1, <1>2, <1>3, <1>4, RemoteFields DEF World, IInv, TypeOK

LEMMA PreviewKeeps ==
  ASSUME IInv, NEW s \in Sessions, Preview(s), meddled' = meddled
  PROVE  IInv'
  <1>1. loop[s].at = "preview" /\ tree[s].head # None
    BY DEF IInv, SessionInv, CandidateInv, EvidenceInv, ReviewInv, CiInv, RowInv, HeadInv,
                        Candidates, Shipping, Authored, Preview
  <1>2. CASE FailKept(s, FALSE)
    BY <1>1, <1>2, FailKeptKeeps DEF Running
  <1>3. CASE /\ Pushed(s) /\ loop' = [loop EXCEPT ![s].at = "runtime", ![s].ev = tree[s].head]
             /\ UNCHANGED <<born, tree, row>>
    <2> DEFINE l == [loop[s] EXCEPT !.at = "runtime", !.ev = tree[s].head]
    <2>1. World /\ tree[s].head \in remote'.seen /\ remote.seen \subseteq remote'.seen
      BY <1>1, <1>3, PushedIsSeen DEF World
    <2>2. /\ loop[s] \in Loops /\ tree[s] \in Trees /\ row[s] \in Rows /\ tree[s].head \in Numbers
          /\ tree[s].head \in tree[s].hist \cup {None} /\ tree[s].hist \subseteq 1 .. born'
          /\ loop[s].cycles <= MaxCycles + loop[s].repairs
      BY <1>3, LoopFields, TreeFields DEF IInv, TypeOK
    <2>3. /\ l \in Loops /\ l.cycles <= MaxCycles + l.repairs /\ l.at = "runtime" /\ l.ev = tree[s].head
          /\ l.of = loop[s].of /\ l.salvage = loop[s].salvage
      BY <2>2 DEF Loops, Running
    <2>4. Moves(s, l, tree[s], row[s])
      BY <1>3, Unmoved DEF IInv, Moves
    <2> HIDE DEF l
    <2>5. SessionInv(l, tree[s], row[s], remote'.seen)
      BY <1>1, <2>1, <2>3 DEF IInv, SessionInv, CandidateInv, EvidenceInv, ReviewInv, CiInv, RowInv, HeadInv,
                        Candidates, Shipping, Authored
    <2> QED
      BY <2>1, <2>2, <2>3, <2>4, <2>5, Moved
  <1> QED
    BY <1>2, <1>3 DEF Preview

\* A broken run goes to the publication of what it has.
LEMMA SalvagedKeeps ==
  ASSUME IInv, NEW s \in Sessions, Salvaged(s), meddled' = meddled, loop[s].at \in {"work", "review"},
         tree[s].head # None
  PROVE  IInv'
  <1> DEFINE l == [loop[s] EXCEPT !.at = "candidate", !.salvage = TRUE]
  <1>1. loop[s] \in Loops /\ loop[s].cycles <= MaxCycles + loop[s].repairs
    BY LoopFields DEF IInv, TypeOK
  <1>2. /\ l \in Loops /\ l.cycles <= MaxCycles + l.repairs /\ l.at = "candidate" /\ l.salvage
        /\ l.ev = loop[s].ev /\ l.of = loop[s].of
    BY <1>1 DEF Loops, Running
  <1>3. loop' = [loop EXCEPT ![s] = l] /\ UNCHANGED <<born, meddled, remote, tree, row>>
    BY DEF Salvaged
  <1> HIDE DEF l
  <1>4. SessionInv(l, tree[s], row[s], remote.seen)
    BY <1>2 DEF IInv, SessionInv, CandidateInv, EvidenceInv, ReviewInv, CiInv, RowInv, HeadInv,
                        Candidates, Shipping, Authored
  <1> QED
    BY <1>2, <1>3, <1>4, RunMoved

LEMMA BreaksKeep ==
  ASSUME IInv, NEW s \in Sessions, Salvage(s) \/ Stalled(s), meddled' = meddled
  PROVE  IInv'
  <1>1. loop[s].at \in {"work", "review"} /\ loop[s].at \in Running
    BY DEF Salvage, Stalled, Running
  <1>2. CASE FailKept(s, FALSE)
    BY <1>1, <1>2, FailKeptKeeps
  <1>3. CASE Salvaged(s) /\ (loop[s].of # None \/ tree[s].head # None)
    <2>1. tree[s].head # None
      BY <1>3 DEF IInv, SessionInv, HeadInv
    <2> QED
      BY <1>1, <1>3, <2>1, SalvagedKeeps
  <1> QED
    BY <1>2, <1>3 DEF Salvage, Stalled

LEMMA ResolveKeeps ==
  ASSUME IInv, NEW s \in Sessions, Resolve(s), meddled' = meddled
  PROVE  IInv'
  <1>1. PICK cand \in {tree[s].head, None} :
          loop' = [loop EXCEPT ![s].cand = cand,
                               ![s].reuse = ~loop[s].salvage /\ Covers(loop[s].ev, cand),
                               ![s].at = IF ~loop[s].salvage /\ Covers(loop[s].ev, cand) THEN "recheck" ELSE "push"]
    BY DEF Resolve, Candidate
  <1>2. PICK reuse \in BOOLEAN : reuse = (~loop[s].salvage /\ Covers(loop[s].ev, cand))
    OBVIOUS
  <1> DEFINE l == [loop[s] EXCEPT !.cand = cand, !.reuse = reuse, !.at = IF reuse THEN "recheck" ELSE "push"]
  <1>3. /\ loop[s] \in Loops /\ loop[s].cycles <= MaxCycles + loop[s].repairs /\ loop[s].at = "candidate"
        /\ UNCHANGED <<born, meddled, remote, tree, row>>
    BY LoopFields DEF IInv, TypeOK, Resolve
  <1>4. cand \in Numbers
    BY TreeFields, Limits DEF IInv, None, Numbers
  <1>5. /\ l \in Loops /\ l.cycles <= MaxCycles + l.repairs /\ l.at = IF reuse THEN "recheck" ELSE "push"
        /\ l.ev = loop[s].ev /\ l.of = loop[s].of /\ l.cand = cand /\ l.reuse = reuse
        /\ l.salvage = loop[s].salvage /\ l.override = loop[s].override
    BY ZenonT(40), <1>3, <1>4 DEF Loops, Running
  <1>6. loop' = [loop EXCEPT ![s] = l]
    BY <1>1, <1>2
  <1>7. reuse => loop[s].ev = cand /\ loop[s].ev # None
    BY <1>2 DEF Covers
  <1> HIDE DEF l
  <1>8. SessionInv(l, tree[s], row[s], remote.seen)
    BY <1>3, <1>5, <1>7 DEF IInv, SessionInv, CandidateInv, EvidenceInv, ReviewInv, CiInv, RowInv, HeadInv,
                        Candidates, Shipping, Authored
  <1> QED
    BY <1>3, <1>5, <1>6, <1>8, RunMoved

\* The run goes on to its next step with its candidate, reused or not.
LEMMA GoKeeps ==
  ASSUME IInv, NEW s \in Sessions, NEW at \in {"push", "open", "verify"}, NEW reuse \in BOOLEAN,
         loop[s].at \in Candidates, loop' = [loop EXCEPT ![s].at = at, ![s].reuse = reuse],
         reuse => loop[s].reuse /\ at = "open", UNCHANGED <<born, meddled, tree, row>>, World
  PROVE  IInv'
  <1> DEFINE l == [loop[s] EXCEPT !.at = at, !.reuse = reuse]
  <1>1. /\ loop[s] \in Loops /\ tree[s] \in Trees /\ row[s] \in Rows
        /\ loop[s].cycles <= MaxCycles + loop[s].repairs
        /\ tree[s].head \in tree[s].hist \cup {None} /\ tree[s].hist \subseteq 1 .. born'
    BY LoopFields, TreeFields DEF IInv, TypeOK
  <1>2. /\ l \in Loops /\ l.cycles <= MaxCycles + l.repairs /\ l.at = at
        /\ l.ev = loop[s].ev /\ l.of = loop[s].of /\ l.cand = loop[s].cand /\ l.reuse = reuse
        /\ l.salvage = loop[s].salvage /\ l.override = loop[s].override
    BY ZenonT(40), <1>1 DEF Loops, Running
  <1>3. Moves(s, l, tree[s], row[s])
    BY Unmoved DEF IInv, Moves
  <1> HIDE DEF l
  <1>4. SessionInv(l, tree[s], row[s], remote.seen)
    BY <1>2 DEF IInv, SessionInv, CandidateInv, EvidenceInv, ReviewInv, CiInv, RowInv, HeadInv,
                        Candidates, Shipping, Authored
  <1>5. SessionInv(l, tree[s], row[s], remote'.seen)
    BY <1>4, SeenGrows DEF World
  <1> QED
    BY <1>1, <1>2, <1>3, <1>5, Moved

LEMMA RecheckKeeps ==
  ASSUME IInv, NEW s \in Sessions, Recheck(s), meddled' = meddled
  PROVE  IInv'
  <1>1. /\ loop[s].at = "recheck" /\ loop[s].at \in Candidates /\ loop[s].at \in Running /\ loop[s].reuse
        /\ loop[s] \in Loops /\ loop \in [Sessions -> Loops]
    BY LoopFields DEF Recheck, Candidates, Running, IInv, SessionInv, CandidateInv, TypeOK
  <1>2. CASE FailKept(s, FALSE)
    BY <1>1, <1>2, FailKeptKeeps
  <1>3. CASE Go(s, "open") /\ UNCHANGED <<born, tree, remote, row>>
    <2>1. loop' = [loop EXCEPT ![s].at = "open", ![s].reuse = TRUE]
      BY ZenonT(40), <1>1, <1>3 DEF Go, Loops
    <2>2. World
      BY <1>3, WorldStays DEF IInv
    <2> QED
      BY <1>1, <1>3, <2>1, <2>2, GoKeeps
  <1>4. CASE loop' = [loop EXCEPT ![s].at = "push", ![s].reuse = FALSE] /\ UNCHANGED <<born, tree, remote, row>>
    <2>1. World
      BY <1>4, WorldStays DEF IInv
    <2> QED
      BY <1>1, <1>4, <2>1, GoKeeps
  <1> QED
    BY <1>2, <1>3, <1>4 DEF Recheck

LEMMA PushKeeps ==
  ASSUME IInv, NEW s \in Sessions, Push(s), meddled' = meddled
  PROVE  IInv'
  <1>1. /\ loop[s].at = "push" /\ loop[s].at \in Candidates /\ loop[s].at \in Running /\ ~loop[s].reuse
        /\ loop[s] \in Loops /\ loop \in [Sessions -> Loops] /\ tree[s].head # None
        /\ row[s] \in Rows /\ row \in [Sessions -> Rows]
    BY LoopFields DEF Push, Candidates, Shipping, Authored, Running, IInv, SessionInv, CandidateInv, HeadInv, TypeOK
  <1>2. CASE FailKept(s, FALSE)
    BY <1>1, <1>2, FailKeptKeeps
  <1>3. CASE Pushed(s) /\ Go(s, "open") /\ UNCHANGED <<born, tree, row>>
    <2>1. loop' = [loop EXCEPT ![s].at = "open", ![s].reuse = FALSE]
      BY <1>1, <1>3 DEF Go, Loops
    <2>2. World
      BY <1>1, <1>3, PushedIsSeen
    <2> QED
      BY <1>1, <1>3, <2>1, <2>2, GoKeeps
  <1>4. CASE /\ Pushed(s) /\ loop' = [loop EXCEPT ![s] = [NoRun EXCEPT !.at = "failed"]]
             /\ row' = [row EXCEPT ![s].status = "failed"] /\ UNCHANGED <<born, tree>>
    <2>1. row' = [row EXCEPT ![s].status = "failed", ![s].pr = @ \/ FALSE]
      <3>1. row[s].pr \in BOOLEAN
        BY RowFields DEF IInv
      <3>2. row[s].pr = (row[s].pr \/ FALSE)
        BY <3>1
      <3> QED
        BY <1>1, <1>4, <3>2 DEF Rows
    <2>2. World
      BY <1>1, <1>4, PushedIsSeen
    <2> QED
      BY <1>1, <1>4, <2>1, <2>2, FailKeeps
  <1> QED
    BY <1>2, <1>3, <1>4 DEF Push

\* The publication holds: its evidence is the head, which the branch has had.
LEMMA PublishedKeeps ==
  ASSUME IInv, NEW s \in Sessions, NEW ev, Published(s, ev), meddled' = meddled,
         loop[s].at \in {"open", "verify"}, ev = loop[s].cand, ev # None, ev \in remote.seen
  PROVE  IInv'
  <1> DEFINE l == [loop[s] EXCEPT !.ev = ev, !.at = IF loop[s].salvage THEN "decide" ELSE "wait",
                                  !.polls = 0, !.seen = 0, !.denied = 0, !.cand = None, !.reuse = FALSE,
                                  !.checks = "none", !.findings = FALSE]
             r == [row[s] EXCEPT !.pr = TRUE]
  <1>1. /\ loop[s] \in Loops /\ tree[s] \in Trees /\ row[s] \in Rows /\ loop[s].cand \in Numbers
        /\ loop[s].cycles <= MaxCycles + loop[s].repairs
        /\ tree[s].head \in tree[s].hist \cup {None} /\ tree[s].hist \subseteq 1 .. born'
        /\ loop[s].salvage \in BOOLEAN
    BY SMTT(30), LoopFields, TreeFields DEF IInv, TypeOK, Published
  <1>2. World /\ remote' = remote
    BY WorldStays DEF Published
  <1>3. /\ 0 \in 0 .. MaxPolls /\ 0 \in 0 .. 2 /\ 0 \in 0 .. Denials /\ None \in Numbers
    BY Limits DEF Denials, None, Numbers
  <1>4. l \in Loops
    <2> DEFINE at == IF loop[s].salvage THEN "decide" ELSE "wait"
    <2>1. loop[s] \in Loops /\ ev \in Numbers /\ at \in Running
      BY <1>1 DEF Running
    <2> HIDE DEF at
    <2>2. ASSUME NEW k \in Loops
          PROVE  [k EXCEPT !.ev = ev, !.at = at, !.polls = 0, !.seen = 0, !.denied = 0, !.cand = None,
                           !.reuse = FALSE, !.checks = "none", !.findings = FALSE] \in Loops
      <3>1. [k EXCEPT !.ev = ev, !.cand = None, !.at = at] \in Loops
        BY ZenonT(40), <1>3, <2>1 DEF Loops
      <3>2. ASSUME NEW j \in Loops
            PROVE  [j EXCEPT !.polls = 0, !.seen = 0, !.denied = 0] \in Loops
        BY <1>3 DEF Loops
      <3>3. ASSUME NEW j \in Loops
            PROVE  [j EXCEPT !.reuse = FALSE, !.checks = "none", !.findings = FALSE] \in Loops
        BY DEF Loops
      <3>4. [k EXCEPT !.ev = ev, !.at = at, !.polls = 0, !.seen = 0, !.denied = 0, !.cand = None,
                      !.reuse = FALSE, !.checks = "none", !.findings = FALSE]
            = [[[k EXCEPT !.ev = ev, !.cand = None, !.at = at] EXCEPT !.polls = 0, !.seen = 0, !.denied = 0]
               EXCEPT !.reuse = FALSE, !.checks = "none", !.findings = FALSE]
        BY DEF Loops
      <3> QED
        BY <3>1, <3>2, <3>3, <3>4
    <2> QED
      BY <2>1, <2>2 DEF at
  <1>5. /\ l.cycles <= MaxCycles + l.repairs /\ l.at = (IF l.salvage THEN "decide" ELSE "wait")
        /\ l.ev = ev /\ l.of = loop[s].of /\ l.salvage = loop[s].salvage /\ l.override = loop[s].override
    BY <1>1 DEF Loops
  <1>6. r \in Rows /\ r.status = row[s].status /\ r.published = row[s].published
    BY <1>1 DEF Rows
  <1>7. Moves(s, l, tree[s], r)
    <2>1. loop' = [loop EXCEPT ![s] = l]
      BY ZenonT(40) DEF Published
    <2>2. row' = [row EXCEPT ![s] = r]
      BY DEF Published
    <2>3. tree' = tree
      BY DEF Published
    <2> HIDE DEF l, r
    <2> QED
      BY <2>1, <2>2, <2>3, Unmoved DEF IInv, Moves
  <1> HIDE DEF l, r
  <1>8. SessionInv(l, tree[s], r, remote'.seen)
    BY <1>2, <1>5, <1>6 DEF IInv, SessionInv, CandidateInv, EvidenceInv, ReviewInv, CiInv, RowInv, HeadInv,
                        Candidates, Shipping, Authored
  <1> QED
    BY <1>1, <1>2, <1>4, <1>5, <1>6, <1>7, <1>8, Moved

LEMMA OpenPullRequestKeeps ==
  ASSUME IInv, NEW s \in Sessions, OpenPullRequest(s), meddled' = meddled
  PROVE  IInv'
  <1>1. /\ loop[s].at = "open" /\ loop[s].at \in Candidates /\ loop[s].at \in Running
        /\ loop[s] \in Loops /\ loop \in [Sessions -> Loops]
        /\ loop[s].reuse => loop[s].ev = loop[s].cand /\ loop[s].ev # None /\ loop[s].ev \in remote.seen
    BY LoopFields DEF OpenPullRequest, Candidates, Running, IInv, SessionInv, CandidateInv, EvidenceInv, TypeOK
  <1>2. CASE FailKept(s, FALSE)
    BY <1>1, <1>2, FailKeptKeeps
  <1>3. CASE ~loop[s].reuse /\ Go(s, "verify") /\ UNCHANGED <<born, tree, remote, row>>
    <2>1. loop' = [loop EXCEPT ![s].at = "verify", ![s].reuse = FALSE]
      BY <1>1, <1>3 DEF Go, Loops
    <2>2. World
      BY <1>3, WorldStays
    <2> QED
      BY <1>1, <1>3, <2>1, <2>2, GoKeeps
  <1>4. CASE loop[s].reuse /\ Published(s, loop[s].ev)
    BY <1>1, <1>4, PublishedKeeps
  <1> QED
    BY <1>2, <1>3, <1>4 DEF OpenPullRequest

LEMMA VerifyKeeps ==
  ASSUME IInv, NEW s \in Sessions, Verify(s), meddled' = meddled
  PROVE  IInv'
  <1>1. loop[s].at = "verify" /\ loop[s].at \in Running
    BY DEF Verify, Running
  <1>2. PICK read \in Reads :
          IF Confirms(read, loop[s].cand) THEN Published(s, read) ELSE FailKept(s, TRUE)
    BY DEF Verify
  <1>3. CASE FailKept(s, TRUE)
    BY <1>1, <1>3, FailKeptKeeps
  <1>4. CASE Confirms(read, loop[s].cand) /\ Published(s, read)
    <2>1. read # None /\ read = loop[s].cand /\ read \in remote.seen
      BY <1>4 DEF IInv, Reads, Confirms
    <2> QED
      BY <1>1, <1>4, <2>1, PublishedKeeps
  <1> QED
    BY <1>2, <1>3, <1>4

-----------------------------------------------------------------------------
(* The wait for CI                                                         *)

\* A poll concludes the wait, or the wait goes on.
LEMMA WaitKeeps ==
  ASSUME IInv, NEW s \in Sessions, NEW l \in Loops, loop' = [loop EXCEPT ![s] = l],
         UNCHANGED <<born, meddled, remote, tree, row>>, loop[s].at = "wait", l.at \in {"wait", "decide"},
         l.ev = loop[s].ev, l.of = loop[s].of, l.salvage = loop[s].salvage,
         l.cycles = loop[s].cycles, l.repairs = loop[s].repairs,
         l.at = "wait" => l.override = loop[s].override,
         l.at = "decide" /\ l.override = "none" /\ l.seen = 2 => l.checks = "green"
  PROVE  IInv'
  <1>1. loop[s].cycles <= MaxCycles + loop[s].repairs
    BY DEF IInv, TypeOK
  <1>2. SessionInv(l, tree[s], row[s], remote.seen)
    BY DEF IInv, SessionInv, CandidateInv, EvidenceInv, ReviewInv, CiInv, RowInv, HeadInv, Candidates, Shipping,
           Authored
  <1> QED
    BY <1>1, <1>2, RunMoved

\* The numbers one poll works with.
LEMMA Polled ==
  ASSUME IInv, NEW s \in Sessions, NEW r \in Snapshots(loop[s].checks)
  PROVE  /\ r \in {"none", "lone", "running", "red", "green"} /\ Registered(r) \in 0 .. 2
         /\ loop[s].seen \in 0 .. 2 /\ Tick(loop[s].polls) \in 0 .. MaxPolls
         /\ r \in {"running", "red", "green"} => r = loop[s].checks
         /\ r \in {"running", "red", "green"} <=> Registered(r) = 2
         /\ r = "lone" <=> Registered(r) = 1
  <1>1. /\ loop[s].checks \in {"none", "lone", "running", "red", "green"} /\ loop[s].seen \in 0 .. 2
        /\ loop[s].polls \in 0 .. MaxPolls
    BY LoopFields DEF IInv
  <1>2. Tick(loop[s].polls) \in 0 .. MaxPolls
    BY <1>1, Limits DEF Tick
  <1>3. r \in {"none", "lone"} \/ r = loop[s].checks
    BY DEF Snapshots
  <1>4. r \in {"none", "lone", "running", "red", "green"}
    BY <1>1, <1>3
  <1>5. Registered(r) = IF r = "none" THEN 0 ELSE IF r = "lone" THEN 1 ELSE 2
    BY <1>4 DEF Registered
  <1> QED
    BY <1>1, <1>2, <1>3, <1>4, <1>5

\* A poll turns the runs into g: only that of s changes, and only in what the wait is about.
Polls(g, s, n) ==
    /\ g \in [Sessions -> Loops] /\ \A q \in Sessions : q # s => g[q] = loop[q]
    /\ g[s].ev = loop[s].ev /\ g[s].of = loop[s].of /\ g[s].salvage = loop[s].salvage
    /\ g[s].cycles = loop[s].cycles /\ g[s].repairs = loop[s].repairs
    /\ g[s].checks = loop[s].checks /\ g[s].seen = n

LEMMA PollKeeps ==
  ASSUME IInv, NEW s \in Sessions, NEW n \in 0 .. 2, Polls(loop', s, n),
         UNCHANGED <<born, meddled, remote, tree, row>>,
         loop[s].at = "wait", loop'[s].at \in {"wait", "decide"},
         loop'[s].at = "wait" => loop'[s].override = loop[s].override,
         loop'[s].at = "decide" /\ loop'[s].override = "none" /\ n = 2 => loop[s].checks = "green"
  PROVE  IInv'
  <1>1. PICK l : l = loop'[s]
    OBVIOUS
  <1>2. loop' = [loop EXCEPT ![s] = l]
    <2>1. loop \in [Sessions -> Loops]
      BY DEF IInv, TypeOK
    <2> QED
      BY <1>1, <2>1 DEF Polls
  <1>3. /\ l \in Loops /\ l.ev = loop[s].ev /\ l.of = loop[s].of /\ l.salvage = loop[s].salvage
        /\ l.cycles = loop[s].cycles /\ l.repairs = loop[s].repairs
        /\ l.checks = loop[s].checks /\ l.seen = n
        /\ l.at \in {"wait", "decide"} /\ (l.at = "wait" => l.override = loop[s].override)
        /\ (l.at = "decide" /\ l.override = "none" /\ n = 2 => loop[s].checks = "green")
    BY <1>1 DEF Polls
  <1> QED
    BY <1>2, <1>3, WaitKeeps

\* The assignments of a poll, one at a time: what is left of the run is as it was.
Counted(s, polls, n) == [loop EXCEPT ![s].polls = polls, ![s].denied = 0, ![s].seen = n]
Ended(g, s) == [g EXCEPT ![s].at = "decide", ![s].polls = 0]
Objected(g, s, o) == [g EXCEPT ![s].override = o]
Behaved(g, s, b) == [g EXCEPT ![s].behaved = b]
Found(g, s, b) == [g EXCEPT ![s].findings = b]

LEMMA PollCounts ==
  ASSUME TypeOK, NEW s \in Sessions, NEW n \in 0 .. 2, NEW polls \in 0 .. MaxPolls
  PROVE  LET g == Counted(s, polls, n) IN
         Polls(g, s, n) /\ g[s].at = loop[s].at /\ g[s].override = loop[s].override
  <1> DEFINE g == Counted(s, polls, n)
  <1> DEFINE l == [loop[s] EXCEPT !.polls = polls, !.denied = 0, !.seen = n]
  <1>1. loop \in [Sessions -> Loops] /\ loop[s] \in Loops /\ 0 \in 0 .. Denials
    BY DEF TypeOK, Denials
  <1>2. l \in Loops
    BY <1>1 DEF Loops
  <1>3. /\ l.ev = loop[s].ev /\ l.of = loop[s].of /\ l.salvage = loop[s].salvage
        /\ l.cycles = loop[s].cycles /\ l.repairs = loop[s].repairs
        /\ l.checks = loop[s].checks /\ l.seen = n /\ l.at = loop[s].at /\ l.override = loop[s].override
    BY <1>1 DEF Loops
  <1>4. g = [loop EXCEPT ![s] = l]
    BY DEF Counted
  <1> HIDE DEF l
  <1> QED
    BY <1>1, <1>2, <1>3, <1>4 DEF Polls

LEMMA PollConcludes ==
  ASSUME NEW s \in Sessions, NEW n \in 0 .. 2, NEW g, Polls(g, s, n)
  PROVE  LET d == Ended(g, s) IN
         Polls(d, s, n) /\ d[s].at = "decide" /\ d[s].override = g[s].override
  <1> DEFINE d == Ended(g, s)
  <1> DEFINE l == [g[s] EXCEPT !.at = "decide", !.polls = 0]
  <1>1. g \in [Sessions -> Loops] /\ g[s] \in Loops /\ 0 \in 0 .. MaxPolls
    BY Limits DEF Polls
  <1>2. l \in Loops
    BY <1>1 DEF Loops, Running
  <1>3. /\ l.ev = g[s].ev /\ l.of = g[s].of /\ l.salvage = g[s].salvage
        /\ l.cycles = g[s].cycles /\ l.repairs = g[s].repairs
        /\ l.checks = g[s].checks /\ l.seen = g[s].seen /\ l.at = "decide" /\ l.override = g[s].override
    BY <1>1 DEF Loops
  <1>4. d = [g EXCEPT ![s] = l]
    BY DEF Ended
  <1> HIDE DEF l
  <1> QED
    BY <1>1, <1>2, <1>3, <1>4 DEF Polls

LEMMA PollObjects ==
  ASSUME NEW s \in Sessions, NEW n \in 0 .. 2, NEW g, Polls(g, s, n),
         NEW o \in {"none", "timeout", "missing", "red", "indeterminate"}
  PROVE  LET d == Objected(g, s, o) IN
         Polls(d, s, n) /\ d[s].at = g[s].at /\ d[s].override = o
  <1> DEFINE l == [g[s] EXCEPT !.override = o]
  <1>1. g \in [Sessions -> Loops] /\ g[s] \in Loops
    BY DEF Polls
  <1>2. l \in Loops
    BY <1>1 DEF Loops
  <1>3. /\ l.ev = g[s].ev /\ l.of = g[s].of /\ l.salvage = g[s].salvage
        /\ l.cycles = g[s].cycles /\ l.repairs = g[s].repairs /\ l.override = o
        /\ l.checks = g[s].checks /\ l.seen = g[s].seen /\ l.at = g[s].at
    BY <1>1 DEF Loops
  <1>4. Objected(g, s, o) = [g EXCEPT ![s] = l]
    BY DEF Objected
  <1> HIDE DEF l
  <1> QED
    BY <1>1, <1>2, <1>3, <1>4 DEF Polls

LEMMA PollBehaves ==
  ASSUME NEW s \in Sessions, NEW n \in 0 .. 2, NEW g, Polls(g, s, n), NEW b \in BOOLEAN
  PROVE  LET d == Behaved(g, s, b) IN
         Polls(d, s, n) /\ d[s].at = g[s].at /\ d[s].override = g[s].override
  <1> DEFINE l == [g[s] EXCEPT !.behaved = b]
  <1>1. g \in [Sessions -> Loops] /\ g[s] \in Loops
    BY DEF Polls
  <1>2. l \in Loops
    BY <1>1 DEF Loops
  <1>3. /\ l.ev = g[s].ev /\ l.of = g[s].of /\ l.salvage = g[s].salvage
        /\ l.cycles = g[s].cycles /\ l.repairs = g[s].repairs /\ l.override = g[s].override
        /\ l.checks = g[s].checks /\ l.seen = g[s].seen /\ l.at = g[s].at
    BY <1>1 DEF Loops
  <1>4. Behaved(g, s, b) = [g EXCEPT ![s] = l]
    BY DEF Behaved
  <1> HIDE DEF l
  <1> QED
    BY <1>1, <1>2, <1>3, <1>4 DEF Polls

LEMMA PollFinds ==
  ASSUME NEW s \in Sessions, NEW n \in 0 .. 2, NEW g, Polls(g, s, n), NEW b \in BOOLEAN
  PROVE  LET d == Found(g, s, b) IN
         Polls(d, s, n) /\ d[s].at = g[s].at /\ d[s].override = g[s].override
  <1> DEFINE l == [g[s] EXCEPT !.findings = b]
  <1>1. g \in [Sessions -> Loops] /\ g[s] \in Loops
    BY DEF Polls
  <1>2. l \in Loops
    BY <1>1 DEF Loops
  <1>3. /\ l.ev = g[s].ev /\ l.of = g[s].of /\ l.salvage = g[s].salvage
        /\ l.cycles = g[s].cycles /\ l.repairs = g[s].repairs /\ l.override = g[s].override
        /\ l.checks = g[s].checks /\ l.seen = g[s].seen /\ l.at = g[s].at
    BY <1>1 DEF Loops
  <1>4. Found(g, s, b) = [g EXCEPT ![s] = l]
    BY DEF Found
  <1> HIDE DEF l
  <1> QED
    BY <1>1, <1>2, <1>3, <1>4 DEF Polls

\* A list of checks that is believed, and as long as any list seen, is the true one.
LEMMA FullListIsTrue ==
  ASSUME IInv, NEW s \in Sessions, NEW r \in Snapshots(loop[s].checks),
         StatusOf(s, r) \in {"none", "success"},
         (IF Registered(r) > loop[s].seen THEN Registered(r) ELSE loop[s].seen) = 2
  PROVE  loop[s].checks = "green"
  <1>1. r \in {"none", "lone", "green"} /\ ~(Registered(r) < loop[s].seen)
    <2>1. CASE r \in {"none", "lone", "green"}
      <3>1. CASE Regressed(s, r)
        BY <2>1, <3>1 DEF StatusOf
      <3> QED
        BY <2>1, <3>1 DEF Regressed
    <2>2. CASE r \in {"running", "red"}
      BY <2>2 DEF StatusOf
    <2> QED
      BY <2>1, <2>2, Polled
  <1>2. Registered(r) = 2
    BY <1>1, Polled
  <1> QED
    BY <1>1, <1>2, Polled

LEMMA PollCiKeeps ==
  ASSUME IInv, NEW s \in Sessions, PollCi(s), meddled' = meddled
  PROVE  IInv'
  <1>1. loop[s].at = "wait" /\ UNCHANGED <<born, meddled, remote, tree, row>>
    BY DEF PollCi
  <1>2. PICK r \in Snapshots(loop[s].checks) :
          LET polls == Tick(loop[s].polls)
              status == StatusOf(s, r)
              seen == [loop EXCEPT ![s].polls = polls, ![s].denied = 0,
                         ![s].seen = IF Registered(r) > @ THEN Registered(r) ELSE @]
              over == [seen EXCEPT ![s].at = "decide", ![s].polls = 0]
          IN  /\ \/ /\ \/ status = "pending" /\ polls < MaxPolls
                       \/ status = "none" /\ polls < Grace /\ polls < MaxPolls
                    /\ loop' = seen
                 \/ /\ status = "pending" /\ polls >= MaxPolls
                    /\ loop' = [over EXCEPT ![s].override = "timeout"]
                 \/ /\ status = "none" /\ (polls >= Grace \/ polls >= MaxPolls)
                    /\ loop' = over
                 \/ /\ status = "success"
                    /\ \/ loop' = [over EXCEPT ![s].behaved = TRUE]
                       \/ /\ Required
                          /\ loop' = [over EXCEPT ![s].override = "missing",
                                                  ![s].behaved = FALSE]
                 \/ /\ status = "red"
                    /\ \E logs \in BOOLEAN :
                          loop' = [over EXCEPT ![s].override = "red",
                                               ![s].findings = logs]
              /\ UNCHANGED <<born, tree, remote, row>>
    BY Zenon DEF PollCi
  <1> DEFINE n == IF Registered(r) > loop[s].seen THEN Registered(r) ELSE loop[s].seen
             polls == Tick(loop[s].polls)
             seen == [loop EXCEPT ![s].polls = polls, ![s].denied = 0,
                        ![s].seen = IF Registered(r) > @ THEN Registered(r) ELSE @]
             over == [seen EXCEPT ![s].at = "decide", ![s].polls = 0]
  <1>3. n \in 0 .. 2 /\ polls \in 0 .. MaxPolls /\ TypeOK
    BY Polled DEF IInv
  <1>4. seen = Counted(s, polls, n) /\ over = Ended(seen, s)
    <2>1. loop[s] \in Loops
      BY LoopFields DEF IInv
    <2> QED
      BY <2>1 DEF TypeOK, Loops, Counted, Ended
  <1>5. StatusOf(s, r) \in {"none", "success"} /\ n = 2 => loop[s].checks = "green"
    BY FullListIsTrue
  <1> HIDE DEF n, polls, seen, over
  <1>6. Polls(seen, s, n) /\ seen[s].at = "wait" /\ seen[s].override = loop[s].override
    BY <1>1, <1>3, <1>4, PollCounts
  <1>7. Polls(over, s, n) /\ over[s].at = "decide" /\ over[s].override = loop[s].override
    BY <1>3, <1>4, <1>6, PollConcludes
  <1>8. CASE loop' = seen
    BY <1>1, <1>3, <1>6, <1>8, PollKeeps
  <1>9. CASE loop' = Objected(over, s, "timeout")
    <2>1. Polls(loop', s, n) /\ loop'[s].at = "decide" /\ loop'[s].override = "timeout"
      BY <1>3, <1>7, <1>9, PollObjects
    <2> QED
      BY <1>1, <1>3, <2>1, PollKeeps
  <1>10. CASE StatusOf(s, r) = "none" /\ loop' = over
    BY <1>1, <1>3, <1>5, <1>7, <1>10, PollKeeps
  <1>11. CASE StatusOf(s, r) = "success" /\ loop' = Behaved(over, s, TRUE)
    <2>1. Polls(loop', s, n) /\ loop'[s].at = "decide" /\ loop'[s].override = loop[s].override
      BY <1>3, <1>7, <1>11, PollBehaves
    <2> QED
      BY <1>1, <1>3, <1>5, <1>11, <2>1, PollKeeps
  <1>12. CASE loop' = Behaved(Objected(over, s, "missing"), s, FALSE)
    <2> DEFINE mid == Objected(over, s, "missing")
    <2>1. Polls(mid, s, n) /\ mid[s].at = "decide" /\ mid[s].override = "missing"
      BY <1>3, <1>7, PollObjects
    <2> HIDE DEF mid
    <2>2. Polls(loop', s, n) /\ loop'[s].at = "decide" /\ loop'[s].override = "missing"
      BY <1>3, <1>12, <2>1, PollBehaves DEF mid
    <2> QED
      BY <1>1, <1>3, <2>2, PollKeeps
  <1>13. ASSUME NEW logs \in BOOLEAN, loop' = Found(Objected(over, s, "red"), s, logs)
         PROVE  IInv'
    <2> DEFINE mid == Objected(over, s, "red")
    <2>1. Polls(mid, s, n) /\ mid[s].at = "decide" /\ mid[s].override = "red"
      BY <1>3, <1>7, PollObjects
    <2> HIDE DEF mid
    <2>2. Polls(loop', s, n) /\ loop'[s].at = "decide" /\ loop'[s].override = "red"
      BY SMTT(30), <1>3, <1>13, <2>1, PollFinds DEF mid
    <2> QED
      BY <1>1, <1>3, <2>2, PollKeeps
  <1>14. \/ loop' = seen \/ loop' = Objected(over, s, "timeout")
         \/ StatusOf(s, r) = "none" /\ loop' = over
         \/ StatusOf(s, r) = "success" /\ loop' = Behaved(over, s, TRUE)
         \/ loop' = Behaved(Objected(over, s, "missing"), s, FALSE)
         \/ \E logs \in BOOLEAN : loop' = Found(Objected(over, s, "red"), s, logs)
    BY <1>2 DEF seen, over, polls, Objected, Behaved, Found
  <1> QED
    BY <1>8, <1>9, <1>10, <1>11, <1>12, <1>13, <1>14

LEMMA PollUnreadableKeeps ==
  ASSUME IInv, NEW s \in Sessions, PollUnreadable(s), meddled' = meddled
  PROVE  IInv'
  <1>1. loop[s].at = "wait" /\ UNCHANGED <<born, meddled, remote, tree, row>>
    BY DEF PollUnreadable
  <1>2. /\ loop[s] \in Loops /\ loop \in [Sessions -> Loops]
        /\ loop[s].polls \in 0 .. MaxPolls /\ loop[s].denied \in 0 .. Denials
        /\ loop[s].override \in {"none", "timeout", "missing", "red", "indeterminate"}
    BY LoopFields DEF IInv, TypeOK
  <1>3. PICK how \in {"unknown", "denied", "threw"} :
          LET denials == CASE how = "denied" -> loop[s].denied + 1
                           [] how = "unknown" -> 0
                           [] OTHER -> loop[s].denied
              over == OutOfPolls(s) \/ (how = "denied" /\ denials >= Denials)
          IN  loop' = [loop EXCEPT ![s].polls = IF over THEN 0 ELSE Tick(@),
                         ![s].denied = IF over THEN 0 ELSE denials,
                         ![s].override = CASE ~over -> @ [] over /\ how = "threw" -> "timeout"
                                           [] OTHER -> "indeterminate",
                         ![s].at = IF over THEN "decide" ELSE @]
    BY Zenon DEF PollUnreadable
  <1> DEFINE denials == CASE how = "denied" -> loop[s].denied + 1
                          [] how = "unknown" -> 0
                          [] OTHER -> loop[s].denied
             spent == OutOfPolls(s) \/ (how = "denied" /\ denials >= Denials)
  <1>4. PICK over \in BOOLEAN : over = spent
    OBVIOUS
  <1> DEFINE polls == IF over THEN 0 ELSE Tick(loop[s].polls)
             denied == IF over THEN 0 ELSE denials
             override == CASE ~over -> loop[s].override [] over /\ how = "threw" -> "timeout"
                           [] OTHER -> "indeterminate"
             at == IF over THEN "decide" ELSE loop[s].at
             l == [loop[s] EXCEPT !.polls = polls, !.denied = denied, !.override = override, !.at = at]
  <1>5. loop' = [loop EXCEPT ![s] = l]
    BY <1>3, <1>4
  <1>6. denied \in 0 .. Denials
    <2>1. denials \in Nat /\ (how # "denied" => denials \in 0 .. Denials)
      BY <1>2 DEF Denials
    <2>2. ~over /\ how = "denied" => ~(denials >= Denials)
      BY <1>4
    <2> HIDE DEF denials
    <2> QED
      BY <2>1, <2>2 DEF Denials
  <1>7. polls \in 0 .. MaxPolls
    BY <1>2, Limits DEF Tick
  <1>8. /\ override \in {"none", "timeout", "missing", "red", "indeterminate"}
        /\ over => override # "none" /\ at = "decide"
        /\ ~over => override = loop[s].override /\ at = "wait"
    BY <1>1, <1>2
  <1> HIDE DEF denials, spent, polls, denied, override, at
  <1>9. l \in Loops
    <2>1. at \in Running \cup {"idle", "done", "failed"}
      BY <1>8 DEF Running
    <2>2. loop[s] \in Loops
      BY <1>2
    <2>3. override \in {"none", "timeout", "missing", "red", "indeterminate"}
      BY <1>8
    <2> QED
      BY <1>6, <1>7, <2>1, <2>2, <2>3 DEF Loops
  <1>10. /\ l.ev = loop[s].ev /\ l.of = loop[s].of /\ l.salvage = loop[s].salvage
        /\ l.cycles = loop[s].cycles /\ l.repairs = loop[s].repairs
        /\ l.at = at /\ l.override = override
    BY <1>2 DEF Loops
  <1> HIDE DEF l
  <1> QED
    BY <1>1, <1>5, <1>8, <1>9, <1>10, WaitKeeps

LEMMA ChecksAdvanceKeeps ==
  ASSUME IInv, NEW s \in Sessions, ChecksAdvance(s)
  PROVE  IInv'
  <1>0. PICK i \in 1 .. 4 : \E j \in {i + 1, IF i = 3 THEN 5 ELSE i + 1} :
          loop' = [loop EXCEPT ![s].checks = Stages[j]]
    BY DEF ChecksAdvance
  <1>1. PICK j \in {i + 1, IF i = 3 THEN 5 ELSE i + 1} : loop' = [loop EXCEPT ![s].checks = Stages[j]]
    BY <1>0
  <1>2. j \in 1 .. 5
    OBVIOUS
  <1>3. PICK c \in {"none", "lone", "running", "red", "green"} : c = Stages[j]
    BY <1>2 DEF Stages
  <1> DEFINE l == [loop[s] EXCEPT !.checks = c]
  <1>4. loop' = [loop EXCEPT ![s] = l]
    BY <1>1, <1>3
  <1>5. loop[s] \in Loops /\ loop[s].at = "wait" /\ UNCHANGED <<born, meddled, remote, tree, row>>
    BY LoopFields DEF IInv, ChecksAdvance
  <1>6. /\ l \in Loops /\ l.at = "wait" /\ l.ev = loop[s].ev /\ l.of = loop[s].of /\ l.salvage = loop[s].salvage
        /\ l.cycles = loop[s].cycles /\ l.repairs = loop[s].repairs /\ l.override = loop[s].override
    BY <1>5 DEF Loops
  <1> HIDE DEF l
  <1> QED
    BY <1>4, <1>5, <1>6, WaitKeeps

LEMMA RepairKeeps ==
  ASSUME IInv, NEW s \in Sessions, Repair(s), meddled' = meddled
  PROVE  IInv'
  <1> DEFINE l == [loop[s] EXCEPT !.at = "work", !.verdict = "revise", !.repairs = @ + 1, !.findings = FALSE]
  <1>1. /\ loop[s] \in Loops /\ loop[s].at = "decide" /\ loop[s].cycles <= MaxCycles + loop[s].repairs
        /\ loop[s].repairs < MaxRepairs /\ loop[s].repairs \in 0 .. MaxRepairs
        /\ loop[s].cycles \in 0 .. MaxCycles + MaxRepairs
        /\ loop' = [loop EXCEPT ![s] = l] /\ UNCHANGED <<born, meddled, remote, tree, row>>
    BY LoopFields DEF IInv, TypeOK, Repair, FundsRepair
  <1>2. loop[s].repairs + 1 \in 0 .. MaxRepairs /\ loop[s].cycles <= MaxCycles + (loop[s].repairs + 1)
    BY <1>1, Limits
  <1>3. /\ l \in Loops /\ l.at = "work" /\ l.ev = loop[s].ev /\ l.of = loop[s].of
        /\ l.cycles <= MaxCycles + l.repairs
    BY <1>1, <1>2 DEF Loops, Running, Verdicts
  <1> HIDE DEF l
  <1>4. SessionInv(l, tree[s], row[s], remote.seen)
    BY <1>1, <1>3 DEF IInv, SessionInv, CandidateInv, EvidenceInv, ReviewInv, CiInv, RowInv, HeadInv,
                      Candidates, Shipping, Authored
  <1> QED
    BY <1>1, <1>3, <1>4, RunMoved

\* What is shipped is the head, which the branch has had and the evidence names.
LEMMA ShipKeeps ==
  ASSUME IInv, NEW s \in Sessions, Ship(s), meddled' = meddled
  PROVE  IInv'
  <1>1. loop[s].at = "decide" /\ loop[s].at \in Running
    BY DEF Ship, Running
  <1>2. CASE FailKept(s, FALSE)
    BY <1>1, <1>2, FailKeptKeeps
  <1>3. CASE ~FailKept(s, FALSE)
    <2> DEFINE l == [NoRun EXCEPT !.at = "done"]
               r == [row[s] EXCEPT !.status = "done", !.rec = Recommendation(s), !.published = loop[s].ev]
    <2>1. /\ row' = [row EXCEPT ![s] = r] /\ loop' = [loop EXCEPT ![s] = l] /\ UNCHANGED <<born, remote>>
      BY <1>3 DEF Ship
    <2>2. PICK gone \in BOOLEAN : tree' = [tree EXCEPT ![s].kept = ~gone]
      BY <1>3 DEF Ship
    <2> DEFINE t == [tree[s] EXCEPT !.kept = ~gone]
    <2>3. tree' = [tree EXCEPT ![s] = t]
      BY <2>2
    <2>4. /\ tree[s] \in Trees /\ row[s] \in Rows /\ loop[s].ev \in Numbers
          /\ tree[s].head \in tree[s].hist \cup {None} /\ tree[s].hist \subseteq 1 .. born
      BY LoopFields, TreeFields DEF IInv
    <2>5. t \in Trees /\ t.head = tree[s].head /\ t.hist = tree[s].hist
      BY <2>4 DEF Trees
    <2>6. l \in Loops /\ l.at = "done" /\ l.ev = None /\ l.of = None /\ l.cycles <= MaxCycles + l.repairs
      <3>1. 0 \in Numbers /\ 0 \in 0 .. MaxPolls /\ 0 \in 0 .. 2 /\ 0 \in 0 .. Denials
            /\ 0 \in 0 .. MaxCycles + MaxRepairs /\ 0 \in 0 .. MaxRepairs
        BY Limits DEF Numbers, Denials
      <3>2. l \in Loops
        BY <3>1 DEF NoRun, Loops, None
      <3>3. l.at = "done" /\ l.ev = None /\ l.of = None /\ l.cycles = 0 /\ l.repairs = 0
        BY DEF NoRun
      <3> QED
        BY <3>2, <3>3, Limits
    <2>7. r \in Rows /\ r.status = "done" /\ r.published = loop[s].ev
      <3>1. Recommendation(s) \in {"merge", "do_not_merge", "needs_human_review"}
        BY DEF Recommendation
      <3> QED
        BY <2>4, <3>1 DEF Rows
    <2>8. Moves(s, l, t, r) /\ World /\ born' = born
      BY <2>1, <2>3, WorldStays DEF Moves
    <2> HIDE DEF l, r, t
    <2>9. SessionInv(l, t, r, remote'.seen)
      BY <1>1, <2>1, <2>5, <2>6, <2>7
         DEF IInv, SessionInv, CandidateInv, EvidenceInv, ReviewInv, CiInv, RowInv, HeadInv,
             Candidates, Shipping, Authored
    <2> QED
      BY <2>4, <2>5, <2>6, <2>7, <2>8, <2>9, Moved
  <1> QED
    BY <1>2, <1>3

-----------------------------------------------------------------------------
(* Everybody else                                                          *)

\* Nobody else touches a run, its worktree or its row.
LEMMA OthersKeep ==
  ASSUME IInv, World, UNCHANGED <<tree, loop, row>>
  PROVE  IInv'
  <1>1. ASSUME NEW s \in Sessions PROVE IInv'
    <2>1. Moves(s, loop[s], tree[s], row[s])
      BY Unmoved DEF IInv, Moves
    <2>2. \A n \in 1 .. born : n \in 1 .. born'
      BY RemoteFields, Limits DEF World, Numbers, IInv
    <2>3. SessionInv(loop[s], tree[s], row[s], remote'.seen)
      BY SeenGrows DEF IInv, World
    <2>4. /\ loop[s] \in Loops /\ tree[s] \in Trees /\ row[s] \in Rows
          /\ tree[s].head \in tree[s].hist \cup {None} /\ tree[s].hist \subseteq 1 .. born'
          /\ loop[s].cycles <= MaxCycles + loop[s].repairs
      BY <2>2, LoopFields, TreeFields DEF IInv, TypeOK
    <2> QED
      BY <2>1, <2>3, <2>4, Moved
  <1>2. 1 \in Sessions
    BY Limits, PublicationAssumption DEF Sessions
  <1> QED
    BY <1>1, <1>2

LEMMA MeddlingKeeps ==
  ASSUME IInv, ForeignPush \/ BranchDeleted
  PROVE  IInv'
  <1>1. /\ meddled \in 0 .. MaxForeign /\ meddled < MaxForeign /\ meddled' = meddled + 1
        /\ UNCHANGED <<tree, loop, row>>
    BY DEF IInv, TypeOK, ForeignPush, BranchDeleted
  <1>2. meddled' \in 0 .. MaxForeign
    BY <1>1, Limits
  <1>3. CASE ForeignPush
    <2>1. /\ born \in Nat /\ born < MaxCommits /\ born' = born + 1
          /\ remote' = [tip |-> born + 1, hist |-> remote.hist \cup {born + 1},
                        seen |-> remote.seen \cup {born + 1}]
      BY <1>3, RemoteFields DEF ForeignPush, IInv
    <2>2. born + 1 \in Numbers /\ born + 1 \in Commits /\ born + 1 \in 1 .. (born + 1) /\ born <= born'
          /\ \A n \in 1 .. born : n \in 1 .. (born + 1)
      BY <2>1, Limits DEF Numbers, Commits
    <2>3. /\ remote.hist \in SUBSET Commits /\ remote.seen \in SUBSET Commits
          /\ remote.hist \subseteq 1 .. born /\ remote.seen \subseteq 1 .. born
      BY RemoteFields DEF IInv
    <2>4. /\ remote'.tip = born + 1 /\ remote'.hist = remote.hist \cup {born + 1}
          /\ remote'.seen = remote.seen \cup {born + 1}
      BY <2>1
    <2>5. remote' \in Remotes
      BY <2>1, <2>2, <2>3 DEF Remotes
    <2>6. remote'.hist \subseteq 1 .. born' /\ remote'.seen \subseteq 1 .. born'
      BY <2>1, <2>2, <2>3, <2>4
    <2>7. World
      BY <1>2, <2>1, <2>2, <2>4, <2>5, <2>6 DEF World
    <2> QED
      BY <1>1, <2>7, OthersKeep
  <1>4. CASE BranchDeleted
    <2>1. /\ born' = born /\ remote' = [remote EXCEPT !.tip = None, !.hist = {}]
          /\ remote \in Remotes /\ born \in Numbers /\ born \in Nat /\ remote.seen \subseteq 1 .. born
          /\ None \in Numbers
      BY <1>4, RemoteFields, Limits DEF BranchDeleted, IInv, None, Numbers
    <2>2. remote' \in Remotes /\ remote'.tip = None /\ remote'.hist = {} /\ remote'.seen = remote.seen
      BY <2>1 DEF Remotes
    <2>3. World
      BY <1>2, <2>1, <2>2 DEF World
    <2> QED
      BY <1>1, <2>3, OthersKeep
  <1> QED
    BY <1>3, <1>4

-----------------------------------------------------------------------------
(* The theorems                                                            *)

LEMMA ReviewsKeep ==
  ASSUME IInv, NEW s \in Sessions, Review(s) \/ RuntimeReview(s), meddled' = meddled
  PROVE  IInv'
  <1>1. loop[s].at \in {"review", "runtime"} /\ loop[s].at \in Running
    BY DEF Review, RuntimeReview, Running
  <1>2. CASE FailKept(s, FALSE)
    BY <1>1, <1>2, FailKeptKeeps
  <1>3. CASE \E v \in Verdicts, at \in {"work", "stage", "author"} :
               /\ loop' = [loop EXCEPT ![s].verdict = v, ![s].of = tree[s].head, ![s].at = at]
               /\ UNCHANGED <<born, tree, remote, row>>
    BY <1>1, <1>3, ReviewKeeps
  <1>4. CASE Review(s)
    <2>1. PICK v \in Verdicts, again \in BOOLEAN :
            loop' = [loop EXCEPT ![s].verdict = v, ![s].of = tree[s].head,
                                 ![s].at = CASE again -> "work"
                                             [] v = "pass" /\ PreviewOn -> "stage"
                                             [] OTHER -> "author"]
      BY <1>4 DEF Review
    <2>2. UNCHANGED <<born, tree, remote, row>>
      BY <1>4 DEF Review
    <2>3. (CASE again -> "work" [] v = "pass" /\ PreviewOn -> "stage" [] OTHER -> "author")
            \in {"work", "stage", "author"}
      OBVIOUS
    <2> QED
      BY <1>3, <2>1, <2>2, <2>3
  <1>5. CASE RuntimeReview(s) /\ ~FailKept(s, FALSE)
    <2>1. PICK v \in Verdicts, again \in BOOLEAN :
            /\ loop' = [loop EXCEPT ![s].verdict = v, ![s].of = tree[s].head,
                                    ![s].at = IF again THEN "work" ELSE "author"]
            /\ UNCHANGED <<born, tree, remote, row>>
      BY <1>5 DEF RuntimeReview
    <2> QED
      BY ZenonT(40), <1>3, <2>1
  <1> QED
    BY <1>2, <1>4, <1>5

LEMMA StepKeeps ==
  ASSUME IInv, NEW s \in Sessions, Step(s)
  PROVE  IInv'
  BY StartKeeps, BuildKeeps, ReviewsKeep, AuthorKeeps, PreviewKeeps, BreaksKeep, ResolveKeeps, RecheckKeeps,
     PushKeeps, OpenPullRequestKeeps, VerifyKeeps, PollCiKeeps, PollUnreadableKeeps, RepairKeeps, ShipKeeps
     DEF Step

LEMMA NextKeeps == IInv /\ [Next]_vars => IInv'
  <1> SUFFICES ASSUME IInv, [Next]_vars PROVE IInv'
    OBVIOUS
  <1>1. ASSUME NEW s \in Sessions, Step(s) \/ ChecksAdvance(s) PROVE IInv'
    BY <1>1, StepKeeps, ChecksAdvanceKeeps
  <1>2. CASE ForeignPush \/ BranchDeleted
    BY <1>2, MeddlingKeeps
  <1>3. CASE UNCHANGED vars
    BY <1>3 DEF vars, IInv, TypeOK, SessionInv, CandidateInv, EvidenceInv, ReviewInv, CiInv, RowInv, HeadInv
  <1> QED
    BY <1>1, <1>2, <1>3 DEF Next

(* The inductive invariant: in every state a candidate is the head of its   *)
(* worktree, evidence is a tip the branch has had, and what goes to be      *)
(* shipped is what the last review read or the workflow on top of it.       *)
THEOREM InvHolds == Spec => []IInv
  <1>1. Init => IInv
    BY InitInv
  <1>2. IInv /\ [Next]_vars => IInv'
    BY NextKeeps
  <1> QED
    BY <1>1, <1>2, PTL DEF Spec

(* The tables, the runs' variables and the branch keep their types, and no  *)
(* run takes more cycles than its ceiling and its repairs allow.            *)
THEOREM TypeHolds == Spec => []TypeOK
  <1>1. IInv => TypeOK
    BY DEF IInv
  <1> QED
    BY <1>1, InvHolds, PTL

(* tryReleaseWorktree after publishCandidate: a worktree is released only   *)
(* for commits the remote branch has held, at the sha the row names.        *)
THEOREM ReleasedHolds == Spec => []ReleasedWasPublished
  <1>1. IInv => ReleasedWasPublished
    BY DEF IInv, SessionInv, RowInv, ReleasedWasPublished
  <1> QED
    BY <1>1, InvHolds, PTL

\* Only Ship writes a recommendation.
Recommends(s) ==
    /\ row'[s].rec = "merge" /\ row[s].rec # "merge"

LEMMA OnlyShipRecommends ==
  ASSUME IInv, [Next]_vars, NEW s \in Sessions, Recommends(s)
  PROVE  Ship(s) /\ row'[s].rec = Recommendation(s) /\ row'[s].published = loop[s].ev
  <1>1. row \in [Sessions -> Rows] /\ row[s] \in Rows
    BY DEF IInv, TypeOK
  <1>2. PICK q \in Sessions : Step(q)
    BY DEF Next, vars, Recommends, ChecksAdvance, ForeignPush, BranchDeleted
  <1>3. ~FailKept(q, TRUE) /\ ~FailKept(q, FALSE)
    <2>1. ASSUME NEW pr \in BOOLEAN, FailKept(q, pr) PROVE FALSE
      <3>1. row' = [row EXCEPT ![q].status = "failed", ![q].pr = @ \/ pr]
        BY <2>1 DEF FailKept
      <3>2. row'[s].rec = row[s].rec
        BY <1>1, <3>1 DEF Rows
      <3> QED
        BY <3>2 DEF Recommends
    <2> QED
      BY <2>1
  <1>4. row' # row
    BY DEF Recommends
  <1>5. ASSUME NEW ev PROVE ~Published(q, ev)
    <2> SUFFICES ASSUME Published(q, ev) PROVE FALSE
      OBVIOUS
    <2>1. row' = [row EXCEPT ![q].pr = TRUE]
      BY DEF Published
    <2>2. row'[s].rec = row[s].rec
      BY <1>1, <2>1 DEF Rows
    <2> QED
      BY <2>2 DEF Recommends
  <1>6. ~Push(q)
    <2> SUFFICES ASSUME Push(q) PROVE FALSE
      OBVIOUS
    <2>1. row' = [row EXCEPT ![q].status = "failed"]
      BY <1>3, <1>4 DEF Push
    <2>2. row'[s].rec = row[s].rec
      BY <1>1, <2>1 DEF Rows
    <2> QED
      BY <2>2 DEF Recommends
  <1>7. Ship(q)
    BY <1>2, <1>3, <1>4, <1>5, <1>6
       DEF Step, Start, Build, Review, Author, Preview, RuntimeReview, Salvage, Stalled, Salvaged, Resolve, Recheck,
           OpenPullRequest, Verify, PollCi, PollUnreadable, Repair
  <1>8. row' = [row EXCEPT ![q].status = "done", ![q].rec = Recommendation(q), ![q].published = loop[q].ev]
    BY <1>3, <1>7 DEF Ship
  <1>9. q = s
    <2>1. q # s => row'[s] = row[s]
      BY <1>1, <1>8
    <2> QED
      BY <2>1 DEF Recommends
  <1> QED
    BY <1>1, <1>7, <1>8, <1>9 DEF Rows

(* deriveMergeRecommendation and the override CI puts on it: "merge" is     *)
(* recommended for a commit the last review read, or the harness's workflow *)
(* on top of it, never over checks that were seen and did not all pass.     *)
THEOREM ReadyHolds == Spec => ReadyIsSound
  <1>1. ASSUME IInv, [Next]_vars, NEW s \in Sessions, Recommends(s)
        PROVE  /\ loop[s].verdict \in {"pass", "nits"}
               /\ row'[s].published \in {loop[s].of, tree[s].workflow}
               /\ loop[s].seen = 2 => loop[s].checks = "green"
    <2>1. loop[s].at = "decide" /\ row'[s].published = loop[s].ev /\ Recommendation(s) = "merge"
      BY <1>1, OnlyShipRecommends DEF Ship, Recommends
    <2>2. ~loop[s].salvage /\ loop[s].override = "none" /\ loop[s].verdict \in {"pass", "nits"}
      BY <2>1 DEF Recommendation
    <2>3. SessionInv(loop[s], tree[s], row[s], remote.seen)
      BY <1>1 DEF IInv
    <2> QED
      BY SMTT(30), <2>1, <2>2, <2>3 DEF SessionInv, EvidenceInv, ReviewInv, CiInv, Authored
  <1>2. IInv /\ [Next]_vars =>
          [\A s \in Sessions : row'[s].rec = "merge" /\ row[s].rec # "merge" =>
            /\ loop[s].verdict \in {"pass", "nits"}
            /\ row'[s].published \in {loop[s].of, tree[s].workflow}
            /\ loop[s].seen = 2 => loop[s].checks = "green"]_vars
    BY <1>1 DEF Recommends
  <1> QED
    BY <1>2, InvHolds, PTL DEF Spec, ReadyIsSound

-----------------------------------------------------------------------------
(* Merging.                                                                 *)

(* A row, as the sessions, the watcher and the tools write it.              *)
RowType == [status : {"running", "reviewed", "pushed", "opened", "noted", "done", "failed"},
            url : 0 .. MaxPulls, pr : 0 .. MaxPulls, rec : Recs \cup {"none"},
            review : Reviews, link : {"null", "recovered"}, marked : BOOLEAN, closed : BOOLEAN]

OwnedInv == owned \in [Owner -> RowType]

(* A link in progress is between a session and a pull request.              *)
LinkInv == link.at \in {"fetch", "apply"} => link.s \in Owner /\ link.p \in Pulls

Repairing == {"deployed", "repair", "attempt", "reverify"}
CallType ==
    [at : {"idle"}]
        \cup [at : {"read"}, s : Owner, p : Pulls, defer : BOOLEAN]
        \cup [at : {"merge"}, s : Owner, p : Pulls]
        \cup [at : Repairing, shas : SUBSET Nat, attempt : Nat, spent : Nat]
        \cup [at : {"revert"}, shas : SUBSET Nat, outcome : {"reverted", "budget_paused"}]
        \cup [at : {"over"}, outcome : {"lost", "merged", "repaired", "unverified", "reverted",
                                        "budget_paused", "revert_failed"}]

(* What a call left on the default branch is known to it, or its answer was *)
(* lost.                                                                    *)
CallInv ==
    /\ call \in CallType
    /\ call.at \in Repairing \cup {"revert"} => main \subseteq call.shas \cup orphans
    /\ MainRestored

PullInv == OwnedInv /\ LinkInv /\ CallInv

LEMMA Bounds ==
  /\ {Owners, MaxPulls, MaxAttempts, RepairBudget} \subseteq Nat \ {0}
  /\ 0 \in 0 .. MaxPulls /\ \A p \in Pulls : p \in 0 .. MaxPulls /\ p # 0
  BY MergingAssumption DEF Pulls

LEMMA InitPull == MergingInit => PullInv
  <1> SUFFICES ASSUME MergingInit PROVE PullInv
    OBVIOUS
  <1> USE MergingAssumption DEF MergingInit, Pulls, Nothing, Idle
  <1>1. OwnedInv
    BY DEF OwnedInv, RowType, Recs, Reviews
  <1>2. LinkInv /\ CallInv
    BY DEF LinkInv, CallInv, CallType, MainRestored, Repairing
  <1> QED
    BY <1>1, <1>2 DEF PullInv

\* What a call is, by where it stands.
LEMMA MergeShape ==
  ASSUME CallInv
  PROVE  /\ call.at \in {"read", "merge"} => call.s \in Owner /\ call.p \in Pulls
         /\ call.at \in Repairing => call \in [at : Repairing, shas : SUBSET Nat, attempt : Nat, spent : Nat]
         /\ call.at = "revert" => call.shas \in SUBSET Nat /\ call.outcome \in {"reverted", "budget_paused"}
  BY DEF CallInv, CallType, Repairing

\* A row that has its pull request from its own loop keeps it.
KeepsPr == \A s \in Owner : owned[s].pr # Nothing /\ owned[s].status = "done" =>
                                owned'[s].pr = owned[s].pr

\* A step that rewrites one row, and not the pull request of a done one.
LEMMA OneRow ==
  ASSUME OwnedInv, NEW s \in Owner, NEW r \in RowType, owned' = [owned EXCEPT ![s] = r],
         owned[s].status = "done" /\ owned[s].pr # Nothing => r.pr = owned[s].pr
  PROVE  OwnedInv' /\ KeepsPr
  <1>1. \A x \in Owner : owned'[x] = IF x = s THEN r ELSE owned[x]
    BY DEF OwnedInv
  <1> QED
    BY <1>1 DEF OwnedInv, KeepsPr

\* A call that makes no step stands where it stood.
LEMMA CallStays ==
  ASSUME CallInv, UNCHANGED <<call, main, orphans>>
  PROVE  CallInv'
  BY DEF CallInv, MainRestored

\* The review and the ship phase of a session.
LEMMA ShippingKeeps ==
  ASSUME OwnedInv, NEW s \in Owner,
         ReviewLands(s) \/ ShipPushes(s) \/ ShipOpens(s) \/ ShipNotes(s) \/ ShipRecords(s) \/ ShipFails(s)
  PROVE  OwnedInv' /\ KeepsPr
  <1> DEFINE o == owned[s]
  <1>1. o \in RowType /\ owned \in [Owner -> RowType]
    BY DEF OwnedInv
  <1>2. o.status # "done"
    BY DEF ReviewLands, ShipPushes, ShipOpens, ShipNotes, ShipRecords, ShipFails
  <1>3. ASSUME NEW r \in RowType, owned' = [owned EXCEPT ![s] = r] PROVE OwnedInv' /\ KeepsPr
    BY <1>2, <1>3, OneRow
  <1>4. CASE ReviewLands(s)
    <2>1. PICK review \in Reviews :
            owned' = [owned EXCEPT ![s].status = "reviewed", ![s].review = review, ![s].url = Nothing]
      BY <1>4 DEF ReviewLands
    <2> DEFINE r == [o EXCEPT !.status = "reviewed", !.review = review, !.url = Nothing]
    <2>2. r \in RowType
      BY <1>1, Bounds DEF RowType, Nothing
    <2>3. owned' = [owned EXCEPT ![s] = r]
      BY <1>1, <2>1 DEF RowType
    <2> QED
      BY <1>3, <2>2, <2>3
  <1>5. CASE ShipPushes(s)
    <2> DEFINE r == [o EXCEPT !.status = "pushed"]
    <2>1. owned' = [owned EXCEPT ![s] = r] /\ r \in RowType
      BY <1>1, <1>5 DEF ShipPushes, RowType
    <2> QED
      BY <1>3, <2>1
  <1>6. CASE ShipOpens(s)
    <2>1. PICK p \in Pulls : owned' = [owned EXCEPT ![s].status = "opened", ![s].url = p]
      BY <1>6 DEF ShipOpens
    <2> DEFINE r == [o EXCEPT !.status = "opened", !.url = p]
    <2>2. r \in RowType
      BY <1>1, Bounds DEF RowType
    <2>3. owned' = [owned EXCEPT ![s] = r]
      BY <1>1, <2>1 DEF RowType
    <2> QED
      BY <1>3, <2>2, <2>3
  <1>7. CASE ShipNotes(s)
    <2> DEFINE r == [o EXCEPT !.status = "noted", !.pr = o.url]
    <2>1. r \in RowType
      BY <1>1 DEF RowType
    <2>2. owned' = [owned EXCEPT ![s] = r]
      BY <1>1, <1>7 DEF ShipNotes, RowType
    <2> QED
      BY <1>3, <2>1, <2>2
  <1>8. CASE ShipRecords(s)
    <2>1. PICK rec \in Recs :
            owned' = [owned EXCEPT ![s].status = "done", ![s].pr = owned[s].url, ![s].url = Nothing,
                                   ![s].rec = rec,
                                   ![s].review = IF rec = "do_not_merge" THEN @ ELSE "blocking"]
      BY <1>8 DEF ShipRecords
    <2>2. PICK review \in Reviews : review = IF rec = "do_not_merge" THEN o.review ELSE "blocking"
      BY <1>1 DEF RowType, Reviews
    <2> DEFINE r == [o EXCEPT !.status = "done", !.pr = o.url, !.url = Nothing, !.rec = rec,
                              !.review = review]
    <2>3. r \in RowType
      BY <1>1, Bounds DEF RowType, Nothing
    <2>4. owned' = [owned EXCEPT ![s] = r]
      BY <1>1, <2>1, <2>2 DEF RowType
    <2> QED
      BY <1>3, <2>3, <2>4
  <1>9. CASE ShipFails(s)
    <2>1. PICK pr \in {o.pr} \cup ({o.url} \ {Nothing}) :
            owned' = [owned EXCEPT ![s].status = "failed", ![s].url = Nothing, ![s].pr = pr]
      BY <1>9 DEF ShipFails
    <2> DEFINE r == [o EXCEPT !.status = "failed", !.url = Nothing, !.pr = pr]
    <2>2. r \in RowType
      BY <1>1, <2>1, Bounds DEF RowType, Nothing
    <2>3. owned' = [owned EXCEPT ![s] = r]
      BY <1>1, <2>1 DEF RowType
    <2> QED
      BY <1>3, <2>2, <2>3
  <1> QED
    BY <1>4, <1>5, <1>6, <1>7, <1>8, <1>9

\* The watcher and the merge call write the marks of a row and nothing else.
LEMMA MarkKeeps ==
  ASSUME OwnedInv, NEW s \in Owner, NEW c \in BOOLEAN, NEW m \in BOOLEAN,
         owned' = [owned EXCEPT ![s] = [owned[s] EXCEPT !.closed = c, !.marked = m]]
  PROVE  OwnedInv' /\ KeepsPr
  <1> DEFINE r == [owned[s] EXCEPT !.closed = c, !.marked = m]
  <1>1. owned' = [owned EXCEPT ![s] = r] /\ r \in RowType /\ r.pr = owned[s].pr
    BY DEF OwnedInv, RowType
  <1> QED
    BY <1>1, OneRow

\* The sessions' own steps, the watcher's and other people's.
LEMMA SessionsKeep ==
  ASSUME PullInv, NEW s \in Owner,
         \/ ReviewLands(s) \/ ShipPushes(s) \/ ShipOpens(s) \/ ShipNotes(s) \/ ShipRecords(s)
         \/ ShipFails(s) \/ PollOnce(s) \/ Others
  PROVE  PullInv' /\ KeepsPr
  <1>1. UNCHANGED <<link, call, main, orphans>>
    BY DEF ReviewLands, ShipPushes, ShipOpens, ShipNotes, ShipRecords, ShipFails, PollOnce, Others
  <1>2. OwnedInv /\ LinkInv' /\ CallInv'
    BY <1>1, CallStays DEF PullInv, LinkInv
  <1>3. CASE PollOnce(s)
    <2>1. PICK m \in BOOLEAN : m = (pull[owned[s].pr] = "merged")
      OBVIOUS
    <2>2. owned' = [owned EXCEPT ![s] = [owned[s] EXCEPT !.closed = TRUE, !.marked = m]]
      BY <1>2, <1>3, <2>1 DEF PollOnce, OwnedInv, RowType
    <2>3. OwnedInv' /\ KeepsPr
      BY <1>2, <2>2, MarkKeeps
    <2> QED
      BY <1>2, <2>3 DEF PullInv
  <1>4. CASE Others
    BY <1>2, <1>4 DEF Others, PullInv, OwnedInv, KeepsPr
  <1> QED
    BY <1>2, <1>3, <1>4, ShippingKeeps DEF PullInv

\* Recovering a link.
LEMMA LinksKeep ==
  ASSUME PullInv, (\E s \in Owner, p \in Pulls : LinkBegins(s, p)) \/ LinkFetched \/ LinkApplied
  PROVE  PullInv' /\ KeepsPr
  <1>1. UNCHANGED <<call, main, orphans>>
    BY DEF LinkBegins, LinkFetched, LinkApplied
  <1>2. LinkInv' /\ OwnedInv /\ CallInv'
    BY <1>1, CallStays DEF PullInv, LinkInv, LinkBegins, LinkFetched, LinkApplied, Idle
  <1>3. CASE UNCHANGED owned
    BY <1>2, <1>3 DEF PullInv, OwnedInv, KeepsPr
  <1>4. CASE LinkApplied /\ StillUnlinked(link.s, link.p)
    <2>1. PICK s \in Owner, p \in Pulls : s = link.s /\ p = link.p
      BY <1>4 DEF PullInv, LinkInv, LinkApplied
    <2> DEFINE r == [owned[s] EXCEPT !.pr = p, !.link = "recovered"]
    <2>2. owned' = [owned EXCEPT ![s].pr = p, ![s].link = "recovered"] /\ owned[s].pr \in {Nothing, p}
      BY <1>4, <2>1 DEF LinkApplied, StillUnlinked
    <2>3. owned' = [owned EXCEPT ![s] = r] /\ r \in RowType /\ r.pr = p
      BY <1>2, <2>2, Bounds DEF OwnedInv, RowType
    <2> QED
      BY <1>2, <2>2, <2>3, OneRow DEF PullInv
  <1> QED
    BY <1>3, <1>4 DEF LinkBegins, LinkFetched, LinkApplied

\* A merge call up to its merge.
LEMMA MergesKeep ==
  ASSUME PullInv, (\E s \in Owner : MergeBegins(s)) \/ MergeReads \/ MergeLands
  PROVE  PullInv' /\ KeepsPr
  <1>1. OwnedInv /\ CallInv /\ LinkInv'
    BY DEF PullInv, LinkInv, MergeBegins, MergeReads, MergeLands
  <1>2. ASSUME UNCHANGED owned PROVE OwnedInv' /\ KeepsPr
    BY <1>1, <1>2 DEF OwnedInv, KeepsPr
  <1>3. ASSUME call' = Idle PROVE CallInv'
    BY <1>3 DEF CallInv, CallType, Idle, Repairing, MainRestored
  <1>4. CASE \E s \in Owner : MergeBegins(s)
    <2>1. PICK s \in Owner : MergeBegins(s)
      BY <1>4
    <2>2. UNCHANGED owned /\ owned[s].pr \in Pulls
      BY <1>1, <2>1, Bounds DEF MergeBegins, OwnedInv, RowType, Pulls, Nothing
    <2>3. call' = [at |-> "read", s |-> s, p |-> owned[s].pr, defer |-> DefersToCi(s)]
          /\ DefersToCi(s) \in BOOLEAN
      BY <2>1 DEF MergeBegins, DefersToCi, NoSignOff
    <2>4. CallInv'
      BY <2>2, <2>3 DEF CallInv, CallType, MainRestored, Repairing
    <2> QED
      BY <1>1, <1>2, <2>2, <2>4 DEF PullInv
  <1>5. ASSUME call.at \in {"read", "merge"}, owned' = Marked(call.s) PROVE OwnedInv' /\ KeepsPr
    <2>1. PICK s \in Owner : s = call.s
      BY <1>1, <1>5, MergeShape
    <2>2. PICK c \in BOOLEAN : c = owned[s].closed
      BY <1>1 DEF OwnedInv, RowType
    <2>3. owned' = [owned EXCEPT ![s] = [owned[s] EXCEPT !.closed = c, !.marked = TRUE]]
      BY <1>1, <1>5, <2>1, <2>2 DEF Marked, OwnedInv, RowType
    <2> QED
      BY <1>1, <2>3, MarkKeeps
  <1>6. CASE MergeReads
    <2>1. call.at = "read"
      BY <1>6 DEF MergeReads
    <2>2. CASE owned' = Marked(call.s) /\ call' = Idle
      BY <1>1, <1>3, <1>5, <2>1, <2>2 DEF PullInv
    <2>3. CASE UNCHANGED owned /\ call' = Idle
      BY <1>1, <1>2, <1>3, <2>3 DEF PullInv
    <2>4. CASE UNCHANGED owned /\ call' = [at |-> "merge", s |-> call.s, p |-> call.p]
      <3>1. CallInv'
        BY <1>1, <2>1, <2>4, MergeShape DEF CallInv, CallType, Repairing, MainRestored
      <3> QED
        BY <1>1, <1>2, <2>4, <3>1 DEF PullInv
    <2> QED
      BY <1>6, <2>2, <2>3, <2>4 DEF MergeReads
  <1>7. CASE MergeLands
    <2>1. call.at = "merge"
      BY <1>7 DEF MergeLands
    <2>2. CASE UNCHANGED owned /\ call' = Idle
      BY <1>1, <1>2, <1>3, <2>2 DEF PullInv
    <2>3. CASE owned' = Marked(call.s) /\ main' = {0}
               /\ call' = [at |-> "deployed", shas |-> {0}, attempt |-> 0, spent |-> 0]
      <3>1. CallInv'
        BY <2>3 DEF CallInv, CallType, Repairing, MainRestored
      <3> QED
        BY <1>1, <1>5, <2>1, <2>3, <3>1 DEF PullInv
    <2>4. CASE UNCHANGED owned /\ call' = [at |-> "over", outcome |-> "lost"]
      <3>1. CallInv'
        BY <2>4 DEF CallInv, CallType, Repairing, MainRestored
      <3> QED
        BY <1>1, <1>2, <2>4, <3>1 DEF PullInv
    <2> QED
      BY <1>7, <2>2, <2>3, <2>4 DEF MergeLands, Over
  <1> QED
    BY <1>4, <1>6, <1>7

\* The deployment, its repairs and the revert.
LEMMA RepairsKeep ==
  ASSUME PullInv, Deployed \/ RepairBegins \/ RepairRuns \/ Reverified \/ Reverts \/ Return \/ ToolsCrash
  PROVE  PullInv' /\ KeepsPr
  <1>1. UNCHANGED owned /\ (link' = link \/ link' = Idle)
    BY DEF Deployed, RepairBegins, RepairRuns, Reverified, Reverts, Return, ToolsCrash
  <1>2. OwnedInv' /\ LinkInv' /\ KeepsPr /\ CallInv
    BY <1>1 DEF PullInv, OwnedInv, LinkInv, KeepsPr, Idle
  <1> DEFINE Stays == main \subseteq call.shas \cup orphans
  <1>3. ASSUME call.at \in Repairing
        PROVE  /\ call \in [at : Repairing, shas : SUBSET Nat, attempt : Nat, spent : Nat]
               /\ Stays
    BY <1>2, <1>3, MergeShape DEF CallInv
  <1>4. ASSUME call.at \in Repairing, NEW o \in {"reverted", "budget_paused"}, Reverting(o),
               main' \subseteq call.shas \cup orphans'
        PROVE  CallInv'
    BY <1>3, <1>4 DEF Reverting, CallInv, CallType, Repairing, MainRestored
  <1>5. ASSUME NEW o \in {"lost", "merged", "repaired", "unverified", "revert_failed"}, Over(o)
        PROVE  CallInv'
    BY <1>5 DEF Over, CallInv, CallType, Repairing, MainRestored
  <1>6. ASSUME call' = Idle PROVE CallInv'
    BY <1>6 DEF CallInv, CallType, Idle, Repairing, MainRestored
  <1>7. ASSUME call.at \in Repairing,
               call' \in [at : Repairing, shas : SUBSET Nat, attempt : Nat, spent : Nat],
               main' \subseteq call'.shas \cup orphans'
        PROVE  CallInv'
    BY <1>7 DEF CallInv, CallType, Repairing, MainRestored
  <1>8. CASE Deployed
    <2>1. call.at \in Repairing /\ UNCHANGED <<main, orphans>>
      BY <1>8 DEF Deployed, Repairing
    <2>2. CASE Over("merged")
      BY <1>2, <1>5, <2>2 DEF PullInv
    <2>3. CASE call' = [call EXCEPT !.at = "repair"]
      BY <1>2, <1>3, <1>7, <2>1, <2>3 DEF PullInv, Repairing
    <2> QED
      BY <1>8, <2>2, <2>3 DEF Deployed
  <1>9. CASE RepairBegins
    <2>1. call.at \in Repairing /\ UNCHANGED <<main, orphans>>
      BY <1>9 DEF RepairBegins, Repairing
    <2>2. CASE Reverting("reverted") \/ Reverting("budget_paused")
      BY <1>2, <1>3, <1>4, <2>1, <2>2 DEF PullInv
    <2>3. CASE \E cost \in 0 .. 1 :
                 call' = [call EXCEPT !.at = "attempt", !.spent = @ + cost,
                                      !.attempt = IF @ < MaxAttempts THEN @ + 1 ELSE @]
      <3>1. PICK cost \in 0 .. 1 :
                 call' = [call EXCEPT !.at = "attempt", !.spent = @ + cost,
                                      !.attempt = IF @ < MaxAttempts THEN @ + 1 ELSE @]
        BY <2>3
      <3>2. call' \in [at : Repairing, shas : SUBSET Nat, attempt : Nat, spent : Nat]
            /\ call'.shas = call.shas
        <4>1. call.spent + cost \in Nat
          BY <1>3, <2>1
        <4>2. PICK n \in Nat : n = IF call.attempt < MaxAttempts THEN call.attempt + 1 ELSE call.attempt
          BY <1>3, <2>1
        <4>3. call' = [call EXCEPT !.at = "attempt", !.spent = call.spent + cost, !.attempt = n]
          BY <1>3, <2>1, <3>1, <4>2
        <4> QED
          BY <1>3, <2>1, <4>1, <4>3 DEF Repairing
      <3> QED
        BY <1>2, <1>3, <1>7, <2>1, <3>2 DEF PullInv
    <2> QED
      BY <1>9, <2>2, <2>3 DEF RepairBegins
  <1>10. CASE RepairRuns
    <2>1. call.at \in Repairing
      BY <1>10 DEF RepairRuns, Repairing
    <2>2. CASE Reverting("reverted") /\ UNCHANGED <<main, orphans>>
      BY <1>2, <1>3, <1>4, <2>1, <2>2 DEF PullInv
    <2>3. CASE Reverting("reverted") /\ \E sha : main' = main \cup {sha} /\ orphans' = orphans \cup {sha}
      <3>1. main' \subseteq call.shas \cup orphans'
        BY <1>3, <2>1, <2>3
      <3> QED
        BY <1>2, <1>4, <2>1, <2>3, <3>1 DEF PullInv
    <2>4. CASE /\ main' = main \cup {call.attempt} /\ UNCHANGED orphans
               /\ call' = [call EXCEPT !.at = "reverify", !.shas = Stacked(@, call.attempt)]
      <3>1. /\ call' \in [at : Repairing, shas : SUBSET Nat, attempt : Nat, spent : Nat]
            /\ call'.shas = call.shas \cup {call.attempt}
        BY <1>3, <2>1, <2>4 DEF Repairing, Stacked
      <3> QED
        BY <1>2, <1>3, <1>7, <2>1, <2>4, <3>1 DEF PullInv
    <2> QED
      BY <1>10, <2>2, <2>3, <2>4 DEF RepairRuns
  <1>11. CASE Reverified
    <2>1. call.at \in Repairing /\ UNCHANGED <<main, orphans>>
      BY <1>11 DEF Reverified, Repairing
    <2>2. CASE \E outcome \in {"repaired", "unverified"} : Over(outcome)
      BY <1>2, <1>5, <2>2 DEF PullInv
    <2>3. CASE call' = [call EXCEPT !.at = "repair"]
      BY <1>2, <1>3, <1>7, <2>1, <2>3 DEF PullInv, Repairing
    <2> QED
      BY <1>11, <2>2, <2>3 DEF Reverified
  <1>12. CASE Reverts
    <2>1. call.at = "revert" /\ UNCHANGED orphans
      BY <1>12 DEF Reverts
    <2>2. Stays /\ call.outcome \in {"reverted", "budget_paused"}
      BY <1>2, <2>1, MergeShape DEF CallInv
    <2>3. CASE Over("revert_failed")
      BY <1>2, <1>5, <2>3 DEF PullInv
    <2>4. CASE Over(call.outcome) /\ main' = main \ call.shas
      <3>1. main' \subseteq orphans'
        BY <2>1, <2>2, <2>4
      <3>2. CallInv'
        BY <2>2, <2>4, <3>1 DEF Over, CallInv, CallType, Repairing, MainRestored
      <3> QED
        BY <1>2, <3>2 DEF PullInv
    <2> QED
      BY <1>12, <2>3, <2>4 DEF Reverts
  <1>13. CASE Return \/ ToolsCrash
    BY <1>2, <1>6, <1>13 DEF Return, ToolsCrash, PullInv
  <1> QED
    BY <1>8, <1>9, <1>10, <1>11, <1>12, <1>13

\* Every step of the branch, its pull requests and the tools.
LEMMA PullNext == PullInv /\ [MergingNext]_mergingVars => PullInv' /\ KeepsPr
  <1> SUFFICES ASSUME PullInv, [MergingNext]_mergingVars PROVE PullInv' /\ KeepsPr
    OBVIOUS
  <1>1. 1 \in Owner
    BY Bounds DEF Owner
  <1>2. CASE UNCHANGED mergingVars
    BY <1>2 DEF mergingVars, PullInv, OwnedInv, LinkInv, CallInv, MainRestored, KeepsPr
  <1> QED
    BY <1>1, <1>2, SessionsKeep, LinksKeep, MergesKeep, RepairsKeep DEF MergingNext, CallStep

LEMMA PullHolds == MergingSpec => []PullInv
  <1>1. PullInv /\ [MergingNext]_mergingVars => PullInv'
    BY PullNext
  <1> QED
    BY InitPull, <1>1, PTL DEF MergingSpec

\* A call that says it reverted the default branch left no merge of its own on
\* it, but for one whose answer never came (finaliseRevert, runDeployRepair).
THEOREM RestoredHolds == MergingSpec => []MainRestored
  <1>1. PullInv => MainRestored
    BY DEF PullInv, CallInv
  <1> QED
    BY <1>1, PullHolds, PTL

\* No recovered link moves a row off the pull request its loop recorded
\* (linkPullRequest).
THEOREM LinkKeepsHolds == MergingSpec => LinkKeepsLoopsPr
  <1>1. PullInv /\ [MergingNext]_mergingVars =>
          [\A s \in Owner : owned[s].pr # Nothing /\ owned[s].status = "done" =>
                                owned'[s].pr = owned[s].pr]_mergingVars
    BY PullNext DEF KeepsPr
  <1> QED
    BY <1>1, PullHolds, PTL DEF MergingSpec, LinkKeepsLoopsPr
=============================================================================
