-------------------------- MODULE Findings_proofs --------------------------
(* What Findings proves of merges, for every number of files, findings,     *)
(* plans, cycles and runs, and of the sub-tasks that must work on findings. *)
EXTENDS Findings, FiniteSetTheorems, WellFoundedInduction, TLAPS

(* The part of the type invariant that does not rest on the shape of plans. *)
TableOK ==
    /\ defects \in Shapes
    /\ record \in [Defects -> Lifecycle \cup {"none"}]
    /\ report \in [Defects -> Lifecycle \cup {"none", "raw"}]
    /\ past \in [Defects -> {"new", "owed", "closed"}]
    /\ gated \subseteq Defects

(* A run has a recommendation only once it ended.                           *)
OutcomeInv == outcome # "none" => phase = "end"

(* What a review reports of a finding is what the table says, unless the    *)
(* reconciliation failed.                                                   *)
ReportInv == \A d \in Defects : report[d] \in {"none", "raw", record[d]}

(* How a finding came to its state in the table.                            *)
HistoryInv ==
    \A d \in Defects :
        /\ record[d] \in {"none", "environment_blocked"} => past[d] = "new"
        /\ record[d] \in {"open", "late_discovery"} => past[d] = "owed"
        /\ record[d] = "resolved" => past[d] = "closed"
        /\ record[d] = "stale" =>
             past[d] = "closed" \/ (past[d] = "new" /\ defects[d].severity # "high")
        /\ record[d] \in {"none", "environment_blocked"} <=>
             record[d] = "none" \/ defects[d].kind = "env"

(* A verdict that passes stands over no failed check of the diff.           *)
GateInv ==
    /\ gated \subseteq Raised
    /\ verdict = "pass" => \A d \in gated : AtLeastMedium(d) => defects[d].kind = "env"

(* A merge is recommended over what does not block it.                      *)
MergeInv ==
    outcome = "merge" =>
        \/ verdict = "pass" /\ \A d \in Defects : ~BlocksMerge(d)
        \/ verdict = "revise" /\ \A d \in Defects : ~Blocking(d)

IInv == TableOK /\ OutcomeInv /\ ReportInv /\ HistoryInv /\ GateInv /\ MergeInv

-----------------------------------------------------------------------------
LEMMA DefectType ==
  ASSUME TableOK, NEW d \in Defects
  PROVE  defects[d].severity \in Severities /\ defects[d].kind \in Kinds
  BY FindingsAssumption DEF TableOK

LEMMA InitInv == FindingsInit => IInv
  <1> SUFFICES ASSUME FindingsInit PROVE IInv
    OBVIOUS
  <1>1. TableOK /\ OutcomeInv
    BY DEF FindingsInit, TableOK, OutcomeInv, Nowhere, Lifecycle
  <1>2. ReportInv /\ HistoryInv
    BY DEF FindingsInit, ReportInv, HistoryInv, Nowhere
  <1>3. GateInv /\ MergeInv
    BY DEF FindingsInit, GateInv, MergeInv
  <1> QED
    BY <1>1, <1>2, <1>3 DEF IInv

\* What a finding becomes in the table, raised or not.
LEMMA StateOfType ==
  ASSUME TableOK, HistoryInv, NEW d \in Defects
  PROVE  /\ StateOf(d) \in Lifecycle /\ Unraised(d) \in Lifecycle \cup {"none"}
         /\ StateOf(d) = "environment_blocked" <=> defects[d].kind = "env"
         /\ StateOf(d) = "stale" =>
              record[d] \in {"resolved", "stale"} \/ (record[d] = "none" /\ defects[d].severity # "high")
         /\ StateOf(d) = "resolved" => record[d] = "resolved"
         /\ Unraised(d) \in {"none", "stale", "environment_blocked"} => Unraised(d) = record[d]
         /\ Unraised(d) \notin {"open", "late_discovery"}
         /\ Unraised(d) = "resolved" => record[d] \in {"open", "late_discovery", "resolved"}
  <1>1. record[d] \in Lifecycle \cup {"none"} /\ defects[d].kind \in Kinds
    BY DefectType DEF TableOK
  <1> QED
    BY <1>1 DEF StateOf, Unraised, HistoryInv, Kinds, Lifecycle, Admitted

\* The table and the history after a review that was reconciled.
LEMMA ReconcileKeeps ==
  ASSUME TableOK, HistoryInv, NEW now \in SUBSET Defects, Reconcile(now), defects' = defects
  PROVE  /\ record' \in [Defects -> Lifecycle \cup {"none"}]
         /\ report' \in [Defects -> Lifecycle \cup {"none", "raw"}]
         /\ past' \in [Defects -> {"new", "owed", "closed"}]
         /\ ReportInv' /\ HistoryInv'
         /\ \A d \in now : report'[d] # "none"
  <1>1. \A d \in Defects : /\ record'[d] = IF d \in now THEN StateOf(d) ELSE Unraised(d)
                           /\ report'[d] = IF d \in now THEN StateOf(d) ELSE "none"
    BY DEF Reconcile
  <1>2. /\ record' \in [Defects -> Lifecycle \cup {"none"}]
        /\ report' \in [Defects -> Lifecycle \cup {"none", "raw"}]
    BY StateOfType DEF Reconcile
  <1>3. \A d \in Defects :
           past'[d] = IF record'[d] \in {"open", "late_discovery"} THEN "owed"
                      ELSE IF record[d] # "resolved" /\ record'[d] = "resolved" THEN "closed"
                      ELSE past[d]
    BY DEF Reconcile
  <1>4. past' \in [Defects -> {"new", "owed", "closed"}]
    BY DEF Reconcile, TableOK
  <1>5. HistoryInv'
    <2> SUFFICES ASSUME NEW d \in Defects
                 PROVE  /\ record'[d] \in {"none", "environment_blocked"} => past'[d] = "new"
                        /\ record'[d] \in {"open", "late_discovery"} => past'[d] = "owed"
                        /\ record'[d] = "resolved" => past'[d] = "closed"
                        /\ record'[d] = "stale" =>
                             past'[d] = "closed" \/ (past'[d] = "new" /\ defects[d].severity # "high")
                        /\ record'[d] \in {"none", "environment_blocked"} <=>
                             record'[d] = "none" \/ defects[d].kind = "env"
      BY DEF HistoryInv
    <2>1. record[d] \in Lifecycle \cup {"none"} /\ defects[d].kind \in Kinds
      BY DefectType DEF TableOK
    <2>2. CASE d \in now
      <3>1. record'[d] = StateOf(d)
        BY <1>1, <2>2
      <3> QED
        BY <1>3, <2>1, <3>1, StateOfType DEF HistoryInv, Lifecycle
    <2>3. CASE d \notin now
      <3>1. record'[d] = Unraised(d)
        BY <1>1, <2>3
      <3> QED
        BY <1>3, <2>1, <3>1 DEF HistoryInv, Lifecycle, Unraised
    <2> QED
      BY <2>2, <2>3
  <1>6. ReportInv'
    BY <1>1 DEF ReportInv
  <1>7. \A d \in now : report'[d] # "none"
    BY <1>1, StateOfType DEF Lifecycle
  <1> QED
    BY <1>2, <1>4, <1>5, <1>6, <1>7

LEMMA ReviewKeeps == IInv /\ Review => IInv'
  <1> SUFFICES ASSUME IInv, Review PROVE IInv'
    OBVIOUS
  <1> USE DEF IInv
  <1>1. PICK said \in SUBSET {d \in Defects : defects[d].by = "review"}, gates \in Gates,
             v \in {"pass", "revise", "block"} :
          /\ verdict' = Merged(GatedVerdict(v, said), gates)
          /\ Reconcile(said \cup gates) \/ ReconcileFails(said \cup gates)
          /\ gated' = gates
    BY DEF Review
  <1>2. defects' = defects /\ outcome = "none" /\ Decide
    BY DEF Review, OutcomeInv
  <1>3. gates \subseteq Defects /\ said \cup gates \in SUBSET Defects
    BY <1>1 DEF Gates
  <1>4. /\ TableOK' /\ ReportInv' /\ HistoryInv'
        /\ \A d \in gates : report'[d] # "none"
    <2>1. CASE Reconcile(said \cup gates)
      BY <1>1, <1>2, <1>3, <2>1, ReconcileKeeps DEF TableOK
    <2>2. CASE ReconcileFails(said \cup gates)
      BY <1>1, <1>2, <1>3, <2>2 DEF ReconcileFails, TableOK, ReportInv, HistoryInv
    <2> QED
      BY <1>1, <2>1, <2>2
  <1>5. GateInv'
    <2>1. gated' \subseteq Raised'
      BY <1>1, <1>3, <1>4 DEF Raised
    <2>2. ASSUME verdict' = "pass", NEW d \in gates, AtLeastMedium(d)
          PROVE  defects[d].kind = "env"
      <3>1. defects[d].kind \in Kinds
        BY <1>3, DefectType
      <3>2. defects[d].kind # "code"
        BY <1>1, <2>2 DEF Merged
      <3> QED
        BY <3>1, <3>2 DEF Kinds
    <2> QED
      BY <1>1, <1>2, <2>1, <2>2 DEF GateInv, AtLeastMedium
  <1>6. OutcomeInv' /\ MergeInv'
    BY <1>2 DEF Decide, End, Recommended, OutcomeInv, MergeInv
  <1> QED
    BY <1>4, <1>5, <1>6

LEMMA InvNext == IInv /\ [FindingsNext]_findingVars => IInv'
  <1> SUFFICES ASSUME IInv, [FindingsNext]_findingVars PROVE IInv'
    OBVIOUS
  <1> USE DEF IInv
  <1>1. CASE UNCHANGED <<defects, record, report, verdict, past, gated>>
    <2>1. TableOK' /\ ReportInv' /\ HistoryInv' /\ GateInv'
      BY <1>1 DEF TableOK, ReportInv, HistoryInv, GateInv, Raised, AtLeastMedium
    <2>2. \A d \in Defects : (BlocksMerge(d)' <=> BlocksMerge(d)) /\ (Blocking(d)' <=> Blocking(d))
      BY <1>1 DEF BlocksMerge, Blocking, Raised, Settled, AtLeastMedium
    <2>3. CASE outcome' = outcome /\ (phase = "end" => phase' = "end")
      BY <1>1, <2>1, <2>2, <2>3 DEF OutcomeInv, MergeInv
    <2>4. CASE phase' = "end" /\ outcome' \in {"failed", Recommended}
      BY <1>1, <2>1, <2>4 DEF OutcomeInv, MergeInv, Recommended
    <2>5. Route \/ Work => phase # "end" /\ outcome' = outcome
      BY DEF Route, Work
    <2>6. EarlyExit \/ ScopeBlowout => phase' = "end" /\ outcome' \in {"failed", Recommended}
      BY DEF EarlyExit, ScopeBlowout, End
    <2>7. RunAgain => outcome' = "none"
      BY DEF RunAgain
    <2> QED
      BY <2>1, <2>3, <2>4, <2>5, <2>6, <2>7, ReviewKeeps DEF FindingsNext, findingVars,
         OutcomeInv, MergeInv
  <1>2. CASE RunAgain
    BY <1>2 DEF RunAgain, TableOK, OutcomeInv, ReportInv, HistoryInv, GateInv, MergeInv, Nowhere,
       Raised
  <1>3. CASE Route \/ Work \/ EarlyExit \/ ScopeBlowout \/ UNCHANGED findingVars
    BY <1>1, <1>3 DEF Route, Work, EarlyExit, ScopeBlowout, findingVars
  <1> QED
    BY <1>2, <1>3, ReviewKeeps DEF FindingsNext

LEMMA InvHolds == FindingsSpec => []IInv
  BY InitInv, InvNext, PTL DEF FindingsSpec

-----------------------------------------------------------------------------
(* Results.                                                                 *)

LEMMA InvOverlooks == IInv => MergeOverlooksNothing
  <1> SUFFICES ASSUME IInv, outcome = "merge", NEW d \in Raised, AtLeastMedium(d),
                      ~(defects[d].kind = "env" /\ verdict = "revise")
               PROVE  past[d] = "closed" \/ (past[d] = "new" /\ defects[d].severity = "medium")
    BY DEF MergeOverlooksNothing
  <1>1. d \in Defects /\ defects[d].kind \in Kinds
    BY DefectType DEF IInv, Raised
  <1>2. report[d] \in {"resolved", "stale"}
    BY <1>1 DEF IInv, MergeInv, BlocksMerge, Blocking, Settled, Kinds
  <1>3. record[d] = report[d]
    BY <1>1, <1>2 DEF IInv, ReportInv
  <1> QED
    BY <1>1, <1>2, <1>3 DEF IInv, HistoryInv, AtLeastMedium

LEMMA InvChecks == IInv => ChecksHoldTheMerge
  <1> SUFFICES ASSUME IInv, outcome = "merge", NEW d \in gated, AtLeastMedium(d)
               PROVE  past[d] # "owed" /\ verdict # "pass"
    BY DEF ChecksHoldTheMerge
  <1>1. d \in Defects /\ d \in Raised /\ defects[d].kind \in Kinds
    BY DefectType DEF IInv, GateInv, Raised, TableOK
  \* What is settled was closed by a review or came too late.
  <1>2. ASSUME report[d] \in {"resolved", "stale"} PROVE past[d] # "owed" /\ defects[d].kind = "code"
    BY <1>1, <1>2 DEF IInv, ReportInv, HistoryInv, Kinds
  <1>3. verdict # "pass"
    BY <1>1, <1>2 DEF IInv, MergeInv, GateInv, BlocksMerge, Settled
  <1>4. CASE defects[d].kind = "code"
    BY <1>1, <1>2, <1>3, <1>4 DEF IInv, MergeInv, Blocking, Settled
  <1>5. CASE defects[d].kind = "env"
    <2>1. HistoryInv
      BY DEF IInv
    <2>2. record[d] \in {"none", "environment_blocked"}
      BY <1>1, <1>5, <2>1 DEF HistoryInv
    <2>3. past[d] = "new"
      BY <1>1, <2>1, <2>2 DEF HistoryInv
    <2> QED
      BY <1>3, <2>3
  <1> QED
    BY <1>1, <1>3, <1>4, <1>5 DEF Kinds

\* A merge passes over a defect only if a review closed it, or if it is of
\* medium severity and came too late, and over what could not be verified only
\* on a verdict that asks for a revision (reconcileFindings,
\* lateDiscoveryReason, gateVerdict, deriveMergeRecommendation).
THEOREM OverlooksHolds == FindingsSpec => []MergeOverlooksNothing
  BY InvHolds, InvOverlooks, PTL

\* No merge is recommended over a check that failed in the last review and
\* counts as live, nor over any that failed when the review passed the branch.
THEOREM ChecksHolds == FindingsSpec => []ChecksHoldTheMerge
  BY InvHolds, InvChecks, PTL

-----------------------------------------------------------------------------
(* Folds.  FoldLeft picks the last index of a set of indices and folds the   *)
(* rest first; a smallest counterexample serves as induction.                *)

\* A set of numbers that is not empty has a least one.
LEMMA SmallestNat ==
  ASSUME NEW N \in SUBSET Nat, N # {}
  PROVE  \E n \in N : \A m \in N : n <= m
  <1>1. IsWellFoundedOn(OpToRel(<, Nat), Nat)
    BY NatLessThanWellFounded
  <1>2. PICK n \in N : \A m \in N : <<m, n>> \notin OpToRel(<, Nat)
    BY <1>1, WFMin
  <1>3. \A m \in N : ~(m < n)
    BY <1>2 DEF OpToRel
  <1> QED
    BY <1>3

\* So Min is one of them.
LEMMA MinIn ==
  ASSUME NEW N \in SUBSET Nat, N # {}
  PROVE  Min(N) \in N
  <1>1. \E n \in N : \A m \in N : n <= m
    BY SmallestNat
  <1> QED
    BY <1>1 DEF Min

\* What is folded last, and before it.
LEMMA LastIndex ==
  ASSUME NEW k \in Nat \ {0}
  PROVE  Max(1 .. k) = k /\ (1 .. k) \ {k} = 1 .. (k - 1)
  <1>1. k \in 1 .. k /\ \A y \in 1 .. k : k >= y
    OBVIOUS
  <1>2. \A x \in 1 .. k : (\A y \in 1 .. k : x >= y) => x = k
    OBVIOUS
  <1>3. Max(1 .. k) = k
    BY <1>1, <1>2 DEF Max
  <1> QED
    BY <1>3

\* A set of numbers with a bound that is not empty has a largest.
LEMMA LargestNat ==
  ASSUME NEW u \in Nat, NEW N \in SUBSET (1 .. u), N # {}
  PROVE  Max(N) \in N
  <1> DEFINE U == {v \in Nat : \A y \in N : v >= y}
  <1>1. PICK v \in U : \A w \in U : v <= w
    <2>1. U \in SUBSET Nat /\ u \in U
      OBVIOUS
    <2> HIDE DEF U
    <2> QED
      BY <2>1, SmallestNat
  <1>2. v \in N
    <2> SUFFICES ASSUME v \notin N PROVE FALSE
      OBVIOUS
    <2>1. \A y \in N : v > y /\ y \in Nat
      OBVIOUS
    <2>2. v \in Nat /\ v # 0
      <3>1. v \in Nat
        OBVIOUS
      <3>2. PICK y \in N : TRUE
        OBVIOUS
      <3> QED
        BY <2>1, <3>1, <3>2
    <2>3. v - 1 \in Nat /\ \A y \in N : v - 1 >= y
      BY <2>1, <2>2
    <2>4. v - 1 \in U
      BY <2>3
    <2> QED
      BY <1>1, <2>2, <2>4
  <1> QED
    BY <1>1, <1>2 DEF Max

\* FoldLeft of GroupWith: the findings of a repair, put into groups.
GroupWithStep(b, q, g, s) == IF s = {} THEN b ELSE GroupWith(g[s \ {Max(s)}], q[Max(s)])
GroupWithFold(b, q) == CHOOSE g : g = [s \in SUBSET DOMAIN q |-> GroupWithStep(b, q, g, s)]

GroupAll(b, q) == FoldLeft(GroupWith, b, q)

LEMMA GroupWithDef ==
  ASSUME NEW b, NEW q
  PROVE  GroupAll(b, q) = GroupWithFold(b, q)[DOMAIN q]
  BY DEF GroupAll, FoldLeft, MapThenFoldSet, GroupWithFold, GroupWithStep

LEMMA GroupWithExists ==
  ASSUME NEW b, NEW q, NEW u \in Nat, DOMAIN q = 1 .. u
  PROVE  \E g : g = [s \in SUBSET DOMAIN q |-> GroupWithStep(b, q, g, s)]
  <1> DEFINE S == DOMAIN q
             Good(n, g) == \A s \in SUBSET S : Cardinality(s) <= n => g[s] = GroupWithStep(b, q, g, s)
  <1> DEFINE Bad == {n \in Nat : \A g : ~Good(n, g)}
  <1>1. \A s \in SUBSET S : /\ IsFiniteSet(s) /\ Cardinality(s) \in Nat
                            /\ s # {} => Max(s) \in s
    <2>1. \A s \in SUBSET S : IsFiniteSet(s) /\ Cardinality(s) \in Nat
      <3>1. IsFiniteSet(S)
        BY 1 \in Int, u \in Int, FS_Interval
      <3> QED
        BY <3>1, FS_Subset, FS_CardinalityType
    <2>2. ASSUME NEW s \in SUBSET S, s # {} PROVE Max(s) \in s
      BY <2>1, <2>2, LargestNat
    <2> QED
      BY <2>1, <2>2
  <1>2. Good(0, [s \in SUBSET S |-> b])
    BY <1>1, FS_EmptySet DEF GroupWithStep
  <1>3. ASSUME NEW n \in Nat, NEW g, Good(n, g)
        PROVE  \E h : Good(n + 1, h)
    <2> DEFINE h == [s \in SUBSET S |-> IF Cardinality(s) <= n THEN g[s] ELSE GroupWithStep(b, q, g, s)]
    <2>1. ASSUME NEW s \in SUBSET S, Cardinality(s) <= n + 1
          PROVE  h[s] = GroupWithStep(b, q, h, s)
      <3>1. CASE s = {}
        <4>1. Cardinality(s) <= n
          BY <3>1, FS_EmptySet
        <4>2. h[s] = g[s] /\ g[s] = GroupWithStep(b, q, g, s)
          BY <1>3, <4>1
        <4> QED
          BY <3>1, <4>2 DEF GroupWithStep
      <3>2. CASE s # {}
        <4> DEFINE t == s \ {Max(s)}
        <4>1. t \in SUBSET S /\ Cardinality(t) <= n
          BY <1>1, <2>1, <3>2, FS_RemoveElement
        <4>2. h[t] = g[t]
          BY <4>1
        <4>3. h[s] = GroupWithStep(b, q, g, s)
          BY <1>3
        <4> QED
          BY <3>2, <4>2, <4>3 DEF GroupWithStep
      <3> QED
        BY <3>1, <3>2
    <2> QED
      BY <2>1
  <1>4. Bad = {}
    <2> SUFFICES ASSUME Bad # {} PROVE FALSE
      OBVIOUS
    <2> HIDE DEF Good
    <2>1. PICK n \in Bad : \A m \in Bad : n <= m
      BY SmallestNat
    <2>2. n # 0
      BY <1>2
    <2>3. n - 1 \in Nat /\ n - 1 \notin Bad
      BY <2>1, <2>2
    <2>4. PICK g : Good(n - 1, g)
      BY <2>3
    <2> QED
      BY <1>3, <2>3, <2>4, n - 1 + 1 = n
  <1>5. PICK g : Good(Cardinality(S), g)
    BY <1>1, <1>4
  <1> DEFINE h == [s \in SUBSET S |-> g[s]]
  <1>6. ASSUME NEW s \in SUBSET S PROVE h[s] = GroupWithStep(b, q, h, s)
    <2>1. g[s] = GroupWithStep(b, q, g, s)
      BY <1>1, <1>5, FS_Subset
    <2>2. s \ {Max(s)} \in SUBSET S
      OBVIOUS
    <2> QED
      BY <2>1, <2>2 DEF GroupWithStep
  <1>7. h = [s \in SUBSET S |-> GroupWithStep(b, q, h, s)]
    BY <1>6
  <1> QED
    BY <1>7

\* Its value after k elements.
GroupWithUpto(b, q, k) == GroupWithFold(b, q)[1 .. k]

GroupWithUnfolds(b, q, n) ==
    /\ GroupWithUpto(b, q, 0) = b
    /\ \A k \in 1 .. n : GroupWithUpto(b, q, k) = GroupWith(GroupWithUpto(b, q, k - 1), q[k])
    /\ GroupAll(b, q) = GroupWithUpto(b, q, n)

LEMMA GroupWithFolds ==
  ASSUME NEW b, NEW n \in Nat, NEW q, DOMAIN q = 1 .. n
  PROVE  GroupWithUnfolds(b, q, n)
  <1>2. GroupWithFold(b, q) = [s \in SUBSET DOMAIN q |-> GroupWithStep(b, q, GroupWithFold(b, q), s)]
    BY GroupWithExists DEF GroupWithFold
  <1>3. \A k \in 0 .. n : 1 .. k \in SUBSET DOMAIN q
    OBVIOUS
  <1>4. \A k \in 0 .. n : GroupWithUpto(b, q, k) = GroupWithStep(b, q, GroupWithFold(b, q), 1 .. k)
    BY <1>2, <1>3 DEF GroupWithUpto
  <1>5. GroupWithUpto(b, q, 0) = b
    <2>1. 1 .. 0 = {} /\ 0 \in 0 .. n
      OBVIOUS
    <2> QED
      BY <1>4, <2>1 DEF GroupWithStep
  <1>6. ASSUME NEW k \in 1 .. n
        PROVE  GroupWithUpto(b, q, k) = GroupWith(GroupWithUpto(b, q, k - 1), q[k])
    <2>1. Max(1 .. k) = k /\ (1 .. k) \ {k} = 1 .. (k - 1)
      BY LastIndex
    <2>2. 1 .. k # {} /\ k \in 0 .. n
      OBVIOUS
    <2>3. GroupWithUpto(b, q, k) = GroupWithStep(b, q, GroupWithFold(b, q), 1 .. k)
      BY <1>4, <2>2
    <2>4. GroupWithStep(b, q, GroupWithFold(b, q), 1 .. k)
          = GroupWith(GroupWithFold(b, q)[(1 .. k) \ {Max(1 .. k)}], q[Max(1 .. k)])
      BY <2>2 DEF GroupWithStep
    <2> QED
      BY <2>1, <2>3, <2>4 DEF GroupWithUpto
  <1> QED
    BY <1>5, <1>6, GroupWithDef DEF GroupWithUpto, GroupWithUnfolds

\* FoldLeft of Repaired: the plan with a sub-task for each group.
RepairedStep(b, q, g, s) == IF s = {} THEN b ELSE Repaired(g[s \ {Max(s)}], q[Max(s)])
RepairedFold(b, q) == CHOOSE g : g = [s \in SUBSET DOMAIN q |-> RepairedStep(b, q, g, s)]

RepairAll(b, q) == FoldLeft(Repaired, b, q)

LEMMA RepairedDef ==
  ASSUME NEW b, NEW q
  PROVE  RepairAll(b, q) = RepairedFold(b, q)[DOMAIN q]
  BY DEF RepairAll, FoldLeft, MapThenFoldSet, RepairedFold, RepairedStep

LEMMA RepairedExists ==
  ASSUME NEW b, NEW q, NEW u \in Nat, DOMAIN q = 1 .. u
  PROVE  \E g : g = [s \in SUBSET DOMAIN q |-> RepairedStep(b, q, g, s)]
  <1> DEFINE S == DOMAIN q
             Good(n, g) == \A s \in SUBSET S : Cardinality(s) <= n => g[s] = RepairedStep(b, q, g, s)
  <1> DEFINE Bad == {n \in Nat : \A g : ~Good(n, g)}
  <1>1. \A s \in SUBSET S : /\ IsFiniteSet(s) /\ Cardinality(s) \in Nat
                            /\ s # {} => Max(s) \in s
    <2>1. \A s \in SUBSET S : IsFiniteSet(s) /\ Cardinality(s) \in Nat
      <3>1. IsFiniteSet(S)
        BY 1 \in Int, u \in Int, FS_Interval
      <3> QED
        BY <3>1, FS_Subset, FS_CardinalityType
    <2>2. ASSUME NEW s \in SUBSET S, s # {} PROVE Max(s) \in s
      BY <2>1, <2>2, LargestNat
    <2> QED
      BY <2>1, <2>2
  <1>2. Good(0, [s \in SUBSET S |-> b])
    BY <1>1, FS_EmptySet DEF RepairedStep
  <1>3. ASSUME NEW n \in Nat, NEW g, Good(n, g)
        PROVE  \E h : Good(n + 1, h)
    <2> DEFINE h == [s \in SUBSET S |-> IF Cardinality(s) <= n THEN g[s] ELSE RepairedStep(b, q, g, s)]
    <2>1. ASSUME NEW s \in SUBSET S, Cardinality(s) <= n + 1
          PROVE  h[s] = RepairedStep(b, q, h, s)
      <3>1. CASE s = {}
        <4>1. Cardinality(s) <= n
          BY <3>1, FS_EmptySet
        <4>2. h[s] = g[s] /\ g[s] = RepairedStep(b, q, g, s)
          BY <1>3, <4>1
        <4> QED
          BY <3>1, <4>2 DEF RepairedStep
      <3>2. CASE s # {}
        <4> DEFINE t == s \ {Max(s)}
        <4>1. t \in SUBSET S /\ Cardinality(t) <= n
          BY <1>1, <2>1, <3>2, FS_RemoveElement
        <4>2. h[t] = g[t]
          BY <4>1
        <4>3. h[s] = RepairedStep(b, q, g, s)
          BY <1>3
        <4> QED
          BY <3>2, <4>2, <4>3 DEF RepairedStep
      <3> QED
        BY <3>1, <3>2
    <2> QED
      BY <2>1
  <1>4. Bad = {}
    <2> SUFFICES ASSUME Bad # {} PROVE FALSE
      OBVIOUS
    <2> HIDE DEF Good
    <2>1. PICK n \in Bad : \A m \in Bad : n <= m
      BY SmallestNat
    <2>2. n # 0
      BY <1>2
    <2>3. n - 1 \in Nat /\ n - 1 \notin Bad
      BY <2>1, <2>2
    <2>4. PICK g : Good(n - 1, g)
      BY <2>3
    <2> QED
      BY <1>3, <2>3, <2>4, n - 1 + 1 = n
  <1>5. PICK g : Good(Cardinality(S), g)
    BY <1>1, <1>4
  <1> DEFINE h == [s \in SUBSET S |-> g[s]]
  <1>6. ASSUME NEW s \in SUBSET S PROVE h[s] = RepairedStep(b, q, h, s)
    <2>1. g[s] = RepairedStep(b, q, g, s)
      BY <1>1, <1>5, FS_Subset
    <2>2. s \ {Max(s)} \in SUBSET S
      OBVIOUS
    <2> QED
      BY <2>1, <2>2 DEF RepairedStep
  <1>7. h = [s \in SUBSET S |-> RepairedStep(b, q, h, s)]
    BY <1>6
  <1> QED
    BY <1>7

\* Its value after k elements.
RepairedUpto(b, q, k) == RepairedFold(b, q)[1 .. k]

RepairedUnfolds(b, q, n) ==
    /\ RepairedUpto(b, q, 0) = b
    /\ \A k \in 1 .. n : RepairedUpto(b, q, k) = Repaired(RepairedUpto(b, q, k - 1), q[k])
    /\ RepairAll(b, q) = RepairedUpto(b, q, n)

LEMMA RepairedFolds ==
  ASSUME NEW b, NEW n \in Nat, NEW q, DOMAIN q = 1 .. n
  PROVE  RepairedUnfolds(b, q, n)
  <1>2. RepairedFold(b, q) = [s \in SUBSET DOMAIN q |-> RepairedStep(b, q, RepairedFold(b, q), s)]
    BY RepairedExists DEF RepairedFold
  <1>3. \A k \in 0 .. n : 1 .. k \in SUBSET DOMAIN q
    OBVIOUS
  <1>4. \A k \in 0 .. n : RepairedUpto(b, q, k) = RepairedStep(b, q, RepairedFold(b, q), 1 .. k)
    BY <1>2, <1>3 DEF RepairedUpto
  <1>5. RepairedUpto(b, q, 0) = b
    <2>1. 1 .. 0 = {} /\ 0 \in 0 .. n
      OBVIOUS
    <2> QED
      BY <1>4, <2>1 DEF RepairedStep
  <1>6. ASSUME NEW k \in 1 .. n
        PROVE  RepairedUpto(b, q, k) = Repaired(RepairedUpto(b, q, k - 1), q[k])
    <2>1. Max(1 .. k) = k /\ (1 .. k) \ {k} = 1 .. (k - 1)
      BY LastIndex
    <2>2. 1 .. k # {} /\ k \in 0 .. n
      OBVIOUS
    <2>3. RepairedUpto(b, q, k) = RepairedStep(b, q, RepairedFold(b, q), 1 .. k)
      BY <1>4, <2>2
    <2>4. RepairedStep(b, q, RepairedFold(b, q), 1 .. k)
          = Repaired(RepairedFold(b, q)[(1 .. k) \ {Max(1 .. k)}], q[Max(1 .. k)])
      BY <2>2 DEF RepairedStep
    <2> QED
      BY <2>1, <2>3, <2>4 DEF RepairedUpto
  <1> QED
    BY <1>5, <1>6, RepairedDef DEF RepairedUpto, RepairedUnfolds

-----------------------------------------------------------------------------
(* Plans, groups and what routing does to them.                              *)

Groups == [title : Files \cup {NoFile}, files : SUBSET Files]

(* The plan is a sequence of sub-tasks.                                     *)
PlanOK == plan \in Seq(Tasks)

\* A finite set as a sequence: every element has an index.
LEMMA Listed ==
  ASSUME NEW S, IsFiniteSet(S)
  PROVE  /\ Cardinality(S) \in Nat /\ SetToSeq(S) \in [1 .. Cardinality(S) -> S]
         /\ \A x \in S : \E i \in 1 .. Cardinality(S) : SetToSeq(S)[i] = x
  <1> DEFINE n == Cardinality(S)
  <1>1. n \in Nat
    BY FS_CardinalityType
  <1>2. PICK m \in Nat : ExistsBijection(1 .. m, S)
    BY FS_NatBijection
  <1>3. ExistsBijection(1 .. n, S)
    BY <1>2, FS_CountingElements
  <1>4. \E f \in [1 .. n -> S] : IsInjective(f)
    BY <1>3 DEF ExistsBijection, Bijection, Injection, IsInjective
  <1>5. SetToSeq(S) \in [1 .. n -> S] /\ IsInjective(SetToSeq(S))
    BY <1>4 DEF SetToSeq
  <1> DEFINE f == SetToSeq(S)
             T == {f[i] : i \in 1 .. n}
  <1>6. T = S
    <2>1. f \in Surjection(1 .. n, T)
      BY <1>5 DEF Surjection
    <2>2. f \in Injection(1 .. n, T)
      BY <1>5 DEF Injection, IsInjective
    <2>3. IsFiniteSet(1 .. n) /\ Cardinality(1 .. n) = n
      BY <1>1, 1 \in Int, n \in Int, FS_Interval
    <2>4. IsFiniteSet(T) /\ Cardinality(T) = n
      <3> HIDE DEF T, f
      <3> QED
        BY <2>1, <2>2, <2>3, FS_Surjection
    <2>5. T \in SUBSET S
      BY <1>5
    <2> HIDE DEF T
    <2> QED
      BY <2>4, <2>5, FS_Subset
  <1> QED
    BY <1>1, <1>5, <1>6

\* A finding that joins the groups of a repair is in one of them, and none shrinks.
LEMMA GroupWithGrows ==
  ASSUME FindingsAssumption, TableOK, NEW g \in Seq(Groups), NEW d \in Defects, File(d) # NoFile
  PROVE  /\ GroupWith(g, d) \in Seq(Groups)
         /\ \A i \in DOMAIN g : /\ i \in DOMAIN GroupWith(g, d)
                                /\ g[i].files \subseteq GroupWith(g, d)[i].files
         /\ \E i \in DOMAIN GroupWith(g, d) : File(d) \in GroupWith(g, d)[i].files
  <1> DEFINE mine == {File(d)} \cup defects[d].related
             hits == {i \in DOMAIN g : g[i].files \cap mine # {}}
             h == GroupWith(g, d)
  <1>1. File(d) \in Files /\ mine \in SUBSET Files
    BY DEF TableOK, File
  <1>2. DOMAIN g = 1 .. Len(g) /\ Len(g) \in Nat /\ \A i \in DOMAIN g : g[i] \in Groups
    OBVIOUS
  <1>3. CASE hits = {}
    <2> DEFINE e == [title |-> File(d), files |-> mine]
    <2>1. h = Append(g, e) /\ e \in Groups
      BY <1>1, <1>3 DEF GroupWith, Groups
    <2>2. /\ h \in Seq(Groups) /\ DOMAIN h = 1 .. Len(g) + 1
          /\ \A i \in DOMAIN g : h[i] = g[i]
          /\ h[Len(g) + 1] = e
      BY <1>2, <2>1
    <2> QED
      BY <1>2, <2>2
  <1>4. CASE hits # {}
    <2> DEFINE m == Min(hits)
               e == [g[m] EXCEPT !.files = g[m].files \cup mine]
    <2>1. m \in hits
      <3>1. hits \in SUBSET Nat
        BY <1>2
      <3> HIDE DEF hits
      <3> QED
        BY <1>4, <3>1, MinIn
    <2>2. m \in DOMAIN g /\ g[m] \in Groups
      BY <1>2, <2>1
    <2>3. h = [g EXCEPT ![m] = e]
      BY <1>4 DEF GroupWith
    <2>4. e \in Groups /\ e.files = g[m].files \cup mine
      BY <1>1, <2>2 DEF Groups
    <2> HIDE DEF e, m
    <2>5. /\ h \in Seq(Groups) /\ DOMAIN h = DOMAIN g
          /\ \A i \in DOMAIN g : h[i] = IF i = m THEN e ELSE g[i]
      BY <1>2, <2>2, <2>3, <2>4
    <2> QED
      BY <2>2, <2>4, <2>5
  <1> QED
    BY <1>3, <1>4

\* A group gets a sub-task that has its files, and no sub-task loses any.
LEMMA RepairedGrows ==
  ASSUME FindingsAssumption, NEW p \in Seq(Tasks), NEW group \in Groups
  PROVE  /\ Repaired(p, group) \in Seq(Tasks)
         /\ \A i \in DOMAIN p : /\ i \in DOMAIN Repaired(p, group)
                                /\ p[i].files \subseteq Repaired(p, group)[i].files
                                /\ p[i].reads \subseteq Repaired(p, group)[i].reads
         /\ \E i \in DOMAIN Repaired(p, group) : group.files \subseteq Repaired(p, group)[i].files
  <1> DEFINE same == {s \in DOMAIN p : p[s].title = group.title}
             h == Repaired(p, group)
  <1>1. group.title \in Files \cup {NoFile} /\ group.files \in SUBSET Files
    BY DEF Groups
  <1>2. DOMAIN p = 1 .. Len(p) /\ Len(p) \in Nat /\ \A i \in DOMAIN p : p[i] \in Tasks
    OBVIOUS
  <1>3. CASE same = {}
    <2> DEFINE e == [title |-> group.title, files |-> group.files, reads |-> {},
                     granted |-> {}, approved |-> {}, declared |-> group.files]
    <2>1. h = Append(p, e) /\ e \in Tasks
      BY <1>1, <1>3 DEF Repaired, Tasks
    <2>2. /\ h \in Seq(Tasks) /\ DOMAIN h = 1 .. Len(p) + 1
          /\ \A i \in DOMAIN p : h[i] = p[i]
          /\ h[Len(p) + 1] = e
      BY <1>2, <2>1
    <2> QED
      BY <1>2, <2>2
  <1>4. CASE same # {}
    <2> DEFINE m == Min(same)
               e == [p[m] EXCEPT !.files = p[m].files \cup group.files,
                                 !.declared = p[m].declared \cup group.files]
    <2>1. m \in same
      <3>1. same \in SUBSET Nat
        BY <1>2
      <3> HIDE DEF same
      <3> QED
        BY <1>4, <3>1, MinIn
    <2>2. m \in DOMAIN p /\ p[m] \in Tasks
      BY <1>2, <2>1
    <2>3. h = [p EXCEPT ![m] = e]
      <3>1. h = [p EXCEPT ![m].files = p[m].files \cup group.files,
                          ![m].declared = p[m].declared \cup group.files]
        BY <1>4, <2>2 DEF Repaired, Tasks
      <3> QED
        BY <2>2, <3>1 DEF Tasks
    <2>4. e \in Tasks /\ e.files = p[m].files \cup group.files /\ e.reads = p[m].reads
      BY <1>1, <2>2 DEF Tasks
    <2> HIDE DEF e, m
    <2>5. /\ h \in Seq(Tasks) /\ DOMAIN h = DOMAIN p
          /\ \A i \in DOMAIN p : h[i] = IF i = m THEN e ELSE p[i]
      BY <1>2, <2>2, <2>3, <2>4
    <2> QED
      BY <2>2, <2>4, <2>5
  <1> QED
    BY <1>3, <1>4

\* Every finding that is grouped is in some group.
LEMMA AllGrouped ==
  ASSUME FindingsAssumption, TableOK, NEW b \in Seq(Groups), NEW n \in Nat, NEW q, DOMAIN q = 1 .. n,
         \A i \in 1 .. n : q[i] \in Defects /\ File(q[i]) # NoFile
  PROVE  LET gs == GroupAll(b, q) IN
         /\ gs \in Seq(Groups)
         /\ \A j \in 1 .. n : \E i \in DOMAIN gs : File(q[j]) \in gs[i].files
  <1> DEFINE G(k) == GroupWithUpto(b, q, k)
             Good(k) == /\ G(k) \in Seq(Groups)
                        /\ \A j \in 1 .. k : \E i \in DOMAIN G(k) : File(q[j]) \in G(k)[i].files
             Bad == {k \in 0 .. n : ~Good(k)}
  <1>1. /\ G(0) = b /\ GroupAll(b, q) = G(n)
        /\ \A k \in 1 .. n : G(k) = GroupWith(G(k - 1), q[k])
    <2>1. GroupWithUnfolds(b, q, n)
      BY GroupWithFolds
    <2> QED
      BY <2>1 DEF GroupWithUnfolds
  <1>2. Good(0)
    <2>1. 1 .. 0 = {}
      OBVIOUS
    <2> HIDE DEF G
    <2> QED
      BY <1>1, <2>1
  <1>3. ASSUME NEW k \in 1 .. n, Good(k - 1)
        PROVE  Good(k)
    <2> DEFINE g == G(k - 1)
               h == G(k)
    <2>1. h = GroupWith(g, q[k]) /\ g \in Seq(Groups) /\ q[k] \in Defects /\ File(q[k]) # NoFile
      BY <1>1, <1>3
    <2>2. /\ h \in Seq(Groups)
          /\ \A i \in DOMAIN g : i \in DOMAIN h /\ g[i].files \subseteq h[i].files
          /\ \E i \in DOMAIN h : File(q[k]) \in h[i].files
      <3> HIDE DEF g, h
      <3> QED
        BY <2>1, GroupWithGrows
    <2>3. ASSUME NEW j \in 1 .. k
          PROVE  \E i \in DOMAIN h : File(q[j]) \in h[i].files
      <3>1. CASE j = k
        BY <2>2, <3>1
      <3>2. CASE j # k
        <4>1. j \in 1 .. (k - 1)
          BY <3>2
        <4>2. PICK i \in DOMAIN g : File(q[j]) \in g[i].files
          BY <1>3, <4>1
        <4> QED
          BY <2>2, <4>2
      <3> QED
        BY <3>1, <3>2
    <2> QED
      BY <2>2, <2>3
  <1>4. Bad = {}
    <2> SUFFICES ASSUME Bad # {} PROVE FALSE
      OBVIOUS
    <2> HIDE DEF Good
    <2>1. PICK k \in Bad : \A m \in Bad : k <= m
      <3>1. Bad \in SUBSET Nat
        OBVIOUS
      <3> HIDE DEF Bad
      <3> QED
        BY <3>1, SmallestNat
    <2>2. k \in 1 .. n /\ k - 1 \in 0 .. n /\ k - 1 \notin Bad
      BY <1>2, <2>1
    <2> QED
      BY <1>3, <2>1, <2>2
  <1>5. Good(n)
    <2> HIDE DEF Good
    <2> QED
      BY <1>4
  <1> QED
    BY <1>1, <1>5

\* Every group has a sub-task, and no sub-task loses a file.
LEMMA AllRepaired ==
  ASSUME FindingsAssumption, NEW p \in Seq(Tasks), NEW n \in Nat, NEW q, DOMAIN q = 1 .. n,
         \A i \in 1 .. n : q[i] \in Groups
  PROVE  LET r == RepairAll(p, q) IN
         /\ r \in Seq(Tasks)
         /\ \A i \in DOMAIN p : /\ i \in DOMAIN r /\ p[i].files \subseteq r[i].files
                                /\ p[i].reads \subseteq r[i].reads
         /\ \A j \in 1 .. n : \E i \in DOMAIN r : q[j].files \subseteq r[i].files
  <1> DEFINE R(k) == RepairedUpto(p, q, k)
             Good(k) == /\ R(k) \in Seq(Tasks)
                        /\ \A i \in DOMAIN p : /\ i \in DOMAIN R(k) /\ p[i].files \subseteq R(k)[i].files
                                               /\ p[i].reads \subseteq R(k)[i].reads
                        /\ \A j \in 1 .. k : \E i \in DOMAIN R(k) : q[j].files \subseteq R(k)[i].files
             Bad == {k \in 0 .. n : ~Good(k)}
  <1>1. /\ R(0) = p /\ RepairAll(p, q) = R(n)
        /\ \A k \in 1 .. n : R(k) = Repaired(R(k - 1), q[k])
    <2>1. RepairedUnfolds(p, q, n)
      BY RepairedFolds
    <2> QED
      BY <2>1 DEF RepairedUnfolds
  <1>2. Good(0)
    <2>1. 1 .. 0 = {}
      OBVIOUS
    <2> HIDE DEF R
    <2> QED
      BY <1>1, <2>1
  <1>3. ASSUME NEW k \in 1 .. n, Good(k - 1)
        PROVE  Good(k)
    <2> DEFINE g == R(k - 1)
               h == R(k)
    <2>1. h = Repaired(g, q[k]) /\ g \in Seq(Tasks) /\ q[k] \in Groups
      BY <1>1, <1>3
    <2>2. /\ h \in Seq(Tasks)
          /\ \A i \in DOMAIN g : /\ i \in DOMAIN h /\ g[i].files \subseteq h[i].files
                                 /\ g[i].reads \subseteq h[i].reads
          /\ \E i \in DOMAIN h : q[k].files \subseteq h[i].files
      <3> HIDE DEF g, h
      <3> QED
        BY <2>1, RepairedGrows
    <2>3. ASSUME NEW j \in 1 .. k
          PROVE  \E i \in DOMAIN h : q[j].files \subseteq h[i].files
      <3>1. CASE j = k
        BY <2>2, <3>1
      <3>2. CASE j # k
        <4>1. j \in 1 .. (k - 1)
          BY <3>2
        <4>2. PICK i \in DOMAIN g : q[j].files \subseteq g[i].files
          BY <1>3, <4>1
        <4> QED
          BY <2>2, <4>2
      <3> QED
        BY <3>1, <3>2
    <2>4. \A i \in DOMAIN p : /\ i \in DOMAIN g /\ p[i].files \subseteq g[i].files
                              /\ p[i].reads \subseteq g[i].reads
      BY <1>3
    <2>5. \A i \in DOMAIN p : /\ i \in DOMAIN h /\ p[i].files \subseteq h[i].files
                              /\ p[i].reads \subseteq h[i].reads
      <3> HIDE DEF g, h
      <3> QED
        BY <2>2, <2>4
    <2> QED
      BY <2>2, <2>3, <2>5
  <1>4. Bad = {}
    <2> SUFFICES ASSUME Bad # {} PROVE FALSE
      OBVIOUS
    <2> HIDE DEF Good
    <2>1. PICK k \in Bad : \A m \in Bad : k <= m
      <3>1. Bad \in SUBSET Nat
        OBVIOUS
      <3> HIDE DEF Bad
      <3> QED
        BY <3>1, SmallestNat
    <2>2. k \in 1 .. n /\ k - 1 \in 0 .. n /\ k - 1 \notin Bad
      BY <1>2, <2>1
    <2> QED
      BY <1>3, <2>1, <2>2
  <1>5. Good(n)
    <2> HIDE DEF Good
    <2> QED
      BY <1>4
  <1> QED
    BY <1>1, <1>5

\* The repairs of findings nobody owns: each gets a sub-task, and no sub-task
\* loses a file (groupUnownedFindingsForRepair, addFindingRepairSubTasks).
LEMMA RepairsGrow ==
  ASSUME FindingsAssumption, TableOK, NEW p \in Seq(Tasks), NEW u \in SUBSET Defects,
         \A d \in u : File(d) # NoFile
  PROVE  LET r == WithRepairs(p, u) IN
         /\ r \in Seq(Tasks)
         /\ \A i \in DOMAIN p : /\ i \in DOMAIN r /\ p[i].files \subseteq r[i].files
                                /\ p[i].reads \subseteq r[i].reads
         /\ \A d \in u : \E i \in DOMAIN r : File(d) \in r[i].files
  <1> DEFINE n == Cardinality(u)
             q == SetToSeq(u)
             gs == GroupAll(<<>>, q)
             m == Len(gs)
             r == RepairAll(p, gs)
  <1>1. IsFiniteSet(u)
    BY FS_Subset DEF FindingsAssumption
  <1>2. /\ n \in Nat /\ q \in [1 .. n -> u]
        /\ \A d \in u : \E i \in 1 .. n : q[i] = d
    BY <1>1, Listed
  <1>3. DOMAIN q = 1 .. n /\ \A i \in 1 .. n : q[i] \in Defects /\ File(q[i]) # NoFile
    <2> HIDE DEF n, q
    <2> QED
      BY <1>2
  <1>4. <<>> \in Seq(Groups)
    OBVIOUS
  <1>5. /\ gs \in Seq(Groups)
        /\ \A j \in 1 .. n : \E i \in DOMAIN gs : File(q[j]) \in gs[i].files
    <2> HIDE DEF n, q
    <2> QED
      BY <1>2, <1>3, <1>4, AllGrouped
  <1>6. m \in Nat /\ DOMAIN gs = 1 .. m /\ \A i \in 1 .. m : gs[i] \in Groups
    <2> HIDE DEF gs
    <2> QED
      BY <1>5
  <1>7. /\ r \in Seq(Tasks)
        /\ \A i \in DOMAIN p : /\ i \in DOMAIN r /\ p[i].files \subseteq r[i].files
                               /\ p[i].reads \subseteq r[i].reads
        /\ \A j \in 1 .. m : \E i \in DOMAIN r : gs[j].files \subseteq r[i].files
    <2> HIDE DEF gs, m
    <2> QED
      BY <1>6, AllRepaired
  <1>8. ASSUME NEW d \in u PROVE \E i \in DOMAIN r : File(d) \in r[i].files
    <2>1. PICK j \in 1 .. n : q[j] = d
      BY <1>2
    <2>2. PICK i \in DOMAIN gs : File(q[j]) \in gs[i].files
      BY <1>5
    <2>3. PICK k \in DOMAIN r : gs[i].files \subseteq r[k].files
      BY <1>6, <1>7
    <2> QED
      BY <2>1, <2>2, <2>3
  <1>9. r = WithRepairs(p, u)
    BY DEF WithRepairs, RepairAll, GroupAll
  <1> HIDE DEF r
  <1> QED
    BY <1>7, <1>8, <1>9

\* What a routed plan grants is within the files there are.
LEMMA WideningKeeps ==
  ASSUME FindingsAssumption, TableOK, NEW p \in Seq(Tasks), NEW tgt, NEW adopted,
         DOMAIN adopted \subseteq Defects, \A d \in DOMAIN adopted : File(d) # NoFile,
         \A s, d : <<s, d>> \in tgt => d \in Defects /\ File(d) # NoFile
  PROVE  /\ Widening(p, tgt, adopted) \in Seq(Tasks)
         /\ DOMAIN Widening(p, tgt, adopted) = DOMAIN p
  <1> DEFINE w == Widening(p, tgt, adopted)
  <1>1. \A d \in Defects : /\ File(d) \in Files \cup {NoFile}
                           /\ defects[d].related \subseteq Files
    BY DEF TableOK, File, FindingsAssumption
  <1>2. DOMAIN p = 1 .. Len(p) /\ Len(p) \in Nat /\ \A s \in DOMAIN p : p[s] \in Tasks
    OBVIOUS
  <1>3. ASSUME NEW s \in DOMAIN p
        PROVE  /\ Approved(tgt, s) \subseteq Files
               /\ AdoptedBy(adopted, s) \subseteq Files
               /\ GrantsTo(p, tgt, s) \subseteq Files
    <2>1. Approved(tgt, s) \subseteq Files /\ AdoptedBy(adopted, s) \subseteq Files
      BY <1>1 DEF Approved, AdoptedBy
    <2>2. ASSUME NEW d \in Defects PROVE Granted(p, tgt, d) \subseteq Files
      BY <1>1 DEF Granted, Matched, Extras
    <2> QED
      BY <2>1, <2>2 DEF GrantsTo
  <1>4. ASSUME NEW s \in DOMAIN p
        PROVE  [p[s] EXCEPT !.approved = @ \cup Approved(tgt, s),
                            !.files = @ \cup AdoptedBy(adopted, s) \cup GrantsTo(p, tgt, s),
                            !.granted = @ \cup GrantsTo(p, tgt, s)] \in Tasks
    BY <1>2, <1>3 DEF Tasks
  <1>5. w \in [1 .. Len(p) -> Tasks]
    BY <1>2, <1>4 DEF Widening
  <1>6. DOMAIN w = 1 .. Len(p)
    BY <1>2 DEF Widening
  <1>7. w \in Seq(Tasks)
    <2> HIDE DEF w
    <2>1. PICK n \in Nat : n = Len(p)
      BY <1>2
    <2>2. w \in [1 .. n -> Tasks]
      BY <1>5, <2>1
    <2> QED
      BY <2>1, <2>2
  <1> HIDE DEF w
  <1> QED
    BY <1>2, <1>6, <1>7 DEF w

\* Each finding a worker may act on is some sub-task's once findings are routed.
LEMMA RoutedHaveOwner ==
  ASSUME FindingsAssumption, TableOK, PlanOK, NEW first \in SUBSET Misses(plan),
         NEW p, p = WithRepairs(plan, Misses(plan) \ first),
         NEW adopted \in Adoptions(p, first \cap Misses(p)),
         DOMAIN adopted = first \cap Misses(p)
  PROVE  /\ p \in Seq(Tasks)
         /\ \A d \in DOMAIN adopted : d \in Defects /\ File(d) # NoFile
         /\ \A d \in Defects : IsRoutable(d) =>
                \E s \in DOMAIN p : <<s, d>> \in Direct(p, adopted)
         /\ \A s, d : <<s, d>> \in Direct(p, adopted) => d \in Defects /\ File(d) # NoFile
  <1> DEFINE u == Misses(plan) \ first
  <1>1. u \in SUBSET Defects /\ \A d \in u : File(d) # NoFile
    BY DEF Misses, IsRoutable
  <1>2. plan \in Seq(Tasks)
    BY DEF PlanOK
  <1>3. /\ p \in Seq(Tasks)
        /\ \A i \in DOMAIN plan : /\ i \in DOMAIN p /\ plan[i].files \subseteq p[i].files
                                  /\ plan[i].reads \subseteq p[i].reads
        /\ \A d \in u : \E i \in DOMAIN p : File(d) \in p[i].files
    <2> HIDE DEF u
    <2>1. p = WithRepairs(plan, u)
      BY DEF u
    <2> DEFINE r == WithRepairs(plan, u)
    <2>2. /\ r \in Seq(Tasks)
          /\ \A i \in DOMAIN plan : /\ i \in DOMAIN r /\ plan[i].files \subseteq r[i].files
                                    /\ plan[i].reads \subseteq r[i].reads
          /\ \A d \in u : \E i \in DOMAIN r : File(d) \in r[i].files
      BY <1>1, <1>2, RepairsGrow
    <2> HIDE DEF r
    <2>3. p = r
      BY <2>1 DEF r
    <2> QED
      BY <2>2, <2>3
  <1>4. \A d \in DOMAIN adopted : /\ d \in Defects /\ File(d) # NoFile
                                  /\ adopted[d] \in DOMAIN p
    <2>1. \A d \in DOMAIN adopted : d \in Defects /\ File(d) # NoFile
      BY DEF Misses, IsRoutable
    <2>2. PICK ds \in SUBSET (first \cap Misses(p)) :
              adopted \in [ds -> {s \in DOMAIN p : Owned(p, s) # {}}]
      BY DEF Adoptions
    <2> QED
      BY <2>1, <2>2
  <1>5. ASSUME NEW d \in Defects, IsRoutable(d)
        PROVE  \E s \in DOMAIN p : <<s, d>> \in Direct(p, adopted)
    <2>1. CASE d \in DOMAIN adopted
      BY <1>4, <2>1 DEF Direct
    <2>2. CASE Owners(p, d) # {}
      <3>1. PICK s \in Owners(p, d) : TRUE
        BY <2>2
      <3>2. s \in DOMAIN p
        BY <3>1 DEF Owners
      <3> QED
        BY <1>5, <3>1, <3>2 DEF Direct
    <2>3. CASE d \in u
      <3>1. PICK i \in DOMAIN p : File(d) \in p[i].files
        BY <1>3, <2>3
      <3>2. i \in Owners(p, d)
        BY <3>1 DEF Owners, Owned
      <3> QED
        BY <2>2, <3>2
    <2>4. CASE d \notin Misses(plan)
      <3>1. PICK s \in Owners(plan, d) : TRUE
        BY <1>5, <2>4 DEF Misses
      <3>2. s \in Owners(p, d)
        BY <1>3, <3>1 DEF Owners, Owned
      <3> QED
        BY <2>2, <3>2
    <2>5. CASE d \in first /\ d \notin DOMAIN adopted
      <3>1. Owners(p, d) # {}
        BY <1>5, <2>5 DEF Misses
      <3> QED
        BY <2>2, <3>1
    <2> QED
      BY <2>1, <2>3, <2>4, <2>5
  <1>6. \A s, d : <<s, d>> \in Direct(p, adopted) => d \in Defects /\ File(d) # NoFile
    BY <1>4 DEF Direct, IsRoutable
  <1> QED
    BY <1>3, <1>4, <1>5, <1>6

\* A sub-task with a file that a finding names is run.
LEMMA NamedAreRun ==
  ASSUME NEW p, NEW s \in DOMAIN p, NEW d \in Raised, File(d) # NoFile, File(d) \in p[s].files
  PROVE  s \notin Skipped(p)
  <1> DEFINE named == {File(e) : e \in Raised} \ {NoFile}
             keep == {t \in DOMAIN p : p[t].files = {} \/ p[t].files \cap named # {}}
  <1>1. s \in keep
    OBVIOUS
  <1>2. s \in Needed(p, keep)
    <2> HIDE DEF keep
    <2> QED
      BY <1>1 DEF Needed
  <1> QED
    BY <1>2 DEF Skipped

\* The head of a cycle: every finding has its sub-task.
LEMMA RouteWorks ==
  ASSUME FindingsAssumption, TableOK, PlanOK, Route
  PROVE  PlanOK' /\ DefectsAreWorkedOn'
  <1>1. CASE FirstCycle
    <2>1. cycle' = 1
      BY <1>1 DEF Route, FirstCycle
    <2> QED
      BY <1>1, <2>1 DEF FirstCycle, PlanOK, DefectsAreWorkedOn
  <1>2. CASE RouteFindings
    <2>1. PICK first \in SUBSET Misses(plan) :
            LET p == WithRepairs(plan, Misses(plan) \ first) IN
            \E adopted \in Adoptions(p, first \cap Misses(p)) :
                LET tgt == Direct(p, adopted) IN
                /\ DOMAIN adopted = first \cap Misses(p)
                /\ plan' = Widening(p, tgt, adopted)
                /\ carried' = Carriers(p, tgt) /\ assisted' = Assistants(p, tgt)
                /\ skip' = Skipped(plan')
      BY <1>2 DEF RouteFindings
    <2>2. PICK p : p = WithRepairs(plan, Misses(plan) \ first)
      OBVIOUS
    <2>3. PICK adopted \in Adoptions(p, first \cap Misses(p)) :
                /\ DOMAIN adopted = first \cap Misses(p)
                /\ plan' = Widening(p, Direct(p, adopted), adopted)
                /\ carried' = Carriers(p, Direct(p, adopted))
                /\ skip' = Skipped(plan')
      BY <2>1, <2>2
    <2>4. PICK tgt : tgt = Direct(p, adopted)
      OBVIOUS
    <2>5. /\ p \in Seq(Tasks)
          /\ \A d \in DOMAIN adopted : d \in Defects /\ File(d) # NoFile
          /\ \A d \in Defects : IsRoutable(d) => \E s \in DOMAIN p : <<s, d>> \in tgt
          /\ \A s, d : <<s, d>> \in tgt => d \in Defects /\ File(d) # NoFile
      BY <2>2, <2>3, <2>4, RoutedHaveOwner
    <2>6. Widening(p, tgt, adopted) \in Seq(Tasks) /\ DOMAIN Widening(p, tgt, adopted) = DOMAIN p
      BY <2>5, WideningKeeps
    <2>7. plan' \in Seq(Tasks) /\ DOMAIN plan' = DOMAIN p
      BY <2>3, <2>4, <2>6
    <2>8. UNCHANGED <<defects, report>>
      BY DEF Route
    <2>9. ASSUME NEW d \in Defects, IsRoutable(d)
          PROVE  LET by == {s \in DOMAIN plan' : <<s, d>> \in carried'} IN
                 /\ by # {}
                 /\ \A s \in by : File(d) \in plan'[s].files => s \notin skip'
      <3>1. \E s \in DOMAIN plan' : <<s, d>> \in carried'
        BY <2>3, <2>4, <2>5, <2>7, <2>9 DEF Carriers
      <3>2. d \in Raised /\ File(d) # NoFile
        BY <2>9 DEF IsRoutable, IsRoutableLifecycle
      <3>3. ASSUME NEW s \in DOMAIN plan', File(d) \in plan'[s].files
            PROVE  s \notin skip'
        <4>1. PICK w : w = plan'
          OBVIOUS
        <4>2. s \notin Skipped(w)
          BY <3>2, <3>3, <4>1, NamedAreRun
        <4> QED
          BY <2>3, <4>1, <4>2
      <3> QED
        BY <3>1, <3>3
    <2>10. \A d \in Defects : IsRoutable(d)' = IsRoutable(d) /\ File(d)' = File(d)
      BY <2>8 DEF IsRoutable, IsRoutableLifecycle, File, Raised
    <2> QED
      BY <2>7, <2>9, <2>10 DEF PlanOK, DefectsAreWorkedOn
  <1> QED
    BY <1>1, <1>2 DEF Route

\* No step but the head of a cycle changes the plan, or begins its work.
LEMMA PlanNext ==
  ASSUME FindingsAssumption, TableOK, PlanOK, DefectsAreWorkedOn, [FindingsNext]_findingVars
  PROVE  PlanOK' /\ DefectsAreWorkedOn'
  <1>1. CASE Route
    BY <1>1, RouteWorks
  <1>2. CASE Work \/ EarlyExit \/ ScopeBlowout \/ Review \/ RunAgain
    <2>1. plan' = plan /\ phase' # "work"
      <3>1. Review => phase' # "work"
        BY DEF Review, Decide, End
      <3> QED
        BY <1>2, <3>1 DEF Work, EarlyExit, ScopeBlowout, Review, RunAgain, End
    <2> QED
      BY <2>1 DEF PlanOK, DefectsAreWorkedOn
  <1>3. CASE UNCHANGED findingVars
    BY <1>3 DEF findingVars, PlanOK, DefectsAreWorkedOn, IsRoutable, IsRoutableLifecycle, File, Raised
  <1> QED
    BY <1>1, <1>2, <1>3 DEF FindingsNext

\* Every finding that a worker may act on is some sub-task's, and that
\* sub-task runs if the file is its to write (loop.ts, mapFindingsToSubTasks,
\* addFindingRepairSubTasks, adoptOrphanFindings, computeReviseScope).
THEOREM WorkedHolds == FindingsSpec => []DefectsAreWorkedOn
  <1>1. FindingsInit => PlanOK /\ DefectsAreWorkedOn
    BY FindingsAssumption DEF FindingsInit, PlanOK, DefectsAreWorkedOn
  <1>2. TableOK /\ PlanOK /\ DefectsAreWorkedOn /\ [FindingsNext]_findingVars
        => (PlanOK /\ DefectsAreWorkedOn)'
    BY FindingsAssumption, PlanNext
  <1>3. FindingsSpec => []TableOK
    <2>1. IInv => TableOK
      BY DEF IInv
    <2> QED
      BY <2>1, InvHolds, PTL
  <1> QED
    BY <1>1, <1>2, <1>3, PTL DEF FindingsSpec
=============================================================================
