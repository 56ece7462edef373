------------------------ MODULE ProviderTurns_proofs ------------------------
(***************************************************************************)
(* For any sets of sessions, calls and flows: the state is well typed, a   *)
(* session never has two provider turns running, and a settled row is     *)
(* never rewritten.  The fence that beginProviderCall checks speaks of    *)
(* rows; what it protects is turns.  The invariant that ties them is that  *)
(* a running turn, attached or abandoned, has an unresolved row.          *)
(*                                                                         *)
(* Then the ledger: no reported dollar is off the books, and no stretch of *)
(* a provider session's meter is on them twice.  The first is an equation  *)
(* of sums over calls, so the laws of sums come first; then every step is  *)
(* one of four kinds (quiet, reported, booked, begun), and each kind moves *)
(* both sides of the equation alike.                                       *)
(*                                                                         *)
(* Last the turns behind the calls (AgentTurns): a turn that was cut       *)
(* answers nothing, and no cost is billed twice over all the turns that    *)
(* resume a provider session.  Nothing in the state says of which session  *)
(* a billed dollar was; the invariant says that the bill can be split that *)
(* way, B[s] on the books and C[s] held by the call in progress, so that   *)
(* no session is billed more than it accrued.                              *)
(***************************************************************************)
EXTENDS ProviderCalls, AgentTurns, FiniteSetTheorems, WellFoundedInduction, TLAPS

Open == {"started", "unknown"}

\* At most one row of a session is unresolved.
Fence == \A c, d \in Calls :
    row[c].status \in Open /\ row[d].status \in Open /\ row[c].sess = row[d].sess => c = d

\* A turn that still runs has an unresolved row.
Tracked == \A c \in Calls : InFlight(c) => row[c].status \in Open

FenceInv == TypeOK /\ Fence /\ Tracked

\* The constants, as every step below uses them.
LEMMA Constants ==
    /\ Costs \subseteq Nat /\ MaxCrashes \in Nat
    /\ None \notin Sessions /\ None \notin Calls
    /\ None # "worker" /\ None # "adversary" /\ None # "lead"
BY CostsAssumption, BoundsAssumption, NoneAssumption

\* The initial state has neither rows nor turns.
LEMMA InitFence == Init => FenceInv
<1>. SUFFICES ASSUME Init PROVE FenceInv
  OBVIOUS
<1>1. TypeOK
  BY Constants DEF Init, TypeOK
<1>2. Fence /\ Tracked
  BY DEF Init, Fence, Tracked, InFlight, NoRow, Open
<1> QED BY <1>1, <1>2 DEF FenceInv

\* The best-effort status write touches neither rows nor turns.
LEMMA MarkKeeps ==
    ASSUME TypeOK, NEW s \in Sessions, MarkIncomplete(s)
    PROVE  /\ status' \in [Sessions -> {"running", "accounting_incomplete", "done", "failed"}]
           /\ accounting' \in [Sessions -> {"ok", "incomplete"}]
BY DEF TypeOK, MarkIncomplete

\* Settling a row as unknown keeps its session and leaves no row unresolved
\* that was not.
LEMMA UnknownKeeps ==
    ASSUME TypeOK, NEW c \in Calls, row[c] # NoRow, SettleUnknown(c) \/ UNCHANGED row
    PROVE  /\ row' \in [Calls -> [sess : Sessions, role : Roles, cost : Nat,
                          status : {"started", "completed", "unknown"}] \cup {NoRow}]
           /\ \A d \in Calls : row'[d].sess = row[d].sess
           /\ \A d \in Calls : row'[d].status \in Open <=> row[d].status \in Open
           /\ \A d \in Calls : row[d].status # "started" => row'[d] = row[d]
<1>. DEFINE Records == [sess : Sessions, role : Roles, cost : Nat,
                        status : {"started", "completed", "unknown"}]
<1>1. row \in [Calls -> Records \cup {NoRow}] /\ row[c] \in Records
  BY DEF TypeOK
<1>2. CASE UNCHANGED row
  BY <1>1, <1>2
<1>3. CASE row[c].status # "started" /\ SettleUnknown(c)
  BY <1>1, <1>3 DEF SettleUnknown
<1>4. CASE row[c].status = "started" /\ SettleUnknown(c)
  <2>1. row' = [row EXCEPT ![c] = [row[c] EXCEPT !.status = "unknown"]]
    BY <1>1, <1>4 DEF SettleUnknown
  <2>2. [row[c] EXCEPT !.status = "unknown"] \in Records
    BY <1>1
  <2> QED BY <1>1, <1>4, <2>1, <2>2 DEF Open
<1> QED BY <1>2, <1>3, <1>4

\* A turn that runs has a row, hence a session.
LEMMA RowOfTurn ==
    ASSUME FenceInv, NEW c \in Calls, InFlight(c)
    PROVE  row[c] # NoRow /\ row[c].sess \in Sessions
BY Constants DEF FenceInv, TypeOK, Tracked, InFlight, NoRow, Open

FlowRecords == [sess : Sessions, call : Calls \cup {None}, last : Calls \cup {None},
                zombie : BOOLEAN]

\* Handing a result over, or ending those who wait, keeps the flows typed.
LEMMA FlowsKeep ==
    ASSUME TypeOK, NEW c \in Calls, NEW on \in Calls \cup {None}, Resume(c, on) \/ Release(c)
    PROVE  flow' \in [Flows -> FlowRecords \cup {NoFlow}]
<1>1. \A f \in Flows : flow[f] \in FlowRecords \cup {NoFlow}
  BY DEF TypeOK, FlowRecords
<1>2. \A f \in Waiters(c) : flow[f] \in FlowRecords
  BY <1>1 DEF Waiters
<1>3. \A f \in Waiters(c) : [flow[f] EXCEPT !.call = None, !.last = on] \in FlowRecords
  BY <1>2 DEF FlowRecords
<1>4. CASE Resume(c, on)
  BY <1>1, <1>3, <1>4 DEF Resume
<1>5. CASE Release(c)
  BY <1>1, <1>5 DEF Release
<1> QED BY <1>4, <1>5

-----------------------------------------------------------------------------
(* Preservation, one lemma per group of actions                            *)

Settled(c) == row[c].status \in {"completed", "unknown"}
Kept == \A c \in Calls : Settled(c) => row'[c] = row[c]

\* A step that opens no row, starts no turn and closes no row under a turn
\* keeps the fence.
LEMMA FenceKeeps ==
    ASSUME FenceInv,
           \A c \in Calls : row'[c].status \in Open =>
               row[c].status \in Open /\ row'[c].sess = row[c].sess,
           \A c \in Calls : InFlight(c)' => InFlight(c) /\ row'[c].status \in Open
    PROVE  Fence' /\ Tracked'
BY DEF FenceInv, Fence, Tracked

\* So does one that leaves the rows alone.
LEMMA SameRows ==
    ASSUME FenceInv, UNCHANGED row, \A c \in Calls : InFlight(c)' => InFlight(c)
    PROVE  Fence' /\ Tracked' /\ Kept
<1>1. \A c \in Calls : InFlight(c) => row'[c].status \in Open
  BY DEF FenceInv, Tracked
<1>2. Fence' /\ Tracked'
  BY <1>1, FenceKeeps
<1> QED BY <1>2 DEF Kept

\* The actions of a flow that touch no row and no turn.
LEMMA FlowOnly ==
    ASSUME FenceInv, NEW f \in Flows,
           \/ \E s \in Sessions : StartLoop(f, s)
           \/ DispatchRefused(f) \/ RetryTimeout(f) \/ SubTaskDeadline(f) \/ Finalise(f)
    PROVE  FenceInv' /\ Kept
<1>. USE DEF FenceInv
<1>1. /\ UNCHANGED <<row, turn>>
      /\ UNCHANGED <<checkpoint, base, charged, spent, opened, said, crashes>>
  BY DEF StartLoop, DispatchRefused, RetryTimeout, SubTaskDeadline, Finalise
<1>2. Fence' /\ Tracked' /\ Kept
  BY <1>1, SameRows DEF InFlight
<1>3. flow[f] \in FlowRecords \cup {NoFlow}
  BY DEF TypeOK, FlowRecords
<1>4. flow' \in [Flows -> FlowRecords \cup {NoFlow}]
  <2>1. CASE \E s \in Sessions : StartLoop(f, s)
    BY <2>1 DEF StartLoop, TypeOK, FlowRecords
  <2>2. CASE DispatchRefused(f) \/ Finalise(f)
    BY <2>2 DEF DispatchRefused, Finalise, Stop, TypeOK, FlowRecords
  <2>3. CASE RetryTimeout(f)
    <3>1. flow[f] \in FlowRecords
      BY <1>3, <2>3 DEF RetryTimeout, NoFlow
    <3>2. [flow[f] EXCEPT !.call = None] \in FlowRecords
      BY <3>1 DEF FlowRecords
    <3>3. flow' = [flow EXCEPT ![f] = [flow[f] EXCEPT !.call = None]]
      BY <2>3 DEF RetryTimeout
    <3> QED BY <3>2, <3>3 DEF TypeOK, FlowRecords
  <2>4. CASE SubTaskDeadline(f)
    <3>1. flow[f] \in FlowRecords
      BY <1>3, <2>4 DEF SubTaskDeadline
    <3>2. [flow[f] EXCEPT !.zombie = TRUE] \in FlowRecords
      BY <3>1 DEF FlowRecords
    <3>3. flow' = [flow EXCEPT ![f] = [flow[f] EXCEPT !.zombie = TRUE]]
      BY <2>4 DEF SubTaskDeadline
    <3> QED BY <3>2, <3>3 DEF TypeOK, FlowRecords
  <2> QED BY <2>1, <2>2, <2>3, <2>4
<1>5. /\ status' \in [Sessions -> {"running", "accounting_incomplete", "done", "failed"}]
      /\ accounting' \in [Sessions -> {"ok", "incomplete"}]
  <2>1. CASE \E s \in Sessions : StartLoop(f, s)
    BY <2>1 DEF StartLoop, TypeOK
  <2>2. CASE DispatchRefused(f)
    <3>1. flow[f].sess \in Sessions
      BY <1>3, <2>2 DEF DispatchRefused, Idle, FlowRecords
    <3> QED BY <2>2, <3>1, MarkKeeps DEF DispatchRefused
  <2>3. CASE RetryTimeout(f) \/ SubTaskDeadline(f) \/ Finalise(f)
    BY <2>3 DEF RetryTimeout, SubTaskDeadline, Finalise, TypeOK
  <2> QED BY <2>1, <2>2, <2>3
<1>6. TypeOK'
  BY <1>1, <1>4, <1>5 DEF TypeOK, FlowRecords
<1> QED BY <1>2, <1>6

\* A turn that ends, or that a lead or adversary timeout detaches, without a
\* cost: its row becomes unknown or stays as it is.
LEMMA EndsUnmeasured ==
    ASSUME FenceInv, NEW c \in Calls,
           InnerTimeout(c) \/ Unmeasured(c)
    PROVE  FenceInv' /\ Kept
<1>. USE DEF FenceInv
<1>1. row[c] # NoRow /\ row[c].sess \in Sessions
  BY RowOfTurn DEF InnerTimeout, Unmeasured, InFlight
<1>2. /\ SettleUnknown(c) \/ UNCHANGED row
      /\ MarkIncomplete(row[c].sess) /\ Release(c)
      /\ UNCHANGED <<checkpoint, base, charged, spent, opened, said, crashes>>
  BY DEF InnerTimeout, Unmeasured
<1>3. \A d \in Calls : InFlight(d)' => InFlight(d)
  BY DEF InnerTimeout, Unmeasured, InFlight, TypeOK
<1>4. \A d \in Calls : InFlight(d) => row[d].status \in Open
  BY DEF Tracked
<1>5. Fence' /\ Tracked'
  BY <1>1, <1>2, <1>3, <1>4, UnknownKeeps, FenceKeeps
<1>6. Kept
  BY <1>1, <1>2, UnknownKeeps DEF Kept, Settled
<1>7. /\ turn' \in [Calls -> {"idle", "attached", "detached", "reported", "ended"}]
      /\ said' \in [Calls -> Costs \cup {0}]
  BY DEF InnerTimeout, Unmeasured, TypeOK
<1>8. flow' \in [Flows -> FlowRecords \cup {NoFlow}]
  BY <1>2, FlowsKeep
<1>9. TypeOK'
  BY <1>1, <1>2, <1>7, <1>8, UnknownKeeps, MarkKeeps DEF TypeOK, FlowRecords
<1> QED BY <1>5, <1>6, <1>9

\* A report is a cost, a provider session and a baseline.
LEMMA ReportTyped ==
    ASSUME TypeOK, NEW c \in Calls, NEW r \in Reports(c)
    PROVE  /\ r.cost \in Costs /\ r.on \in {opened[c], c}
           /\ r.on \in Calls \cup {None} /\ r.from \in Nat \cup {NoFigure}
<1>1. PICK m \in Costs, p \in {opened[c], c},
           b \in (IF base[c] = NoFigure THEN Costs ELSE {base[c]}) \cup {NoFigure} :
        r = [cost |-> m, on |-> p, from |-> b]
  BY DEF Reports
<1>2. r.cost = m /\ r.on = p /\ r.from = b
  BY <1>1
<1>3. opened[c] \in Calls \cup {None} /\ base[c] \in Nat \cup {NoFigure}
  BY DEF TypeOK
<1> QED BY <1>2, <1>3, Constants

\* A turn that returns a cost is charged while its row is started, and its
\* completion is rolled back when it is not.
LEMMA EndsMeasured ==
    ASSUME FenceInv, NEW c \in Calls, NEW r \in Reports(c), Measured(c, r)
    PROVE  FenceInv' /\ Kept
<1>. USE DEF FenceInv
<1>1. row[c] # NoRow /\ row[c].sess \in Sessions
  BY RowOfTurn DEF Measured, InFlight
<1>2. \A d \in Calls : InFlight(d)' => InFlight(d) /\ d # c
  BY DEF Measured, InFlight, TypeOK
<1>3. \A d \in Calls : InFlight(d) => row[d].status \in Open
  BY DEF Tracked
<1>4. flow' \in [Flows -> FlowRecords \cup {NoFlow}]
  BY FlowsKeep, ReportTyped DEF Measured
<1>5. /\ turn' \in [Calls -> {"idle", "attached", "detached", "reported", "ended"}]
      /\ said' \in [Calls -> Costs \cup {0}]
      /\ UNCHANGED crashes
  BY ReportTyped DEF Measured, TypeOK
<1>6. CASE Charge(c, r)
  <2>1. /\ r.cost \in Nat /\ r.from \in Nat \cup {NoFigure}
        /\ r.on \in Calls \cup {None}
    BY ReportTyped, Constants
  <2>2. row[c] \in [sess : Sessions, role : Roles, cost : Nat,
                    status : {"started", "completed", "unknown"}]
    BY <1>1 DEF TypeOK
  <2>3. row' = [row EXCEPT ![c] = [row[c] EXCEPT !.status = "completed", !.cost = r.cost]]
    BY <1>6 DEF Charge, Book, TypeOK
  <2>4. row'[c] \in [sess : Sessions, role : Roles, cost : Nat,
                     status : {"started", "completed", "unknown"}]
        /\ row'[c].status = "completed"
    BY <2>1, <2>2, <2>3 DEF TypeOK
  <2>5. \A d \in Calls : d # c => row'[d] = row[d]
    BY <2>3 DEF TypeOK
  <2>6. Fence' /\ Tracked'
    BY <1>2, <1>3, <2>4, <2>5, FenceKeeps DEF Open
  <2>7. Kept
    BY <1>6, <2>5 DEF Charge, Bookable, Kept, Settled
  <2>8. row' \in [Calls -> [sess : Sessions, role : Roles, cost : Nat,
                  status : {"started", "completed", "unknown"}] \cup {NoRow}]
    BY <2>3, <2>4, <2>5 DEF TypeOK
  <2>9. /\ charged' \in [Sessions -> Nat] /\ spent' \in Nat
        /\ accounting' \in [Sessions -> {"ok", "incomplete"}] /\ UNCHANGED status
    <3>1. /\ charged' = [charged EXCEPT ![row[c].sess] = charged[row[c].sess] + r.cost]
          /\ spent' = spent + r.cost
          /\ accounting' = [accounting EXCEPT ![row[c].sess] = "ok"] /\ UNCHANGED status
      BY <1>6 DEF Charge, Book
    <3>2. /\ charged \in [Sessions -> Nat] /\ spent \in Nat
          /\ accounting \in [Sessions -> {"ok", "incomplete"}]
      BY DEF TypeOK
    <3>3. charged' \in [Sessions -> Nat] /\ spent' \in Nat
      BY <1>1, <2>1, <3>1, <3>2
    <3> QED BY <3>1, <3>2, <3>3
  <2>10. /\ opened' \in [Calls -> Calls \cup {None}]
         /\ base' \in [Calls -> Nat \cup {NoFigure}]
    BY <1>6, <2>1 DEF Charge, Book, TypeOK
  <2>11. checkpoint' \in [Calls -> Nat \cup {NoFigure}]
    <3>1. CASE r.from = NoFigure
      BY <1>6, <3>1 DEF Charge, Book, TypeOK
    <3>2. CASE r.from # NoFigure
      <4>1. r.from + r.cost \in Nat
        BY <2>1, <3>2
      <4>2. checkpoint' = [checkpoint EXCEPT ![r.on] = r.from + r.cost]
        BY <1>6, <3>2 DEF Charge, Book
      <4> QED BY <4>1, <4>2 DEF TypeOK
    <3> QED BY <3>1, <3>2
  <2>12. TypeOK'
    BY <1>4, <1>5, <2>8, <2>9, <2>10, <2>11 DEF TypeOK, FlowRecords
  <2> QED BY <2>6, <2>7, <2>12
<1>7. CASE MarkIncomplete(row[c].sess)
           /\ UNCHANGED <<row, checkpoint, base, charged, spent, opened>>
  <2>1. TypeOK'
    BY <1>1, <1>4, <1>5, <1>7, MarkKeeps DEF TypeOK, FlowRecords
  <2> QED BY <1>2, <1>7, <2>1, SameRows
<1> QED BY <1>6, <1>7 DEF Measured

\* A turn nobody listens to ends, or the process dies.
LEMMA TurnsOnly ==
    ASSUME FenceInv, Crash \/ \E c \in Calls : DetachedEnds(c)
    PROVE  FenceInv' /\ Kept
<1>. USE DEF FenceInv
<1>1. UNCHANGED row /\ \A d \in Calls : InFlight(d)' => InFlight(d)
  BY DEF Crash, DetachedEnds, InFlight, TypeOK
<1>2. Fence' /\ Tracked' /\ Kept
  BY <1>1, SameRows
<1>3. TypeOK'
  <2>1. CASE Crash
    BY <2>1, Constants DEF Crash, TypeOK
  <2>2. CASE \E c \in Calls : DetachedEnds(c)
    BY <2>2 DEF DetachedEnds, TypeOK
  <2> QED BY <2>1, <2>2
<1> QED BY <1>2, <1>3

\* A worker's first turn is given up from outside: its row becomes unknown or
\* stays as it is, and the turn runs on.
LEMMA WorkerGivenUp ==
    ASSUME FenceInv, NEW f \in Flows, WorkerTimeout(f)
    PROVE  FenceInv' /\ Kept
<1>. USE DEF FenceInv
<1>. DEFINE c == flow[f].call
<1>1. flow[f] \in FlowRecords \cup {NoFlow} /\ c # None
  BY DEF TypeOK, FlowRecords, WorkerTimeout
<1>2. flow[f] \in FlowRecords /\ c \in Calls
  BY <1>1 DEF FlowRecords, NoFlow
<1>3. row[c] # NoRow /\ row[c].sess \in Sessions
  BY <1>2, Constants DEF WorkerTimeout, TypeOK, NoRow
<1>4. /\ SettleUnknown(c) \/ UNCHANGED row
      /\ MarkIncomplete(row[c].sess) \/ UNCHANGED <<status, accounting>>
      /\ UNCHANGED <<checkpoint, base, charged, spent, turn, opened, said, crashes>>
  BY DEF WorkerTimeout
<1>5. Fence' /\ Tracked'
  <2>1. \A d \in Calls : InFlight(d)' => InFlight(d) /\ row[d].status \in Open
    BY <1>4 DEF InFlight, Tracked
  <2> QED BY <1>2, <1>3, <1>4, <2>1, UnknownKeeps, FenceKeeps
<1>6. Kept
  BY <1>2, <1>3, <1>4, UnknownKeeps DEF Kept, Settled
<1>7. flow' \in [Flows -> FlowRecords \cup {NoFlow}]
  <2>1. [flow[f] EXCEPT !.call = None] \in FlowRecords
    BY <1>2 DEF FlowRecords
  <2>2. flow' = [flow EXCEPT ![f] = NoFlow]
        \/ flow' = [flow EXCEPT ![f] = [flow[f] EXCEPT !.call = None]]
    BY DEF WorkerTimeout, Stop
  <2> QED BY <2>1, <2>2 DEF TypeOK, FlowRecords
<1>8. /\ status' \in [Sessions -> {"running", "accounting_incomplete", "done", "failed"}]
      /\ accounting' \in [Sessions -> {"ok", "incomplete"}]
  BY <1>3, <1>4, MarkKeeps DEF TypeOK
<1>9. row' \in [Calls -> [sess : Sessions, role : Roles, cost : Nat,
                status : {"started", "completed", "unknown"}] \cup {NoRow}]
  BY <1>2, <1>3, <1>4, UnknownKeeps
<1>10. TypeOK'
  BY <1>4, <1>7, <1>8, <1>9 DEF TypeOK, FlowRecords
<1> QED BY <1>5, <1>6, <1>10

\* A new turn starts only over a session with no unresolved row, hence with no
\* running turn: this is where the fence is needed.
LEMMA Begins ==
    ASSUME FenceInv, NEW f \in Flows, NEW r \in Roles, NEW resume \in BOOLEAN,
           BeginProviderCall(f, r, resume)
    PROVE  FenceInv' /\ Kept
<1>. USE DEF FenceInv
<1>. DEFINE s == flow[f].sess
<1>1. PICK c \in Calls :
        /\ row[c] = NoRow
        /\ row' = [row EXCEPT ![c] = [sess |-> s, role |-> r, status |-> "started", cost |-> 0]]
        /\ turn' = [turn EXCEPT ![c] = "attached"]
        /\ opened' = [opened EXCEPT ![c] = IF resume THEN flow[f].last ELSE c]
        /\ base' = [base EXCEPT ![c] = IF resume THEN checkpoint[flow[f].last] ELSE 0]
        /\ flow' = [flow EXCEPT ![f].call = c]
  BY DEF BeginProviderCall
<1>2. flow[f] \in FlowRecords
  BY DEF BeginProviderCall, Idle, TypeOK, FlowRecords
<1>3. s \in Sessions /\ (resume => flow[f].last \in Calls)
  BY <1>2 DEF FlowRecords, BeginProviderCall
<1>4. row'[c] = [sess |-> s, role |-> r, status |-> "started", cost |-> 0]
      /\ \A d \in Calls : d # c => row'[d] = row[d]
  BY <1>1 DEF TypeOK
<1>5. \A d \in Calls : row[d].status \in Open => row[d].sess # s
  BY DEF BeginProviderCall, Unresolved, Of, Open
<1>6. Fence'
  BY <1>4, <1>5 DEF Fence
<1>7. Tracked'
  BY <1>1, <1>4 DEF Tracked, InFlight, TypeOK, Open
<1>8. Kept
  BY <1>1, <1>4 DEF Kept, Settled, NoRow
<1>9. flow' \in [Flows -> FlowRecords \cup {NoFlow}]
  <2>1. [flow[f] EXCEPT !.call = c] \in FlowRecords
    BY <1>2 DEF FlowRecords
  <2>2. flow' = [flow EXCEPT ![f] = [flow[f] EXCEPT !.call = c]]
    BY <1>1
  <2> QED BY <2>1, <2>2 DEF TypeOK, FlowRecords
<1>10. /\ opened' \in [Calls -> Calls \cup {None}]
       /\ base' \in [Calls -> Nat \cup {NoFigure}]
       /\ turn' \in [Calls -> {"idle", "attached", "detached", "reported", "ended"}]
  BY <1>1, <1>3 DEF TypeOK
<1>11. row' \in [Calls -> [sess : Sessions, role : Roles, cost : Nat,
                 status : {"started", "completed", "unknown"}] \cup {NoRow}]
  BY <1>1, <1>3, <1>4 DEF TypeOK
<1>12. /\ accounting' \in [Sessions -> {"ok", "incomplete"}]
       /\ UNCHANGED <<checkpoint, status, charged, spent, said, crashes>>
  BY DEF BeginProviderCall, TypeOK
<1>13. TypeOK'
  BY <1>9, <1>10, <1>11, <1>12 DEF TypeOK, FlowRecords
<1> QED BY <1>6, <1>7, <1>8, <1>13

\* Every step keeps the invariant and every settled row.
LEMMA NextKeeps == FenceInv /\ [Next]_vars => FenceInv' /\ Kept
<1>. SUFFICES ASSUME FenceInv, [Next]_vars PROVE FenceInv' /\ Kept
  OBVIOUS
<1>1. ASSUME NEW f \in Flows, FlowStep(f) PROVE FenceInv' /\ Kept
  BY <1>1, FlowOnly, Begins, WorkerGivenUp DEF FlowStep
<1>2. ASSUME NEW c \in Calls, TurnStep(c) PROVE FenceInv' /\ Kept
  BY <1>2, EndsMeasured, EndsUnmeasured, TurnsOnly DEF TurnStep
<1>3. CASE Crash
  BY <1>3, TurnsOnly
<1>4. CASE UNCHANGED vars
  BY <1>4 DEF vars, FenceInv, TypeOK, Fence, Tracked, InFlight, Kept
<1> QED BY <1>1, <1>2, <1>3, <1>4 DEF Next

-----------------------------------------------------------------------------
(* Sums.  The library's induction theorems take an operator, which no prover *)
(* here instantiates; a smallest counterexample is a set, and serves as well. *)

\* A set of numbers that is not empty has a least one.
LEMMA SmallestNat ==
    ASSUME NEW N \in SUBSET Nat, N # {}
    PROVE  \E n \in N : \A m \in N : n <= m
<1>1. IsWellFoundedOn(OpToRel(<, Nat), Nat)
  BY NatLessThanWellFounded
<1>2. PICK n \in N : \A m \in N : <<m, n>> \notin OpToRel(<, Nat)
  BY <1>1, WFMin
<1>3. \A m \in N : ~(m < n)
  BY <1>2 DEF OpToRel
<1> QED BY <1>3

\* Of some subsets of a finite set, one has no other below it.
LEMMA SmallestSubset ==
    ASSUME NEW S, IsFiniteSet(S), NEW B \in SUBSET SUBSET S, B # {}
    PROVE  \E T \in B : \A U \in SUBSET T : U # T => U \notin B
<1>1. IsWellFoundedOn(StrictSubsetOrdering(S), SUBSET S)
  BY FS_StrictSubsetOrderingWellFounded, FS_FiniteSubsetsOfFinite
<1>2. PICK T \in B : \A U \in B : <<U, T>> \notin StrictSubsetOrdering(S)
  BY <1>1, WFMin
<1> QED BY <1>2 DEF StrictSubsetOrdering

\* The fold behind Sum: it adds the picked element to the sum of the rest.
Pick(s) == CHOOSE x \in s : TRUE
SumStep(f, g, s) == IF s = {} THEN 0 ELSE f[Pick(s)] + g[s \ {Pick(s)}]
Summing(f, S) == CHOOSE g : g = [s \in SUBSET S |-> SumStep(f, g, s)]

\* Sum is that fold, read at the whole set.
LEMMA SumDef ==
  ASSUME NEW f, NEW S
  PROVE Sum(f, S) = Summing(f, S)[S]
BY DEF Sum, MapThenSumSet, MapThenFoldSet, Summing, SumStep, Pick

\* What is picked is there.
LEMMA Picked == \A s : s # {} => Pick(s) \in s
BY DEF Pick

\* There is such a fold: one that is right up to n elements can be made right up to
\* n + 1, so no number is the least for which there is none.
LEMMA SummingExists ==
    ASSUME NEW f, NEW S, IsFiniteSet(S)
    PROVE  \E g : g = [s \in SUBSET S |-> SumStep(f, g, s)]
<1>. DEFINE Good(n, g) == \A s \in SUBSET S : Cardinality(s) <= n => g[s] = SumStep(f, g, s)
<1>. DEFINE Bad == {n \in Nat : \A g : ~Good(n, g)}
<1>1. \A s \in SUBSET S : IsFiniteSet(s) /\ Cardinality(s) \in Nat
  BY FS_Subset, FS_CardinalityType
<1>2. Good(0, [s \in SUBSET S |-> 0])
  BY <1>1, FS_EmptySet DEF SumStep
<1>3. ASSUME NEW n \in Nat, NEW g, Good(n, g)
      PROVE  \E h : Good(n + 1, h)
  <2>. DEFINE h == [s \in SUBSET S |-> IF Cardinality(s) <= n THEN g[s] ELSE SumStep(f, g, s)]
  <2>1. ASSUME NEW s \in SUBSET S, Cardinality(s) <= n + 1
        PROVE  h[s] = SumStep(f, h, s)
    <3>1. CASE s = {}
      <4>1. Cardinality(s) <= n
        BY <3>1, FS_EmptySet
      <4>2. h[s] = g[s]
        BY <4>1
      <4>3. g[s] = SumStep(f, g, s)
        BY <1>3, <4>1
      <4> QED BY <3>1, <4>2, <4>3 DEF SumStep
    <3>2. CASE s # {}
      <4>. DEFINE t == s \ {Pick(s)}
      <4>1. t \in SUBSET S /\ Cardinality(t) <= n
        BY <1>1, <2>1, <3>2, Picked, FS_RemoveElement
      <4>2. h[t] = g[t]
        BY <4>1
      <4>3. h[s] = SumStep(f, g, s)
        BY <1>3
      <4> QED BY <3>2, <4>2, <4>3 DEF SumStep
    <3> QED BY <3>1, <3>2
  <2> QED BY <2>1
<1>4. Bad = {}
  <2>. SUFFICES ASSUME Bad # {} PROVE FALSE
    OBVIOUS
  <2>. HIDE DEF Good
  <2>1. PICK n \in Bad : \A m \in Bad : n <= m
    BY SmallestNat
  <2>2. n # 0
    BY <1>2
  <2>3. n - 1 \in Nat /\ n - 1 \notin Bad
    BY <2>1, <2>2
  <2>4. PICK g : Good(n - 1, g)
    BY <2>3
  <2> QED BY <1>3, <2>3, <2>4, n - 1 + 1 = n
<1>5. PICK g : Good(Cardinality(S), g)
  BY <1>1, <1>4
<1>. DEFINE h == [s \in SUBSET S |-> g[s]]
<1>6. ASSUME NEW s \in SUBSET S PROVE h[s] = SumStep(f, h, s)
  <2>1. g[s] = SumStep(f, g, s)
    BY <1>1, <1>5, FS_Subset
  <2>2. s \ {Pick(s)} \in SUBSET S
    OBVIOUS
  <2> QED BY <2>1, <2>2 DEF SumStep
<1>7. h = [s \in SUBSET S |-> SumStep(f, h, s)]
  BY <1>6
<1> QED BY <1>7

\* Hence the chosen one is a fold.
LEMMA SummingStep ==
    ASSUME NEW f, NEW S, IsFiniteSet(S), NEW s \in SUBSET S
    PROVE  Summing(f, S)[s] = SumStep(f, Summing(f, S), s)
<1>1. Summing(f, S) = [t \in SUBSET S |-> SumStep(f, Summing(f, S), t)]
  BY SummingExists DEF Summing
<1> QED BY <1>1

\* The sum over a part of a set is a value of the set's function.
LEMMA SumOfPart ==
    ASSUME NEW f, NEW S, IsFiniteSet(S), NEW T \in SUBSET S
    PROVE  Sum(f, T) = Summing(f, S)[T]
<1>. DEFINE Bad == {U \in SUBSET T : Summing(f, T)[U] # Summing(f, S)[U]}
<1>1. IsFiniteSet(T)
  BY FS_Subset
<1>2. Bad = {}
  <2>. SUFFICES ASSUME Bad # {} PROVE FALSE
    OBVIOUS
  <2>0. Bad \in SUBSET SUBSET T
    OBVIOUS
  <2>1. PICK U \in Bad : \A V \in SUBSET U : V # U => V \notin Bad
    <3>. HIDE DEF Bad
    <3> QED BY <1>1, <2>0, SmallestSubset
  <2>2. /\ Summing(f, T)[U] = SumStep(f, Summing(f, T), U)
        /\ Summing(f, S)[U] = SumStep(f, Summing(f, S), U)
    BY <1>1, SummingStep
  <2>3. U # {}
    BY <2>1, <2>2 DEF SumStep
  <2>4. U \ {Pick(U)} \in SUBSET U /\ U \ {Pick(U)} # U /\ U \ {Pick(U)} \in SUBSET T
    BY <2>3, Picked
  <2>5. Summing(f, T)[U \ {Pick(U)}] = Summing(f, S)[U \ {Pick(U)}]
    BY <2>1, <2>4
  <2> QED BY <2>1, <2>2, <2>3, <2>5 DEF SumStep
<1> QED BY <1>2, SumDef

\* A sum is the picked value and the sum of the rest.
LEMMA SumRec ==
    ASSUME NEW f, NEW S, IsFiniteSet(S)
    PROVE  Sum(f, S) = IF S = {} THEN 0 ELSE f[Pick(S)] + Sum(f, S \ {Pick(S)})
<1>1. Sum(f, S) = SumStep(f, Summing(f, S), S)
  BY SumDef, SummingStep
<1>2. Sum(f, S \ {Pick(S)}) = Summing(f, S)[S \ {Pick(S)}]
  BY SumOfPart
<1> QED BY <1>1, <1>2 DEF SumStep

\* A sum of numbers is a number.
LEMMA SumNat ==
    ASSUME NEW f, NEW S, IsFiniteSet(S), \A x \in S : f[x] \in Nat
    PROVE  Sum(f, S) \in Nat
<1>. DEFINE Bad == {T \in SUBSET S : Sum(f, T) \notin Nat}
<1>. SUFFICES ASSUME Bad # {} PROVE FALSE
  OBVIOUS
<1>0. Bad \in SUBSET SUBSET S
  OBVIOUS
<1>1. PICK T \in Bad : \A U \in SUBSET T : U # T => U \notin Bad
  <2>. HIDE DEF Bad
  <2> QED BY <1>0, SmallestSubset
<1>2. Sum(f, T) = IF T = {} THEN 0 ELSE f[Pick(T)] + Sum(f, T \ {Pick(T)})
  BY SumRec, FS_Subset
<1>3. T # {} /\ Pick(T) \in T
  BY <1>1, <1>2, Picked
<1>4. Sum(f, T \ {Pick(T)}) \in Nat
  BY <1>1, <1>3
<1> QED BY <1>1, <1>2, <1>3, <1>4

\* Equal values have equal sums.
LEMMA SumSame ==
    ASSUME NEW f, NEW g, NEW S, IsFiniteSet(S), \A x \in S : f[x] = g[x]
    PROVE  Sum(f, S) = Sum(g, S)
<1>. DEFINE Bad == {T \in SUBSET S : Sum(f, T) # Sum(g, T)}
<1>. SUFFICES ASSUME Bad # {} PROVE FALSE
  OBVIOUS
<1>0. Bad \in SUBSET SUBSET S
  OBVIOUS
<1>1. PICK T \in Bad : \A U \in SUBSET T : U # T => U \notin Bad
  <2>. HIDE DEF Bad
  <2> QED BY <1>0, SmallestSubset
<1>2. /\ Sum(f, T) = IF T = {} THEN 0 ELSE f[Pick(T)] + Sum(f, T \ {Pick(T)})
      /\ Sum(g, T) = IF T = {} THEN 0 ELSE g[Pick(T)] + Sum(g, T \ {Pick(T)})
  BY SumRec, FS_Subset
<1>3. T # {} /\ Pick(T) \in T
  BY <1>1, <1>2, Picked
<1>4. Sum(f, T \ {Pick(T)}) = Sum(g, T \ {Pick(T)})
  BY <1>1, <1>3
<1> QED BY <1>1, <1>2, <1>3, <1>4

\* Any element may be taken out of a sum first, not only the picked one.
LEMMA SumSplit ==
    ASSUME NEW f, NEW S, IsFiniteSet(S), \A x \in S : f[x] \in Nat, NEW x \in S
    PROVE  Sum(f, S) = f[x] + Sum(f, S \ {x})
<1>. DEFINE Good(T) == \A y \in T : Sum(f, T) = f[y] + Sum(f, T \ {y})
<1>. DEFINE Bad == {T \in SUBSET S : ~Good(T)}
<1>. SUFFICES ASSUME Bad # {} PROVE FALSE
  OBVIOUS
<1>0. Bad \in SUBSET SUBSET S
  OBVIOUS
<1>1. PICK T \in Bad : \A U \in SUBSET T : U # T => U \notin Bad
  <2>. HIDE DEF Bad
  <2> QED BY <1>0, SmallestSubset
<1>2. PICK y \in T : Sum(f, T) # f[y] + Sum(f, T \ {y})
  BY <1>1
<1>. DEFINE p == Pick(T)
<1>3. \A U \in SUBSET S : IsFiniteSet(U) /\ Sum(f, U) \in Nat
  BY FS_Subset, SumNat
<1>4. p \in T /\ Sum(f, T) = f[p] + Sum(f, T \ {p})
  BY <1>2, <1>3, SumRec, Picked
<1>5. p # y
  BY <1>2, <1>4
<1>6. Good(T \ {p}) /\ Good(T \ {y})
  BY <1>1, <1>2, <1>4
<1>7. Sum(f, T \ {p}) = f[y] + Sum(f, (T \ {p}) \ {y})
  BY <1>2, <1>5, <1>6
<1>8. Sum(f, T \ {y}) = f[p] + Sum(f, (T \ {y}) \ {p})
  BY <1>4, <1>5, <1>6
<1>9. (T \ {p}) \ {y} = (T \ {y}) \ {p} /\ (T \ {p}) \ {y} \in SUBSET S
  OBVIOUS
<1>10. f[p] \in Nat /\ f[y] \in Nat /\ Sum(f, (T \ {p}) \ {y}) \in Nat
  BY <1>2, <1>3, <1>4, <1>9
<1>11. Sum(f, T) = f[p] + (f[y] + Sum(f, (T \ {p}) \ {y}))
  BY <1>4, <1>7
<1>12. f[y] + Sum(f, T \ {y}) = f[y] + (f[p] + Sum(f, (T \ {p}) \ {y}))
  BY <1>8, <1>9
<1>. HIDE DEF p
<1> QED BY <1>2, <1>10, <1>11, <1>12

\* Changing one value moves the sum by the difference.
LEMMA SumMoves ==
    ASSUME NEW f, NEW g, NEW S, IsFiniteSet(S), NEW x \in S,
           \A y \in S : f[y] \in Nat /\ g[y] \in Nat,
           \A y \in S : y # x => g[y] = f[y]
    PROVE  /\ Sum(g, S) + f[x] = Sum(f, S) + g[x]
           /\ Sum(f, S) \in Nat /\ Sum(g, S) \in Nat
<1>1. Sum(f, S \ {x}) = Sum(g, S \ {x}) /\ Sum(f, S \ {x}) \in Nat
  <2>1. IsFiniteSet(S \ {x})
    BY FS_Subset
  <2> QED BY <2>1, SumSame, SumNat
<1>2. Sum(f, S) = f[x] + Sum(f, S \ {x}) /\ Sum(g, S) = g[x] + Sum(g, S \ {x})
  BY SumSplit
<1> QED BY <1>1, <1>2

-----------------------------------------------------------------------------
\* Nothing was reported of a call that never ran, or still runs.
Unsaid == \A c \in Calls : row[c] = NoRow \/ InFlight(c) => said[c] = 0

\* A call has a row exactly if it belongs to a provider session.  The call that
\* opened one opened no other, is of the same session of ours, and completed
\* before anything resumed it.
Chained == \A c \in Calls :
    /\ row[c] = NoRow <=> opened[c] = None
    /\ opened[c] \in Calls => /\ opened[opened[c]] = opened[c]
                              /\ row[opened[c]].sess = row[c].sess
    /\ opened[c] \in Calls \ {c} => row[opened[c]].status = "completed"

\* What a flow may resume is a provider session of its own session, whose
\* opening call completed; what it waits for is a call of its own session.
LastDone == \A f \in Flows :
    LET p == flow[f].last IN
    /\ p # None => /\ row[p].status = "completed" /\ opened[p] = p
                   /\ row[p].sess = flow[f].sess
    /\ flow[f].call # None => row[flow[f].call].sess = flow[f].sess

\* A completed call is one whose turn reported.
Heard == \A c \in Calls : row[c].status = "completed" => turn[c] = "reported"

\* The inductive invariant of the books.
BookInv == FenceInv /\ Unsaid /\ Chained /\ LastDone /\ Heard

-----------------------------------------------------------------------------
\* What a step does to rows, turns and reports, one operator per kind.
SameSessions == \A d \in Calls :
    row'[d].sess = row[d].sess /\ (row'[d] = NoRow <=> row[d] = NoRow)
SameOpen == \A d \in Calls :
    /\ row'[d].status \in Open <=> row[d].status \in Open
    /\ row'[d].status = "completed" <=> row[d].status = "completed"
    /\ row'[d].status = "started" => row[d].status = "started"
NoneStarts == \A d \in Calls :
    (InFlight(d)' => InFlight(d)) /\ (turn[d] = "reported" => turn'[d] = "reported")
KeepsLast == \A f \in Flows :
    /\ flow'[f].last # None => flow'[f].last = flow[f].last /\ flow'[f].sess = flow[f].sess
    /\ flow'[f].call # None => flow'[f].call = flow[f].call /\ flow'[f].sess = flow[f].sess

\* Nothing is reported, nothing booked.
Quiet == /\ SameSessions /\ SameOpen /\ NoneStarts /\ KeepsLast
         /\ UNCHANGED <<said, charged, spent, checkpoint, base, opened>>

\* The turn of c is reported and nothing is booked.
Reported(c, b) ==
    /\ SameSessions /\ SameOpen /\ NoneStarts /\ KeepsLast
    /\ InFlight(c) /\ ~InFlight(c)' /\ said' = [said EXCEPT ![c] = b]
    /\ UNCHANGED <<charged, spent, checkpoint, base, opened>>

\* The turn of c is reported and its row settled with its cost.
Booked(c, r) ==
    LET s == row[c].sess IN
    /\ SameSessions /\ NoneStarts
    /\ InFlight(c) /\ turn'[c] = "reported" /\ said' = [said EXCEPT ![c] = r.cost]
    /\ row[c].status = "started" /\ row'[c].status = "completed" /\ row'[c].cost = r.cost
    /\ \A d \in Calls \ {c} : row'[d] = row[d]
    /\ \A f \in Flows :
         \/ flow'[f] = flow[f]
         \/ flow'[f].call = None /\ flow[f].call = c /\ flow'[f].last = r.on
            /\ flow'[f].sess = flow[f].sess
    /\ r.from # NoFigure => checkpoint[r.on] \in {NoFigure, r.from}
    /\ charged' = [charged EXCEPT ![s] = charged[s] + r.cost] /\ spent' = spent + r.cost
    /\ opened' = [opened EXCEPT ![c] = r.on] /\ base' = [base EXCEPT ![c] = r.from]
    /\ checkpoint' = IF r.from = NoFigure THEN checkpoint
                     ELSE [checkpoint EXCEPT ![r.on] = r.from + r.cost]

\* A call of flow f begins, in a provider session of its own or in the last one
\* of its flow.
Begun(c, f) ==
    /\ row[c] = NoRow /\ row'[c].sess = flow[f].sess /\ row'[c].status = "started"
    /\ \A d \in Calls \ {c} : /\ row'[d] = row[d] /\ opened'[d] = opened[d]
                               /\ base'[d] = base[d]
                               /\ turn'[d] = turn[d]
    /\ \A g \in Flows : flow'[g].last = flow[g].last /\ flow'[g].sess = flow[g].sess
                        /\ (g # f => flow'[g].call = flow[g].call)
    /\ flow'[f].call = c
    /\ \/ opened'[c] = c
       \/ flow[f].last \in Calls /\ opened'[c] = flow[f].last /\ base'[c] = checkpoint[flow[f].last]
    /\ UNCHANGED <<said, charged, spent, checkpoint>>

Shaped ==
    \/ Quiet
    \/ \E c \in Calls : \E r \in Reports(c) : Reported(c, r.cost) \/ Booked(c, r)
    \/ \E c \in Calls, f \in Flows : flow[f] \in FlowRecords /\ Begun(c, f)

\* Settling as unknown neither books nor frees a row.
LEMMA UnknownShape ==
    ASSUME TypeOK, NEW c \in Calls, row[c] # NoRow, SettleUnknown(c) \/ UNCHANGED row
    PROVE  SameSessions /\ SameOpen
BY DEF TypeOK, SettleUnknown, NoRow, Open, SameSessions, SameOpen

\* A flow that ends takes its last call with it.
LEMMA LastKept ==
    ASSUME TypeOK, NEW c \in Calls, Release(c)
    PROVE  KeepsLast
BY DEF TypeOK, Release, KeepsLast, NoFlow

\* Starting, ending and giving up a flow is quiet.
LEMMA FlowShape ==
    ASSUME BookInv, NEW f \in Flows,
           \/ \E s \in Sessions : StartLoop(f, s)
           \/ DispatchRefused(f) \/ RetryTimeout(f) \/ SubTaskDeadline(f) \/ Finalise(f)
    PROVE  Quiet
<1>. USE DEF BookInv, FenceInv
<1>1. UNCHANGED <<row, turn, said, charged, spent, checkpoint, base, opened>>
  BY DEF StartLoop, DispatchRefused, RetryTimeout, SubTaskDeadline, Finalise
<1>2. SameSessions /\ SameOpen /\ NoneStarts
  BY <1>1 DEF SameSessions, SameOpen, NoneStarts, InFlight
<1>3. KeepsLast
  <2>1. flow[f] \in FlowRecords \cup {NoFlow}
    BY DEF TypeOK, FlowRecords
  <2>2. \A g \in Flows \ {f} : flow'[g] = flow[g]
    BY DEF TypeOK, StartLoop, DispatchRefused, RetryTimeout, SubTaskDeadline, Finalise, Stop
  <2>3. /\ flow'[f].last # None => flow'[f].last = flow[f].last /\ flow'[f].sess = flow[f].sess
        /\ flow'[f].call # None => flow'[f].call = flow[f].call /\ flow'[f].sess = flow[f].sess
    BY <2>1 DEF TypeOK, StartLoop, DispatchRefused, RetryTimeout, SubTaskDeadline, Finalise, Stop,
                NoFlow, FlowRecords
  <2> QED BY <2>2, <2>3 DEF KeepsLast
<1> QED BY <1>1, <1>2, <1>3 DEF Quiet

\* A turn without a usable cost reports nothing.
LEMMA UnmeasuredShape ==
    ASSUME BookInv, NEW c \in Calls,
           InnerTimeout(c) \/ Unmeasured(c)
    PROVE  Quiet
<1>. USE DEF BookInv, FenceInv
<1>1. row[c] # NoRow
  BY RowOfTurn DEF InnerTimeout, Unmeasured, InFlight
<1>2. SameSessions /\ SameOpen
  BY <1>1, UnknownShape DEF InnerTimeout, Unmeasured
<1>3. KeepsLast
  BY LastKept DEF InnerTimeout, Unmeasured
<1>4. NoneStarts
  BY DEF InnerTimeout, Unmeasured, InFlight, TypeOK, NoneStarts
<1> QED BY <1>2, <1>3, <1>4 DEF InnerTimeout, Unmeasured, Quiet

\* A measured turn is reported and booked, or rolled back.
LEMMA MeasuredShape ==
    ASSUME BookInv, NEW c \in Calls, NEW r \in Reports(c), Measured(c, r)
    PROVE  Reported(c, r.cost) \/ Booked(c, r)
<1>. USE DEF BookInv, FenceInv
<1>1. row[c] # NoRow
  BY RowOfTurn DEF Measured, InFlight
<1>2. /\ NoneStarts /\ InFlight(c) /\ ~InFlight(c)' /\ turn'[c] = "reported"
      /\ said' = [said EXCEPT ![c] = r.cost]
  BY DEF Measured, InFlight, TypeOK, NoneStarts
<1>3. CASE Charge(c, r) /\ Resume(c, r.on)
  <2>1. /\ row' = [row EXCEPT ![c] = [row[c] EXCEPT !.status = "completed", !.cost = r.cost]]
        /\ row[c].status = "started"
    BY <1>3 DEF Charge, Bookable, Book, TypeOK
  <2>2. row[c] \in [sess : Sessions, role : Roles, cost : Nat,
                    status : {"started", "completed", "unknown"}]
    BY <1>1 DEF TypeOK
  <2>3. row'[c].sess = row[c].sess /\ row'[c].status = "completed" /\ row'[c].cost = r.cost
        /\ \A d \in Calls \ {c} : row'[d] = row[d]
    BY <2>1, <2>2 DEF TypeOK
  <2>4. SameSessions
    BY <1>1, <2>3 DEF SameSessions, NoRow
  <2>5. ASSUME NEW f \in Flows
        PROVE  \/ flow'[f] = flow[f]
               \/ /\ flow'[f].call = None /\ flow[f].call = c /\ flow'[f].last = r.on
                  /\ flow'[f].sess = flow[f].sess
    <3>1. CASE f \notin Waiters(c)
      BY <1>3, <3>1 DEF Resume
    <3>2. CASE f \in Waiters(c)
      <4>1. flow[f] \in FlowRecords /\ flow[f].call = c
        BY <3>2 DEF Waiters, TypeOK, FlowRecords
      <4>2. flow'[f] = [flow[f] EXCEPT !.call = None, !.last = r.on]
        BY <1>3, <3>2 DEF Resume
      <4> QED BY <4>1, <4>2 DEF FlowRecords
    <3> QED BY <3>1, <3>2
  <2>6. /\ charged' = [charged EXCEPT ![row[c].sess] = charged[row[c].sess] + r.cost]
        /\ spent' = spent + r.cost
        /\ r.from # NoFigure => checkpoint[r.on] \in {NoFigure, r.from}
        /\ opened' = [opened EXCEPT ![c] = r.on] /\ base' = [base EXCEPT ![c] = r.from]
        /\ checkpoint' = IF r.from = NoFigure THEN checkpoint
                         ELSE [checkpoint EXCEPT ![r.on] = r.from + r.cost]
    BY <1>3 DEF Charge, Bookable, Book
  <2> QED BY <1>2, <2>1, <2>3, <2>4, <2>5, <2>6 DEF Booked
<1>4. CASE Release(c) /\ UNCHANGED <<row, checkpoint, base, charged, spent, opened>>
  <2>1. SameSessions /\ SameOpen
    BY <1>4 DEF SameSessions, SameOpen
  <2>2. KeepsLast
    BY <1>4, LastKept
  <2> QED BY <1>2, <1>4, <2>1, <2>2 DEF Reported
<1> QED BY <1>3, <1>4 DEF Measured

\* A crash, a turn nobody listens to, a worker given up from outside.
LEMMA OtherShapes ==
    ASSUME BookInv, \/ Crash \/ UNCHANGED vars
                    \/ \E c \in Calls : DetachedEnds(c)
                    \/ \E f \in Flows : WorkerTimeout(f)
    PROVE  Quiet
<1>. USE DEF BookInv, FenceInv
<1>1. CASE Crash
  BY <1>1 DEF Crash, TypeOK, Quiet, SameSessions, SameOpen, NoneStarts, InFlight, KeepsLast, NoFlow
<1>2. CASE UNCHANGED vars
  BY <1>2 DEF vars, Quiet, SameSessions, SameOpen, NoneStarts, InFlight, KeepsLast
<1>3. ASSUME NEW c \in Calls, DetachedEnds(c) PROVE Quiet
  BY <1>3 DEF DetachedEnds, InFlight, TypeOK, Quiet, SameSessions, SameOpen, NoneStarts,
              KeepsLast
<1>4. ASSUME NEW f \in Flows, WorkerTimeout(f) PROVE Quiet
  <2>. DEFINE c == flow[f].call
  <2>1. flow[f] \in FlowRecords \cup {NoFlow} /\ c # None
    BY <1>4 DEF TypeOK, FlowRecords, WorkerTimeout
  <2>2. flow[f] \in FlowRecords /\ c \in Calls
    BY <2>1 DEF FlowRecords, NoFlow
  <2>3. row[c] # NoRow
    BY <1>4, <2>2, Constants DEF WorkerTimeout, TypeOK, NoRow
  <2>4. SameSessions /\ SameOpen
    BY <1>4, <2>2, <2>3, UnknownShape DEF WorkerTimeout
  <2>5. NoneStarts /\ UNCHANGED <<said, charged, spent, checkpoint, base, opened>>
    BY <1>4 DEF WorkerTimeout, NoneStarts, InFlight
  <2>6. KeepsLast
    BY <1>4, <2>2 DEF WorkerTimeout, Stop, TypeOK, KeepsLast, NoFlow, FlowRecords
  <2> QED BY <2>4, <2>5, <2>6 DEF Quiet
<1> QED BY <1>1, <1>2, <1>3, <1>4

\* A dispatch inserts one row, in a session of its own or in a charged call's.
LEMMA BeginShape ==
    ASSUME BookInv, NEW f \in Flows, NEW r \in Roles, NEW resume \in BOOLEAN,
           BeginProviderCall(f, r, resume)
    PROVE  \E c \in Calls : flow[f] \in FlowRecords /\ Begun(c, f)
<1>. USE DEF BookInv, FenceInv
<1>. DEFINE s == flow[f].sess
<1>1. PICK c \in Calls :
        /\ row[c] = NoRow
        /\ row' = [row EXCEPT ![c] = [sess |-> s, role |-> r, status |-> "started", cost |-> 0]]
        /\ turn' = [turn EXCEPT ![c] = "attached"]
        /\ opened' = [opened EXCEPT ![c] = IF resume THEN flow[f].last ELSE c]
        /\ base' = [base EXCEPT ![c] = IF resume THEN checkpoint[flow[f].last] ELSE 0]
        /\ flow' = [flow EXCEPT ![f].call = c]
  BY DEF BeginProviderCall
<1>2. flow[f] \in FlowRecords
  BY DEF BeginProviderCall, Idle, TypeOK, FlowRecords
<1>3. resume => flow[f].last \in Calls
  BY <1>2 DEF FlowRecords, BeginProviderCall
<1>4. row'[c] = [sess |-> s, role |-> r, status |-> "started", cost |-> 0]
      /\ \A d \in Calls \ {c} : /\ row'[d] = row[d] /\ opened'[d] = opened[d]
                                /\ base'[d] = base[d] /\ turn'[d] = turn[d]
  BY <1>1 DEF TypeOK
<1>5. /\ \A g \in Flows : flow'[g].last = flow[g].last /\ flow'[g].sess = flow[g].sess
                        /\ (g # f => flow'[g].call = flow[g].call)
      /\ flow'[f].call = c
  BY <1>1, <1>2 DEF TypeOK, FlowRecords
<1>6. \/ opened'[c] = c
      \/ flow[f].last \in Calls /\ opened'[c] = flow[f].last /\ base'[c] = checkpoint[flow[f].last]
  BY <1>1, <1>3 DEF TypeOK
<1>7. UNCHANGED <<said, charged, spent, checkpoint>>
  BY DEF BeginProviderCall
<1>8. Begun(c, f)
  BY <1>1, <1>4, <1>5, <1>6, <1>7 DEF Begun
<1> QED BY <1>2, <1>8

\* Every step is of one of the four kinds.
LEMMA Shapes ==
    ASSUME BookInv, [Next]_vars
    PROVE  Shaped
<1>1. ASSUME NEW f \in Flows, FlowStep(f) PROVE Shaped
  BY <1>1, FlowShape, BeginShape, OtherShapes DEF FlowStep, Shaped
<1>2. ASSUME NEW c \in Calls, TurnStep(c) PROVE Shaped
  BY <1>2, MeasuredShape, UnmeasuredShape, OtherShapes DEF TurnStep, Shaped
<1> QED BY <1>1, <1>2, OtherShapes DEF Next, Shaped

-----------------------------------------------------------------------------
\* A step keeps what the books rest on.
LEMMA BookKeeps ==
    ASSUME BookInv, [Next]_vars
    PROVE  BookInv'
<1>. USE DEF BookInv
<1>1. FenceInv' /\ Kept
  BY NextKeeps
<1>2. Shaped
  BY Shapes
<1>3. TypeOK /\ None \notin Calls
  BY Constants DEF FenceInv
<1>4. ASSUME SameSessions, SameOpen, NoneStarts, KeepsLast, UNCHANGED opened
      PROVE  Chained' /\ LastDone' /\ Heard'
  <2>1. Chained'
    BY <1>4 DEF SameSessions, SameOpen, Chained
  <2>2. LastDone'
    <3>1. ASSUME NEW f \in Flows, flow'[f].last # None
          PROVE  /\ row'[flow'[f].last].status = "completed"
                 /\ opened'[flow'[f].last] = flow'[f].last
                 /\ row'[flow'[f].last].sess = flow'[f].sess
      <4>1. flow'[f].last = flow[f].last /\ flow'[f].sess = flow[f].sess /\ flow[f].last \in Calls
        BY <1>3, <1>4, <3>1 DEF KeepsLast, TypeOK, NoFlow
      <4> QED BY <1>4, <3>1, <4>1 DEF SameOpen, SameSessions, LastDone
    <3>2. ASSUME NEW f \in Flows, flow'[f].call # None
          PROVE  row'[flow'[f].call].sess = flow'[f].sess
      <4>1. flow'[f].call = flow[f].call /\ flow'[f].sess = flow[f].sess /\ flow[f].call \in Calls
        BY <1>3, <1>4, <3>2 DEF KeepsLast, TypeOK, NoFlow
      <4> QED BY <1>4, <3>2, <4>1 DEF SameSessions, LastDone
    <3> QED BY <3>1, <3>2 DEF LastDone
  <2>3. Heard'
    BY <1>4 DEF SameOpen, NoneStarts, Heard
  <2> QED BY <2>1, <2>2, <2>3
<1>5. CASE Quiet
  <2>1. Unsaid'
    BY <1>5 DEF Quiet, SameSessions, NoneStarts, Unsaid
  <2> QED BY <1>1, <1>4, <1>5, <2>1 DEF Quiet
<1>6. ASSUME NEW c \in Calls, NEW r \in Reports(c), Reported(c, r.cost)
      PROVE  BookInv'
  <2>1. Unsaid'
    BY <1>3, <1>6, RowOfTurn DEF Reported, SameSessions, NoneStarts, Unsaid, TypeOK
  <2> QED BY <1>1, <1>4, <1>6, <2>1 DEF Reported
<1>7. ASSUME NEW c \in Calls, NEW r \in Reports(c), Booked(c, r)
      PROVE  BookInv'
  <2>0. /\ row[c] # NoRow /\ opened[c] \in Calls
        /\ r.on \in Calls /\ r.on \in {opened[c], c}
    <3>1. row[c] # NoRow
      BY <1>7, RowOfTurn DEF Booked
    <3>2. opened[c] \in Calls
      BY <1>3, <3>1 DEF Chained, TypeOK
    <3> QED BY <1>3, <3>1, <3>2, ReportTyped
  <2>1. Unsaid'
    <3>1. ASSUME NEW d \in Calls, row'[d] = NoRow \/ InFlight(d)'
          PROVE  d # c /\ (row[d] = NoRow \/ InFlight(d))
      BY <1>7, <2>0, <3>1 DEF Booked, SameSessions, NoneStarts, InFlight
    <3> QED BY <1>3, <1>7, <3>1 DEF Booked, Unsaid, TypeOK
  <2>2. Chained'
    <3>1. \A d \in Calls \ {c} : opened[d] # c
      BY <1>7 DEF Booked, Chained
    <3>2. \A d \in Calls : opened'[d] = IF d = c THEN r.on ELSE opened[d]
      BY <1>3, <1>7 DEF Booked, TypeOK
    <3>3. \A d \in Calls : row'[d].sess = row[d].sess /\ (row'[d] = NoRow <=> row[d] = NoRow)
      BY <1>7 DEF Booked, SameSessions
    <3>4. \A d \in Calls : row[d].status = "completed" => row'[d].status = "completed"
      BY <1>7 DEF Booked
    <3>5. ASSUME NEW d \in Calls
          PROVE  /\ row'[d] = NoRow <=> opened'[d] = None
                 /\ opened'[d] \in Calls => /\ opened'[opened'[d]] = opened'[d]
                                           /\ row'[opened'[d]].sess = row'[d].sess
                 /\ opened'[d] \in Calls \ {d} => row'[opened'[d]].status = "completed"
      <4>1. CASE d = c
        <5>1. CASE r.on = c
          BY <1>3, <2>0, <3>2, <3>3, <4>1, <5>1
        <5>2. CASE r.on # c
          BY <1>3, <2>0, <3>2, <3>3, <3>4, <4>1, <5>2 DEF Chained
        <5> QED BY <5>1, <5>2
      <4>2. CASE d # c
        BY <3>1, <3>2, <3>3, <3>4, <4>2 DEF Chained
      <4> QED BY <4>1, <4>2
    <3> QED BY <3>5 DEF Chained
  <2>3. row'[r.on].status = "completed" /\ opened'[r.on] = r.on /\ row'[r.on].sess = row[c].sess
    <3>1. CASE r.on = c
      BY <1>3, <1>7, <2>0, <3>1 DEF Booked, SameSessions, TypeOK
    <3>2. CASE r.on # c
      BY <1>3, <1>7, <2>0, <3>2 DEF Booked, Chained, TypeOK
    <3> QED BY <3>1, <3>2
  <2>4. LastDone'
    <3>1. ASSUME NEW f \in Flows
          PROVE  LET p == flow'[f].last IN
                 /\ p # None => /\ row'[p].status = "completed" /\ opened'[p] = p
                                /\ row'[p].sess = flow'[f].sess
                 /\ flow'[f].call # None => row'[flow'[f].call].sess = flow'[f].sess
      <4>1. CASE flow'[f] = flow[f]
        <5>1. flow[f].last \in Calls \cup {None} /\ flow[f].call \in Calls \cup {None}
          BY <1>3 DEF TypeOK, NoFlow
        <5>2. \A d \in Calls : d # c => opened'[d] = opened[d]
          BY <1>3, <1>7 DEF Booked, TypeOK
        <5>3. flow[f].last # c
          BY <1>3, <1>7 DEF Booked, LastDone
        <5> QED BY <1>7, <4>1, <5>1, <5>2, <5>3 DEF Booked, SameSessions, LastDone
      <4>2. CASE /\ flow'[f].call = None /\ flow[f].call = c /\ flow'[f].last = r.on
                 /\ flow'[f].sess = flow[f].sess
        BY <1>3, <2>3, <4>2 DEF LastDone
      <4> QED BY <1>7, <4>1, <4>2 DEF Booked
    <3> QED BY <3>1 DEF LastDone
  <2>5. Heard'
    BY <1>7 DEF Booked, NoneStarts, Heard
  <2> QED BY <1>1, <2>1, <2>2, <2>4, <2>5
<1>8. ASSUME NEW c \in Calls, NEW f \in Flows, flow[f] \in FlowRecords, Begun(c, f)
      PROVE  BookInv'
  <2>0. /\ row'[c] # NoRow /\ row[c].status = "free" /\ opened[c] = None /\ row[c].sess = None
        /\ \A d \in Calls \ {c} : opened[d] # c
    BY <1>8 DEF Begun, NoRow, Chained
  <2>1. Unsaid'
    BY <1>8, <2>0 DEF Begun, Unsaid, InFlight
  <2>2. /\ opened'[c] \in Calls
        /\ opened'[c] # c => /\ opened[opened'[c]] = opened'[c]
                             /\ row[opened'[c]].status = "completed"
                             /\ row[opened'[c]].sess = flow[f].sess
    <3>1. CASE opened'[c] = c
      BY <3>1
    <3>2. CASE flow[f].last \in Calls /\ opened'[c] = flow[f].last
      BY <1>3, <3>2 DEF LastDone
    <3> QED BY <1>8, <3>1, <3>2 DEF Begun
  <2>3. Chained'
    <3>1. ASSUME NEW d \in Calls
          PROVE  /\ row'[d] = NoRow <=> opened'[d] = None
                 /\ opened'[d] \in Calls => /\ opened'[opened'[d]] = opened'[d]
                                           /\ row'[opened'[d]].sess = row'[d].sess
                 /\ opened'[d] \in Calls \ {d} => row'[opened'[d]].status = "completed"
      <4>1. CASE d = c
        BY <1>3, <1>8, <2>0, <2>2, <4>1 DEF Begun
      <4>2. CASE d # c
        BY <1>8, <2>0, <2>2, <4>2 DEF Begun, Chained
      <4> QED BY <4>1, <4>2
    <3> QED BY <3>1 DEF Chained
  <2>4. LastDone'
    <3>1. ASSUME NEW g \in Flows, flow'[g].last # None
          PROVE  /\ row'[flow'[g].last].status = "completed"
                 /\ opened'[flow'[g].last] = flow'[g].last
                 /\ row'[flow'[g].last].sess = flow'[g].sess
      <4>1. flow'[g].last = flow[g].last /\ flow'[g].sess = flow[g].sess /\ flow[g].last \in Calls
        BY <1>3, <1>8, <3>1 DEF Begun, TypeOK, NoFlow
      <4>2. flow[g].last # c
        BY <1>3, <2>0, <4>1 DEF LastDone
      <4> QED BY <1>3, <1>8, <4>1, <4>2 DEF Begun, LastDone
    <3>2. ASSUME NEW g \in Flows, flow'[g].call # None
          PROVE  row'[flow'[g].call].sess = flow'[g].sess
      <4>1. CASE g = f
        BY <1>8, <4>1 DEF Begun
      <4>2. CASE g # f
        <5>1. flow'[g].call = flow[g].call /\ flow'[g].sess = flow[g].sess /\ flow[g].call \in Calls
          BY <1>3, <1>8, <3>2, <4>2 DEF Begun, TypeOK, NoFlow
        <5>2. flow[g] # NoFlow /\ flow[g].sess # None
          BY <1>3, <5>1, Constants DEF TypeOK, NoFlow
        <5>3. flow[g].call # c
          BY <1>3, <2>0, <5>1, <5>2 DEF LastDone
        <5> QED BY <1>3, <1>8, <5>1, <5>3 DEF Begun, LastDone
      <4> QED BY <4>1, <4>2
    <3> QED BY <3>1, <3>2 DEF LastDone
  <2>5. Heard'
    BY <1>8, <2>0 DEF Begun, Heard
  <2> QED BY <1>1, <2>1, <2>3, <2>4, <2>5
<1> QED BY <1>2, <1>5, <1>6, <1>7, <1>8 DEF Shaped

-----------------------------------------------------------------------------
(* The ledger                                                              *)

\* Reports are numbers, and so is every sum of them.
LEMMA Figures ==
    ASSUME TypeOK
    PROVE  /\ \A c \in Calls : said[c] \in Nat
           /\ \A S \in SUBSET Calls : IsFiniteSet(S) /\ Sum(said, S) \in Nat
<1>0. Costs \cup {0} \subseteq Nat /\ said \in [Calls -> Costs \cup {0}]
  BY Constants DEF TypeOK
<1>1. \A c \in Calls : said[c] \in Nat
  BY <1>0
<1>2. ASSUME NEW S \in SUBSET Calls PROVE IsFiniteSet(S) /\ Sum(said, S) \in Nat
  <2>1. IsFiniteSet(S)
    BY CostsAssumption, FS_Subset
  <2> QED BY <1>1, <2>1, SumNat
<1> QED BY <1>1, <1>2

\* Which calls a session has, and which are unresolved, read off the rows.
LEMMA SetsKept ==
    ASSUME SameSessions, SameOpen
    PROVE  \A s \in Sessions : Of(s)' = Of(s) /\ Unresolved(s)' = Unresolved(s)
BY DEF SameSessions, SameOpen, Of, Unresolved, Open

\* A bill of b for c moves the sums of the sets that have c by b, the others by nothing.
LEMMA FigureMoves ==
    ASSUME BookInv, TypeOK', NEW c \in Calls, NEW b \in Costs, InFlight(c),
           said' = [said EXCEPT ![c] = b], NEW S \in SUBSET Calls
    PROVE  Sum(said', S) = Sum(said, S) + (IF c \in S THEN b ELSE 0)
<1>1. TypeOK /\ said[c] = 0 /\ b \in Nat
  BY Constants DEF BookInv, FenceInv, Unsaid
<1>2. /\ IsFiniteSet(S) /\ Sum(said, S) \in Nat
      /\ \A d \in Calls : said[d] \in Nat /\ said'[d] \in Nat
      /\ \A d \in Calls : d # c => said'[d] = said[d]
      /\ said'[c] = b
  BY <1>1, Figures DEF TypeOK
<1>3. CASE c \in S
  <2>0. /\ \A d \in S : said[d] \in Nat /\ said'[d] \in Nat
        /\ \A d \in S : d # c => said'[d] = said[d]
    BY <1>2
  <2>1. Sum(said', S) + said[c] = Sum(said, S) + said'[c] /\ Sum(said', S) \in Nat
    <3>1. ASSUME NEW g, \A d \in S : said[d] \in Nat /\ g[d] \in Nat,
                 \A d \in S : d # c => g[d] = said[d]
          PROVE  Sum(g, S) + said[c] = Sum(said, S) + g[c] /\ Sum(g, S) \in Nat
      BY <1>2, <1>3, <3>1, SumMoves
    <3> QED BY <2>0, <3>1
  <2> QED BY <1>1, <1>2, <1>3, <2>1
<1>4. CASE c \notin S
  <2>1. \A d \in S : said[d] = said'[d]
    BY <1>2, <1>4
  <2>2. ASSUME NEW g, \A d \in S : said[d] = g[d] PROVE Sum(said, S) = Sum(g, S)
    BY <1>2, <2>2, SumSame
  <2>3. Sum(said, S) = Sum(said', S)
    BY <2>1, <2>2
  <2> QED BY <1>2, <1>4, <2>3
<1> QED BY <1>3, <1>4

\* No step lets a reported dollar fall off the books: it reaches the charge and
\* leaves the unresolved rows in one step, or stays with an unresolved row.
LEMMA SpendKeeps ==
    ASSUME BookInv, ReportedSpendIsBooked, [Next]_vars
    PROVE  ReportedSpendIsBooked'
<1>1. BookInv' /\ TypeOK' /\ TypeOK
  BY BookKeeps DEF BookInv, FenceInv
<1>0. \A c \in Calls : row'[c].status = "completed" => turn'[c] = "reported"
  BY <1>1 DEF BookInv, Heard
<1>2. Shaped
  BY Shapes
<1>3. \A s \in Sessions : Of(s) \in SUBSET Calls /\ Unresolved(s) \in SUBSET Of(s)
  BY DEF Of, Unresolved
<1>4. \A s \in Sessions : Sum(said, Of(s)) = charged[s] + Sum(said, Unresolved(s))
  BY DEF ReportedSpendIsBooked
<1>5. spent = Sum(charged, Sessions)
  BY DEF ReportedSpendIsBooked
<1>6. CASE Quiet
  <2>1. \A s \in Sessions : Of(s)' = Of(s) /\ Unresolved(s)' = Unresolved(s)
    BY <1>6, SetsKept DEF Quiet
  <2> QED BY <1>0, <1>4, <1>5, <1>6, <2>1 DEF Quiet, ReportedSpendIsBooked
<1>7. ASSUME NEW c \in Calls, NEW r \in Reports(c), Reported(c, r.cost)
      PROVE  ReportedSpendIsBooked'
  <2>. DEFINE b == r.cost
  <2>0. b \in Costs
    BY <1>1, ReportTyped
  <2>1. \A s \in Sessions : Of(s)' = Of(s) /\ Unresolved(s)' = Unresolved(s)
    BY <1>7, SetsKept DEF Reported
  <2>2. ASSUME NEW s \in Sessions
        PROVE  Sum(said', Of(s)) = charged[s] + Sum(said', Unresolved(s))
    <3>1. c \in Of(s) <=> c \in Unresolved(s)
      BY <1>7 DEF Reported, BookInv, FenceInv, Tracked, Open, Of, Unresolved
    <3>2. /\ Sum(said', Of(s)) = Sum(said, Of(s)) + (IF c \in Of(s) THEN b ELSE 0)
          /\ Sum(said', Unresolved(s)) = Sum(said, Unresolved(s)) + (IF c \in Of(s) THEN b ELSE 0)
      BY <1>1, <1>3, <1>7, <2>0, <3>1, FigureMoves DEF Reported
    <3>3. /\ Sum(said, Of(s)) \in Nat /\ Sum(said, Unresolved(s)) \in Nat
          /\ charged[s] \in Nat /\ b \in Nat
      BY <1>1, <1>3, <2>0, Figures, Constants DEF TypeOK
    <3> QED BY <1>4, <3>2, <3>3
  <2> QED BY <1>0, <1>5, <1>7, <2>1, <2>2 DEF Reported, ReportedSpendIsBooked
<1>8. ASSUME NEW c \in Calls, NEW r \in Reports(c), Booked(c, r)
      PROVE  ReportedSpendIsBooked'
  <2>. DEFINE b == r.cost
              p == row[c].sess
  <2>0. b \in Costs
    BY <1>1, ReportTyped
  <2>1. p \in Sessions /\ b \in Nat /\ said[c] = 0
    BY <1>8, <2>0, RowOfTurn, Constants DEF Booked, BookInv, Unsaid
  <2>2. \A s \in Sessions : Of(s)' = Of(s) /\ Unresolved(s)' = Unresolved(s) \ {c}
    BY <1>8 DEF Booked, SameSessions, Of, Unresolved
  <2>3. \A s \in Sessions : (c \in Of(s) <=> s = p) /\ c \in Unresolved(p)
    BY <1>8 DEF Booked, Of, Unresolved
  <2>4. ASSUME NEW s \in Sessions
        PROVE  Sum(said', Of(s)) = charged'[s] + Sum(said', Unresolved(s) \ {c})
    <3>1. /\ Sum(said', Of(s)) = Sum(said, Of(s)) + (IF s = p THEN b ELSE 0)
          /\ Sum(said', Unresolved(s) \ {c}) = Sum(said, Unresolved(s) \ {c})
      <4>1. InFlight(c) /\ said' = [said EXCEPT ![c] = b]
        BY <1>8 DEF Booked
      <4>2. Of(s) \in SUBSET Calls /\ Unresolved(s) \ {c} \in SUBSET Calls
        BY <1>3
      <4>3. Sum(said', Of(s)) = Sum(said, Of(s)) + (IF c \in Of(s) THEN b ELSE 0)
        BY <1>1, <2>0, <4>1, <4>2, FigureMoves
      <4>4. Sum(said', Unresolved(s) \ {c})
            = Sum(said, Unresolved(s) \ {c}) + (IF c \in Unresolved(s) \ {c} THEN b ELSE 0)
        BY <1>1, <2>0, <4>1, <4>2, FigureMoves
      <4>5. Sum(said, Unresolved(s) \ {c}) \in Nat
        BY <1>1, <4>2, Figures
      <4> QED BY <2>3, <4>3, <4>4, <4>5
    <3>2. Sum(said, Unresolved(s)) = Sum(said, Unresolved(s) \ {c})
      <4>1. CASE s = p
        <5>1. IsFiniteSet(Unresolved(s)) /\ \A d \in Unresolved(s) : said[d] \in Nat
          BY <1>1, <1>3, Figures
        <5>2. Sum(said, Unresolved(s)) = said[c] + Sum(said, Unresolved(s) \ {c})
          BY <2>3, <4>1, <5>1, SumSplit
        <5> QED BY <1>1, <1>3, <2>1, <5>2, Figures
      <4>2. CASE s # p
        <5>1. Unresolved(s) \ {c} = Unresolved(s)
          BY <1>3, <2>3, <4>2
        <5> QED BY <5>1
      <4> QED BY <4>1, <4>2
    <3>3. charged'[s] = charged[s] + (IF s = p THEN b ELSE 0)
      BY <1>1, <1>8, <2>1 DEF Booked, TypeOK
    <3>4. /\ Sum(said, Of(s)) \in Nat /\ Sum(said, Unresolved(s)) \in Nat
          /\ charged[s] \in Nat
      BY <1>1, <1>3, Figures DEF TypeOK
    <3> QED BY <1>4, <2>1, <3>1, <3>2, <3>3, <3>4
  <2>5. spent' = Sum(charged', Sessions)
    <3>1. /\ \A s \in Sessions : charged[s] \in Nat /\ charged'[s] \in Nat
          /\ \A s \in Sessions : s # p => charged'[s] = charged[s]
          /\ charged'[p] = charged[p] + b
      BY <1>1, <1>8, <2>1 DEF Booked, TypeOK
    <3>2. /\ Sum(charged', Sessions) + charged[p] = Sum(charged, Sessions) + charged'[p]
          /\ Sum(charged, Sessions) \in Nat /\ Sum(charged', Sessions) \in Nat
      BY <2>1, <3>1, SessionsAssumption, SumMoves
    <3>3. spent' = spent + b
      BY <1>8 DEF Booked
    <3> QED BY <1>5, <2>1, <3>1, <3>2, <3>3
  <2> QED BY <1>0, <2>2, <2>4, <2>5 DEF ReportedSpendIsBooked
<1>9. ASSUME NEW c \in Calls, NEW f \in Flows, flow[f] \in FlowRecords, Begun(c, f)
      PROVE  ReportedSpendIsBooked'
  <2>0. PICK s \in Sessions : s = flow[f].sess
    BY <1>9 DEF FlowRecords
  <2>1. said[c] = 0 /\ \A t \in Sessions : c \notin Of(t)
    BY <1>9, NoneAssumption DEF Begun, BookInv, Unsaid, NoRow, Of
  <2>2. \A t \in Sessions \ {s} : Of(t)' = Of(t) /\ Unresolved(t)' = Unresolved(t)
    BY <1>9, <2>0, <2>1 DEF Begun, Of, Unresolved
  <2>3. Of(s)' = Of(s) \cup {c} /\ Unresolved(s)' = Unresolved(s) \cup {c}
    BY <1>9, <2>0, <2>1 DEF Begun, Of, Unresolved
  <2>4. ASSUME NEW S \in SUBSET Calls, c \notin S
        PROVE  Sum(said, S \cup {c}) = Sum(said, S)
    <3>1. IsFiniteSet(S \cup {c}) /\ \A d \in S \cup {c} : said[d] \in Nat
      BY <1>1, Figures
    <3>2. Sum(said, S \cup {c}) = said[c] + Sum(said, (S \cup {c}) \ {c})
      BY <3>1, SumSplit
    <3>3. (S \cup {c}) \ {c} = S
      BY <2>4
    <3>4. Sum(said, S) \in Nat
      BY <1>1, Figures
    <3> QED BY <2>1, <3>2, <3>3, <3>4
  <2>5. /\ Sum(said, Of(s) \cup {c}) = Sum(said, Of(s))
        /\ Sum(said, Unresolved(s) \cup {c}) = Sum(said, Unresolved(s))
    <3>1. Unresolved(s) \in SUBSET Calls /\ c \notin Unresolved(s)
      BY <1>3, <2>0, <2>1
    <3> QED BY <1>3, <2>0, <2>1, <2>4, <3>1
  <2>6. UNCHANGED <<said, charged, spent>>
    BY <1>9 DEF Begun
  <2>7. ASSUME NEW t \in Sessions
        PROVE  Sum(said', Of(t)') = charged'[t] + Sum(said', Unresolved(t)')
    <3>1. CASE t = s
      BY <1>4, <2>3, <2>5, <2>6, <3>1
    <3>2. CASE t # s
      BY <1>4, <2>2, <2>6, <3>2
    <3> QED BY <3>1, <3>2
  <2>8. spent' = Sum(charged', Sessions)
    BY <1>5, <2>6
  <2> QED BY <1>0, <2>7, <2>8 DEF ReportedSpendIsBooked
<1> QED BY <1>2, <1>6, <1>7, <1>8, <1>9 DEF Shaped

-----------------------------------------------------------------------------
(* The meter                                                               *)

\* The empty sum.
LEMMA NothingToSum == ASSUME NEW f PROVE Sum(f, {}) = 0
BY SumRec, FS_EmptySet

\* A booked stretch starts and ends at a number.
LEMMA Stretches ==
    ASSUME TypeOK, NEW p \in Calls, NEW c \in Metered(p)
    PROVE  c \in Calls /\ base[c] \in Nat /\ Upto(c) \in Nat /\ row[c].cost \in Nat
<1>1. c \in Calls /\ row[c].status = "completed" /\ base[c] # NoFigure
  BY DEF Metered
<1>2. row[c].cost \in Nat /\ base[c] \in Nat
  BY <1>1 DEF TypeOK, NoRow
<1> QED BY <1>1, <1>2 DEF Upto

\* The checkpoint moves only when a call is booked from where it stands, and only under
\* the one call of its session that is unresolved.
LEMMA MeterKeeps ==
    ASSUME BookInv, MeterBookedOnce, [Next]_vars
    PROVE  MeterBookedOnce'
<1>1. TypeOK' /\ TypeOK /\ None \notin Calls /\ Kept /\ BookInv'
  BY BookKeeps, NextKeeps, Constants DEF BookInv, FenceInv
<1>2. Shaped
  BY Shapes
<1>3. SUFFICES ASSUME MeterBookedOnce
               PROVE  /\ \A p \in Calls : \A c \in Metered(p)' :
                           /\ Upto(c)' <= checkpoint'[p]
                           /\ \A d \in Metered(p)' \ {c} : Upto(c)' <= base'[d] \/ Upto(d)' <= base'[c]
                      /\ \A c \in Calls : row'[c].status = "started" /\ opened'[c] # c =>
                           base'[c] = checkpoint'[opened'[c]]
  BY DEF MeterBookedOnce
<1>4. \A d \in Calls : row[d].status = "completed" => row'[d] = row[d]
  BY <1>1 DEF Kept, Settled
<1>5. ASSUME SameOpen, UNCHANGED <<checkpoint, base, opened>>
      PROVE  MeterBookedOnce'
  <2>1. \A p \in Calls : Metered(p)' = Metered(p)
    BY <1>5 DEF SameOpen, Metered
  <2>2. \A p \in Calls : \A c \in Metered(p) : Upto(c)' = Upto(c)
    BY <1>4, <1>5 DEF Metered, Upto
  <2>3. \A p \in Calls : \A c \in Metered(p)' :
           /\ Upto(c)' <= checkpoint'[p]
           /\ \A d \in Metered(p)' \ {c} : Upto(c)' <= base'[d] \/ Upto(d)' <= base'[c]
    BY <1>3, <1>5, <2>1, <2>2 DEF MeterBookedOnce
  <2>4. \A c \in Calls : row'[c].status = "started" /\ opened'[c] # c =>
           base'[c] = checkpoint'[opened'[c]]
    BY <1>3, <1>5 DEF MeterBookedOnce, SameOpen
  <2> QED BY <2>3, <2>4 DEF MeterBookedOnce
<1>6. ASSUME Quiet PROVE MeterBookedOnce'
  BY <1>5, <1>6 DEF Quiet
<1>7. ASSUME NEW c \in Calls, NEW r \in Reports(c), Reported(c, r.cost)
      PROVE  MeterBookedOnce'
  BY <1>5, <1>7 DEF Reported
<1>8. ASSUME NEW c \in Calls, NEW r \in Reports(c), Booked(c, r)
      PROVE  MeterBookedOnce'
  <2>. DEFINE on == r.on
  <2>0. /\ row[c] # NoRow /\ opened[c] \in Calls /\ on \in Calls /\ on \in {opened[c], c}
        /\ r.cost \in Nat /\ r.from \in Nat \cup {NoFigure}
    <3>1. row[c] # NoRow
      BY <1>8, RowOfTurn DEF Booked, BookInv
    <3>2. opened[c] \in Calls
      BY <1>1, <3>1 DEF BookInv, Chained, TypeOK
    <3> QED BY <1>1, <3>1, <3>2, ReportTyped, Constants
  <2>1. /\ \A d \in Calls : d # c => opened'[d] = opened[d] /\ base'[d] = base[d]
        /\ opened'[c] = on /\ base'[c] = r.from
    BY <1>1, <1>8 DEF Booked, TypeOK
  <2>2. row[c].status = "started" /\ row'[c].status = "completed" /\ row'[c].cost = r.cost
        /\ \A d \in Calls : d # c => row'[d] = row[d]
    BY <1>8 DEF Booked
  <2>3. \A p \in Calls : c \notin Metered(p)
    BY <2>2 DEF Metered
  <2>4. \A p \in Calls : Metered(p)' = IF p = on /\ r.from # NoFigure
                                       THEN Metered(p) \cup {c} ELSE Metered(p)
    <3>1. ASSUME NEW p \in Calls, NEW d \in Calls
          PROVE  d \in Metered(p)' <=>
                   (d \in Metered(p) \/ (d = c /\ p = on /\ r.from # NoFigure))
      BY <2>1, <2>2 DEF Metered
    <3>2. \A p \in Calls : Metered(p) \subseteq Calls /\ Metered(p)' \subseteq Calls
      BY DEF Metered
    <3> QED BY <3>1, <3>2
  <2>5. \A p \in Calls : \A d \in Metered(p) :
           d \in Calls /\ d # c /\ Upto(d)' = Upto(d) /\ base'[d] = base[d]
    BY <2>1, <2>2, <2>3 DEF Metered, Upto
  <2>6. \A p \in Calls : p # on \/ r.from = NoFigure => checkpoint'[p] = checkpoint[p]
    BY <1>1, <1>8 DEF Booked, TypeOK
  <2>7. ASSUME NEW p \in Calls, NEW d \in Metered(p)'
        PROVE  /\ Upto(d)' <= checkpoint'[p]
               /\ \A e \in Metered(p)' \ {d} : Upto(d)' <= base'[e] \/ Upto(e)' <= base'[d]
    <3>1. CASE p # on \/ r.from = NoFigure
      <4>1. Metered(p)' = Metered(p)
        BY <2>4, <3>1
      <4> QED BY <1>3, <2>5, <2>6, <2>7, <3>1, <4>1 DEF MeterBookedOnce
    <3>2. CASE p = on /\ r.from # NoFigure
      <4>1. checkpoint'[p] = r.from + r.cost /\ Upto(c)' = r.from + r.cost /\ base'[c] = r.from
        BY <1>1, <1>8, <2>0, <2>1, <2>2, <3>2 DEF Booked, TypeOK, Upto
      <4>2. checkpoint[p] \in {NoFigure, r.from}
        BY <1>8, <3>2 DEF Booked
      <4>3. \A e \in Metered(p) : Upto(e) \in Nat /\ Upto(e) <= checkpoint[p]
        BY <1>1, <1>3, Stretches DEF MeterBookedOnce
      <4>4. \A e \in Metered(p) : Upto(e)' <= r.from /\ Upto(e)' \in Nat
        BY <2>5, <4>2, <4>3 DEF NoFigure
      <4>5. r.from \in Nat
        BY <2>0, <3>2
      <4>6. Metered(p)' = Metered(p) \cup {c}
        BY <2>4, <3>2
      <4>7. CASE d = c
        BY <2>0, <4>1, <4>4, <4>5, <4>6, <4>7
      <4>8. CASE d # c
        <5>1. d \in Metered(p)
          BY <2>7, <4>6, <4>8
        <5>2. Upto(d)' <= checkpoint'[p]
          BY <2>0, <4>1, <4>4, <4>5, <5>1
        <5>3. \A e \in Metered(p) \ {d} : Upto(d)' <= base'[e] \/ Upto(e)' <= base'[d]
          BY <1>3, <2>5, <5>1 DEF MeterBookedOnce
        <5> QED BY <4>1, <4>4, <4>6, <5>1, <5>2, <5>3
      <4> QED BY <4>7, <4>8
    <3> QED BY <3>1, <3>2
  <2>8. ASSUME NEW d \in Calls, row'[d].status = "started", opened'[d] # d
        PROVE  base'[d] = checkpoint'[opened'[d]]
    <3>1. d # c
      BY <2>2, <2>8
    <3>2. row[d].status = "started" /\ opened[d] # d /\ opened'[d] = opened[d] /\ base'[d] = base[d]
      BY <2>1, <2>2, <2>8, <3>1
    <3>3. base[d] = checkpoint[opened[d]]
      BY <1>3, <3>2 DEF MeterBookedOnce
    <3>4. opened[d] \in Calls
      BY <1>1, <3>2 DEF BookInv, Chained, TypeOK, NoRow
    <3>5. opened[d] # on
      <4>1. row[d].sess # row[c].sess
        BY <2>2, <3>1, <3>2 DEF BookInv, FenceInv, Fence, Open
      <4>2. row[opened[d]].sess = row[d].sess /\ row[on].sess = row[c].sess
        BY <2>0, <3>4 DEF BookInv, Chained
      <4> QED BY <4>1, <4>2
    <3> QED BY <2>6, <3>2, <3>3, <3>4, <3>5
  <2> QED BY <2>7, <2>8 DEF MeterBookedOnce
<1>9. ASSUME NEW c \in Calls, NEW f \in Flows, flow[f] \in FlowRecords, Begun(c, f)
      PROVE  MeterBookedOnce'
  <2>1. /\ row[c].status = "free" /\ row'[c].status = "started" /\ UNCHANGED checkpoint
        /\ \A d \in Calls : d # c => row'[d] = row[d] /\ opened'[d] = opened[d] /\ base'[d] = base[d]
        /\ opened'[c] # c => base'[c] = checkpoint[opened'[c]]
    BY <1>9 DEF Begun, NoRow
  <2>2. \A p \in Calls : Metered(p)' = Metered(p)
    BY <2>1 DEF Metered
  <2>3. \A p \in Calls : \A d \in Metered(p) : Upto(d)' = Upto(d) /\ base'[d] = base[d]
    BY <2>1 DEF Metered, Upto
  <2>4. \A p \in Calls : \A d \in Metered(p)' :
           /\ Upto(d)' <= checkpoint'[p]
           /\ \A e \in Metered(p)' \ {d} : Upto(d)' <= base'[e] \/ Upto(e)' <= base'[d]
    BY <1>3, <2>1, <2>2, <2>3 DEF MeterBookedOnce
  <2>5. \A d \in Calls : row'[d].status = "started" /\ opened'[d] # d =>
           base'[d] = checkpoint'[opened'[d]]
    BY <1>3, <2>1 DEF MeterBookedOnce
  <2> QED BY <2>4, <2>5 DEF MeterBookedOnce
<1>10. MeterBookedOnce'
  BY <1>2, <1>6, <1>7, <1>8, <1>9 DEF Shaped
<1> QED BY <1>10 DEF MeterBookedOnce

-----------------------------------------------------------------------------
\* Nothing is reported, charged or checkpointed at first.
LEMMA InitBooks == Init => BookInv /\ ReportedSpendIsBooked /\ MeterBookedOnce
<1>. SUFFICES ASSUME Init PROVE BookInv /\ ReportedSpendIsBooked /\ MeterBookedOnce
  OBVIOUS
<1>1. Unsaid /\ Chained /\ LastDone /\ Heard
  BY Constants DEF Init, Unsaid, Chained, LastDone, Heard, NoRow, NoFlow
<1>2. \A s \in Sessions : Of(s) = {} /\ Unresolved(s) = {}
  BY NoneAssumption DEF Init, Of, Unresolved, NoRow
<1>4. Sum(charged, Sessions) = 0
  <2>. DEFINE Bad == {T \in SUBSET Sessions : Sum(charged, T) # 0}
  <2>. SUFFICES ASSUME Bad # {} PROVE FALSE
    OBVIOUS
  <2>0. Bad \in SUBSET SUBSET Sessions
    OBVIOUS
  <2>1. PICK T \in Bad : \A U \in SUBSET T : U # T => U \notin Bad
    <3>. HIDE DEF Bad
    <3> QED BY <2>0, SessionsAssumption, SmallestSubset
  <2>2. Sum(charged, T) = IF T = {} THEN 0 ELSE charged[Pick(T)] + Sum(charged, T \ {Pick(T)})
    BY SessionsAssumption, SumRec, FS_Subset
  <2>3. T # {} /\ Pick(T) \in T
    BY <2>1, <2>2, Picked
  <2>4. Sum(charged, T \ {Pick(T)}) = 0 /\ charged[Pick(T)] = 0
    BY <2>1, <2>3 DEF Init
  <2> QED BY <2>1, <2>2, <2>3, <2>4
<1>5. ReportedSpendIsBooked
  <2>1. ASSUME NEW s \in Sessions
        PROVE  Sum(said, Of(s)) = charged[s] + Sum(said, Unresolved(s))
    <3>1. Sum(said, Of(s)) = 0 /\ Sum(said, Unresolved(s)) = 0
      BY <1>2, NothingToSum
    <3>2. charged[s] = 0
      BY DEF Init
    <3> QED BY <3>1, <3>2
  <2>2. spent = 0
    BY DEF Init
  <2> QED BY <1>1, <1>4, <2>1, <2>2 DEF ReportedSpendIsBooked, Heard
<1>6. MeterBookedOnce
  BY DEF Init, MeterBookedOnce, Metered, NoRow
<1> QED BY <1>1, <1>5, <1>6, InitFence DEF BookInv

-----------------------------------------------------------------------------
(* Theorems                                                                *)

\* The invariant holds in every reachable state.
THEOREM FenceHolds == Spec => []FenceInv
<1>1. Init => FenceInv
  BY InitFence
<1>2. FenceInv /\ [Next]_vars => FenceInv'
  BY NextKeeps
<1> QED BY <1>1, <1>2, PTL DEF Spec

\* Type correctness.
THEOREM TypeHolds == Spec => []TypeOK
<1>1. FenceInv => TypeOK
  BY DEF FenceInv
<1> QED BY <1>1, FenceHolds, PTL

\* A session never pays for two provider turns that run at the same time,
\* whatever timed out, was re-driven or was lost in a crash.
THEOREM OneTurnHolds == Spec => []OneTurnInFlight
<1>1. FenceInv => OneTurnInFlight
  BY DEF FenceInv, Fence, Tracked, OneTurnInFlight
<1> QED BY <1>1, FenceHolds, PTL

\* No step rewrites a settled row.
THEOREM SettledHolds == Spec => SettledForGood
<1>1. FenceInv /\ [Next]_vars =>
        [\A c \in Calls : row[c].status \in {"completed", "unknown"} => row'[c] = row[c]]_vars
  BY NextKeeps DEF Kept, Settled
<1> QED BY <1>1, FenceHolds, PTL DEF Spec, SettledForGood

\* No dollar an adapter reported is off the books: it is charged or on a row that is
\* still unresolved, and a call nobody heard a figure of is not settled as a free one.
THEOREM ReportedHolds == Spec => []ReportedSpendIsBooked
<1>1. Init => BookInv /\ ReportedSpendIsBooked
  BY InitBooks
<1>2. BookInv /\ ReportedSpendIsBooked /\ [Next]_vars => (BookInv /\ ReportedSpendIsBooked)'
  BY BookKeeps, SpendKeeps
<1> QED BY <1>1, <1>2, PTL DEF Spec

\* No stretch of a provider session's meter is booked twice, and no checkpoint moves
\* under a resumed turn that read it.
THEOREM MeterHolds == Spec => []MeterBookedOnce
<1>1. Init => BookInv /\ MeterBookedOnce
  BY InitBooks
<1>2. BookInv /\ MeterBookedOnce /\ [Next]_vars => (BookInv /\ MeterBookedOnce)'
  BY BookKeeps, MeterKeeps
<1> QED BY <1>1, <1>2, PTL DEF Spec

-----------------------------------------------------------------------------
(* Turns.                                                                   *)

TurnRecords ==
    [n : Nat, step : Waiting \cup {"idle", "returned"}, sess : Nat, from : Nat,
     base : Nat \cup {Unknown}, latest : Nat \cup {Unknown}, mismatch : BOOLEAN,
     tokens : BOOLEAN, opened : BOOLEAN, token : BOOLEAN, text : BOOLEAN, cut : Cuts, stop : Stops]

Outcomes == {"none", "answered", "exhausted", "completed", "failed", "timeout",
             "first_token_timeout"}

CallRecords ==
    [role : TurnRoles \cup {"none"}, engine : {"none", "acp", "sdk"},
     at : {"idle", "begin", "turn", "head", "status", "commit", "recount", "settle"},
     resume : Nat, tries : Nat, cost : Nat, measured : BOOLEAN, outcome : Outcomes,
     last : Nat, upto : Nat \cup {Unknown}, whole : BOOLEAN, cut : BOOLEAN, partial : BOOLEAN,
     base : Nat, head : Nat, dirty : SUBSET Nat, harness : BOOLEAN, commit : BOOLEAN]

Agents == [is : {"none", "up", "leaving", "gone"}, on : Nat, busy : BOOLEAN, hands : BOOLEAN]

Worktrees == [dirty : SUBSET Nat, committed : SUBSET Nat, made : Nat, head : Nat]

TurnsOK ==
    /\ routing \in Routings /\ probed \in BOOLEAN
    /\ call \in CallRecords /\ current \in TurnRecords /\ armed \subseteq Cuts
    /\ agents \in [TurnNos -> Agents] /\ accrued \in [TurnNos -> Nat]
    /\ recorded \in [TurnNos -> Nat \cup {Unknown}] /\ ledger \in Nat /\ tree \in Worktrees

\* A turn runs only inside a call, and no watchdog outlives it; a turn that was cut
\* did not end of itself.
CutInv ==
    /\ call.at = "turn" <=> current.step # "idle"
    /\ current.step \in {"idle", "returned"} => armed = {}
    /\ current.step = "returned" /\ current.cut # "none" => current.stop # "end_turn"
    /\ call.outcome \in {"answered", "completed"} => ~call.cut

\* The provider sessions: a turn is on the one it was asked to resume or on its own.
OnOwn ==
    /\ current.n \in 0 .. MaxTurns
    /\ call.resume # NoSession => call.role = "worker"
    /\ call.resume <= current.n /\ call.last <= current.n
    /\ call.at # "turn" => current.sess = NoSession
    /\ call.at = "turn" =>
          current.from = call.resume /\ call.resume < current.n /\ call.last < current.n
    /\ current.sess \in {NoSession, current.n, current.from}
    /\ current.step \in {"initialize", "load", "new"} => current.sess = NoSession
    /\ current.step = "stream" /\ ~current.opened => current.sess = NoSession
    /\ current.step = "load" => current.from # NoSession
    /\ current.step \in {"configure", "prompt"} \/ current.opened => current.sess # NoSession
    /\ current.latest # Unknown => current.sess # NoSession /\ current.latest <= accrued[current.sess]

\* An agent works on a session that was there when it was started, and nothing was spent on
\* a session no turn has made.
SpentOnMade ==
    /\ \A t \in TurnNos : agents[t].on <= t /\ (Alive(t) => t <= current.n)
    /\ \A s \in TurnNos : s > current.n => accrued[s] = 0

\* Checkpoints are a worker's on OpenCode, and of sessions of turns that are over.
Records ==
    /\ call.at # "idle" => call.role \in TurnRoles /\ call.engine = routing[call.role]
    /\ call.at \in {"head", "status", "commit", "recount"} => call.role = "worker"
    /\ call.upto # Unknown =>
          call.engine = "acp" /\ call.role = "worker" /\ call.last # NoSession
            /\ call.at \notin {"idle", "begin", "turn"}
    /\ \A s \in TurnNos : recorded[s] # Unknown =>
          /\ "worker" \in TurnRoles /\ routing["worker"] = "acp"
          /\ s <= current.n /\ (call.at = "turn" => s < current.n)

\* What was billed is B[s] of session s, and C[s] more when the call in progress settles.
Split(B, C) ==
    /\ ledger <= Sum(B, TurnNos) /\ call.cost <= Sum(C, TurnNos)
    /\ \A s \in TurnNos :
        /\ B[s] + C[s] <= accrued[s]
        /\ recorded[s] # Unknown => B[s] <= recorded[s]
        /\ call.upto = Unknown => C[s] = 0 \/ recorded[s] = Unknown
        /\ call.upto # Unknown => IF s = call.last THEN B[s] + C[s] <= call.upto ELSE C[s] = 0
        /\ call.at = "turn" => /\ s = current.n => B[s] = 0 /\ C[s] = 0
                               /\ s = current.from /\ current.base # Unknown
                                    /\ current.sess # current.n => B[s] <= current.base

SplitInv == \E B \in [TurnNos -> Nat], C \in [TurnNos -> Nat] : Split(B, C)


\* More laws of sums: of nothing but zeros, of two functions together, of a smaller one.
LEMMA SumAtMost ==
    ASSUME NEW f, NEW g, NEW S, IsFiniteSet(S),
           \A x \in S : f[x] \in Nat /\ g[x] \in Nat /\ f[x] <= g[x]
    PROVE  Sum(f, S) <= Sum(g, S)
<1>. DEFINE Bad == {T \in SUBSET S : ~(Sum(f, T) <= Sum(g, T))}
<1>. SUFFICES ASSUME Bad # {} PROVE FALSE
  <2>1. S \in SUBSET S
    OBVIOUS
  <2> QED BY <2>1
<1>0. Bad \in SUBSET SUBSET S
  OBVIOUS
<1>1. PICK T \in Bad : \A U \in SUBSET T : U # T => U \notin Bad
  <2>. HIDE DEF Bad
  <2> QED BY <1>0, SmallestSubset
<1>2. /\ Sum(f, T) = IF T = {} THEN 0 ELSE f[Pick(T)] + Sum(f, T \ {Pick(T)})
      /\ Sum(g, T) = IF T = {} THEN 0 ELSE g[Pick(T)] + Sum(g, T \ {Pick(T)})
  BY SumRec, FS_Subset
<1>3. T # {} /\ Pick(T) \in T
  BY <1>1, <1>2, Picked
<1>4. Sum(f, T \ {Pick(T)}) <= Sum(g, T \ {Pick(T)})
  BY <1>1, <1>3
<1>5. Sum(f, T \ {Pick(T)}) \in Nat /\ Sum(g, T \ {Pick(T)}) \in Nat
  BY SumNat, FS_Subset
<1> QED BY <1>1, <1>2, <1>3, <1>4, <1>5

LEMMA SumOfBoth ==
    ASSUME NEW f, NEW g, NEW h, NEW S, IsFiniteSet(S),
           \A x \in S : f[x] \in Nat /\ g[x] \in Nat /\ h[x] = f[x] + g[x]
    PROVE  Sum(h, S) = Sum(f, S) + Sum(g, S)
<1>. DEFINE Bad == {T \in SUBSET S : Sum(h, T) # Sum(f, T) + Sum(g, T)}
<1>. SUFFICES ASSUME Bad # {} PROVE FALSE
  <2>1. S \in SUBSET S
    OBVIOUS
  <2> QED BY <2>1
<1>0. Bad \in SUBSET SUBSET S
  OBVIOUS
<1>1. PICK T \in Bad : \A U \in SUBSET T : U # T => U \notin Bad
  <2>. HIDE DEF Bad
  <2> QED BY <1>0, SmallestSubset
<1>2. /\ Sum(f, T) = IF T = {} THEN 0 ELSE f[Pick(T)] + Sum(f, T \ {Pick(T)})
      /\ Sum(g, T) = IF T = {} THEN 0 ELSE g[Pick(T)] + Sum(g, T \ {Pick(T)})
      /\ Sum(h, T) = IF T = {} THEN 0 ELSE h[Pick(T)] + Sum(h, T \ {Pick(T)})
  BY SumRec, FS_Subset
<1>3. T # {} /\ Pick(T) \in T
  BY <1>1, <1>2, Picked
<1>4. Sum(h, T \ {Pick(T)}) = Sum(f, T \ {Pick(T)}) + Sum(g, T \ {Pick(T)})
  BY <1>1, <1>3
<1>5. Sum(f, T \ {Pick(T)}) \in Nat /\ Sum(g, T \ {Pick(T)}) \in Nat
  BY SumNat, FS_Subset
<1>6. h[Pick(T)] = f[Pick(T)] + g[Pick(T)] /\ f[Pick(T)] \in Nat /\ g[Pick(T)] \in Nat
  BY <1>3
<1> QED BY <1>1, <1>2, <1>3, <1>4, <1>5, <1>6

LEMMA SumOfOne ==
    ASSUME NEW f, NEW S, IsFiniteSet(S), NEW x \in S, f[x] \in Nat,
           \A y \in S : y # x => f[y] = 0
    PROVE  Sum(f, S) = f[x]
<1>. DEFINE z == [y \in S |-> 0]
<1>1. Sum(z, S) = 0
  <2>1. \A y \in S : z[y] \in Nat /\ z[y] = z[y] + z[y]
    OBVIOUS
  <2>. HIDE DEF z
  <2>2. Sum(z, S) \in Nat /\ Sum(z, S) = Sum(z, S) + Sum(z, S)
    BY <2>1, SumOfBoth, SumNat
  <2>3. \A k \in Nat : k = k + k => k = 0
    OBVIOUS
  <2> QED BY <2>2, <2>3
<1>3. Sum(f, S) + z[x] = Sum(z, S) + f[x] /\ Sum(f, S) \in Nat
  <2>1. \A y \in S : z[y] \in Nat /\ f[y] \in Nat
    OBVIOUS
  <2>2. \A y \in S : y # x => f[y] = z[y]
    OBVIOUS
  <2>. HIDE DEF z
  <2> QED BY <2>1, <2>2, SumMoves
<1>4. z[x] = 0
  OBVIOUS
<1>. HIDE DEF z
<1> QED BY <1>1, <1>3, <1>4

\* The constants of the turns.
LEMMA TurnConstants ==
    /\ MaxTurns \in Nat /\ MaxTurns > 0 /\ MaxCost \in Nat
    /\ "none" \notin TurnRoles /\ Routings \subseteq [TurnRoles -> {"acp", "sdk"}]
    /\ TurnNos \subseteq Nat \ {0} /\ IsFiniteSet(TurnNos)
    /\ \A n \in Nat : n \in TurnNos <=> n # 0 /\ n <= MaxTurns
    /\ NoSession = 0 /\ Unknown = -1
<1>1. IsFiniteSet(1 .. MaxTurns)
  BY FS_Interval, AgentTurnsAssumption
<1> QED BY <1>1, AgentTurnsAssumption DEF TurnNos, NoSession, Unknown

\* A session that is named is one a turn has made.
LEMMA SessionsThere ==
    ASSUME TurnsOK, CutInv, OnOwn
    PROVE  /\ call.at = "turn" => current.n \in TurnNos
           /\ call.at = "turn" /\ current.sess # NoSession => current.sess \in TurnNos
           /\ current.from \in Nat
           /\ call.at = "turn" /\ current.from # NoSession => current.from \in TurnNos
           /\ call.resume # NoSession => call.resume \in TurnNos
           /\ call.last # NoSession => call.last \in TurnNos
           /\ current.step \notin {"idle"} => call.at = "turn"
BY TurnConstants DEF TurnsOK, CutInv, OnOwn, TurnRecords, CallRecords

\* Stopping an agent moves no session.
LEMMA ReapedKeeps ==
    ASSUME NEW as \in [TurnNos -> Agents]
    PROVE  /\ Reaped(as) \in [TurnNos -> Agents]
           /\ \A t \in TurnNos : /\ Reaped(as)[t].on = as[t].on
                                 /\ Reaped(as)[t].is \in {"up", "leaving"} <=>
                                      as[t].is \in {"up", "leaving"}
BY DEF Reaped, Agents

\* What a turn is said to have cost is a number: its last figure less its base.
LEMMA CostIsNat ==
    ASSUME TurnsOK
    PROVE  /\ CostOfTurn \in Nat
           /\ DeltaMeasured => /\ current.latest \in Nat /\ current.base \in Nat
                               /\ current.base + CostOfTurn = current.latest
           /\ ~DeltaMeasured => CostOfTurn = 0
BY TurnConstants DEF TurnsOK, TurnRecords, CostOfTurn, DeltaMeasured

TurnsInv == TurnsOK /\ CutInv /\ OnOwn /\ SpentOnMade /\ Records

\* A watchdog's reason is never that the agent ended its turn.
LEMMA StopsOf ==
    ASSUME current \in TurnRecords, NEW stop \in Stops
    PROVE  LET why == IF current.cut = "none" THEN stop ELSE StopOf(current.cut)
           IN  why \in Stops /\ (current.cut # "none" => why # "end_turn")
BY DEF StopOf, Stops

\* The locals of a turn keep their types.
LEMMA CurrentKept ==
    ASSUME TurnsInv, TurnsNext
    PROVE  current' \in TurnRecords
<1>. DEFINE Ended(stop) == IF current.cut = "none" THEN stop ELSE StopOf(current.cut)
<1>1. /\ current \in TurnRecords /\ call \in CallRecords /\ accrued \in [TurnNos -> Nat]
      /\ recorded \in [TurnNos -> Nat \cup {Unknown}]
  BY DEF TurnsInv, TurnsOK
<1>2. /\ call.at = "turn" => current.n \in TurnNos
      /\ call.at = "turn" /\ current.sess # NoSession => current.sess \in TurnNos
      /\ current.from \in Nat
      /\ call.at = "turn" /\ current.from # NoSession => current.from \in TurnNos
      /\ call.resume # NoSession => call.resume \in TurnNos
      /\ current.step # "idle" => call.at = "turn"
  BY SessionsThere DEF TurnsInv
<1>3. ASSUME NEW stop \in Stops PROVE Ended(stop) \in Stops
  BY <1>1, StopsOf
<1>4. {"end_turn", "max_tokens", "tool_error"} \subseteq Stops
  BY DEF Stops
<1>5. /\ current.step \in {"configure", "prompt"} \/ current.opened => current.sess # NoSession
      /\ current.step = "load" => current.from # NoSession
  BY DEF TurnsInv, OnOwn
<1>. HIDE DEF Ended
<1>6. CASE Begin
  <2>1. BaselineOf(call.resume) \in Nat \cup {Unknown} /\ call.resume \in Nat
    BY <1>1, <1>2 DEF BaselineOf, CallRecords
  <2>2. current.n + 1 \in Nat
    BY <1>1 DEF TurnRecords
  <2>3. NoTurn \in TurnRecords
    BY TurnConstants DEF NoTurn, TurnRecords, Waiting, Cuts, Stops
  <2> QED BY <1>6, <2>1, <2>2, <2>3 DEF Begin, TurnRecords, Waiting
<1>7. CASE Refused \/ \E t \in TurnNos : AgentExits(t)
  <2>1. current' = current
          \/ current' = [current EXCEPT !.step = "returned", !.stop = Ended("tool_error")]
    BY <1>7 DEF Refused, AgentExits, Ends, Ended
  <2> QED BY ZenonT(60), <1>1, <1>3, <1>4, <2>1 DEF TurnRecords
<1>8. CASE CostReplayed
  <2>1. \E b \in Nat \cup {Unknown}, m \in BOOLEAN :
            current' = [current EXCEPT !.base = b, !.mismatch = m]
    <3>. DEFINE s == IF current.sess = NoSession THEN current.from ELSE current.sess
    <3>1. s \in TurnNos
      BY <1>2, <1>5, <1>8 DEF CostReplayed, Answers
    <3>2. accrued[s] \in Nat /\ current.mismatch \in BOOLEAN
      BY <1>1, <3>1 DEF TurnRecords
    <3>3. current' = [current EXCEPT !.base = accrued[s],
              !.mismatch = current.mismatch \/ current.base \notin {Unknown, accrued[s]}]
      BY <1>8 DEF CostReplayed
    <3> QED BY <3>2, <3>3
  <2> QED BY <1>1, <2>1 DEF TurnRecords
<1>9. CASE \E kind \in {"text", "tool", "cost"} : Streams(kind)
  <2>1. accrued[current.sess] \in Nat
    BY <1>1, <1>2, <1>5, <1>9 DEF Streams, Answers
  <2>2. \/ current' = [current EXCEPT !.opened = TRUE, !.token = TRUE, !.text = TRUE]
        \/ current' = [current EXCEPT !.opened = TRUE]
        \/ current' = [current EXCEPT !.opened = TRUE, !.latest = accrued[current.sess]]
    <3>1. Activity(current) \in TurnRecords
      BY <1>1 DEF Activity, TurnRecords
    <3> QED BY <1>1, <1>9, <3>1 DEF Streams, Activity, TurnRecords
  <2> QED BY ZenonT(60), <1>1, <2>1, <2>2 DEF TurnRecords
<1>10. CASE \E stop \in {"end_turn", "max_tokens", "tool_error"}, tokens \in BOOLEAN :
                PromptAnswered(stop, tokens)
  <2>1. PICK stop \in Stops, tokens \in BOOLEAN :
            current' = [current EXCEPT !.step = "returned", !.tokens = tokens, !.stop = Ended(stop)]
    BY <1>4, <1>10 DEF PromptAnswered, Ended
  <2> QED BY <1>1, <1>3, <2>1 DEF TurnRecords
<1>11. CASE StreamOpens
  <2>1. PICK s \in Nat, b \in Nat : current' = [current EXCEPT !.opened = TRUE, !.sess = s, !.base = b]
    <3>1. call.at = "turn"
      BY <1>2, <1>11 DEF StreamOpens, StreamAlive
    <3>. DEFINE s == IF current.from = NoSession THEN current.n ELSE current.from
    <3>2. s \in TurnNos
      BY <1>2, <3>1
    <3>3. current' = [current EXCEPT !.opened = TRUE, !.sess = s, !.base = accrued[s]]
      BY <1>11 DEF StreamOpens
    <3> QED BY <1>1, <3>2, <3>3, TurnConstants
  <2> QED BY <1>1, <2>1 DEF TurnRecords
<1>12. CASE \E stop \in {"end_turn", "max_tokens", "tool_error"} : StreamResult(stop)
  <2>1. accrued[current.sess] \in Nat
    BY <1>1, <1>2, <1>5, <1>12 DEF StreamResult, StreamAlive
  <2>2. PICK stop \in Stops : current' = [current EXCEPT !.step = "returned",
                                  !.latest = accrued[current.sess], !.stop = Ended(stop)]
    BY <1>4, <1>12 DEF StreamResult, Ended
  <2> QED BY <1>1, <1>3, <2>1, <2>2 DEF TurnRecords
<1>13. CASE TakeTurn \/ \E reading \in {"none", "valid", "repaired", "invalid"} : TakeReply(reading)
  <2>1. current' = [NoTurn EXCEPT !.n = current.n]
    BY <1>13 DEF TakeTurn, TakeReply
  <2> QED BY ZenonT(60), <1>1, <2>1, TurnConstants DEF NoTurn, TurnRecords, Cuts, Stops
<1>14. CASE \E w \in {"open", "token", "overall"} : WatchdogFires(w)
  BY <1>1, <1>14 DEF WatchdogFires, TurnRecords, Cuts
<1>15. CASE Initialized \/ LoadRefused \/ Prompted \/ StreamSpeaks
  <2>1. \/ \E step \in Waiting : current' = [current EXCEPT !.step = step]
        \/ current' = [current EXCEPT !.token = TRUE, !.text = TRUE]
    BY <1>15 DEF Initialized, LoadRefused, Prompted, StreamSpeaks, GoesOn, Waiting
  <2> QED BY ZenonT(60), <1>1, <2>1 DEF TurnRecords
<1>16. CASE Loaded \/ Created
  <2>1. PICK s \in Nat : current' = [current EXCEPT !.sess = s, !.step = "configure"]
    BY <1>1, <1>2, <1>16 DEF Loaded, Created, OnSession, TurnRecords
  <2> QED BY <1>1, <2>1 DEF TurnRecords, Waiting
<1>17. CASE UNCHANGED current
  BY SMTT(40), <1>1, <1>17
<1> QED
  BY <1>6, <1>7, <1>8, <1>9, <1>10, <1>11, <1>12, <1>13, <1>14, <1>15, <1>16, <1>17
     DEF TurnsNext, Conversation, Caller, CallRole, Probe, ReadHead, ReadStatus, GitFails, Commit,
         Recount, Settle, OutOfTurns, AgentSpends, AgentEdits, AgentCommits

\* What is known of the call in progress keeps its types.
LEMMA CallKept ==
    ASSUME TurnsInv, TurnsNext
    PROVE  call' \in CallRecords
<1>0. "answered" \in Outcomes /\ "exhausted" \in Outcomes /\ "failed" \in Outcomes
  BY DEF Outcomes
<1>1. /\ current \in TurnRecords /\ call \in CallRecords /\ tree \in Worktrees
      /\ routing \in Routings
  BY DEF TurnsInv, TurnsOK
<1>2. CostOfTurn \in Nat /\ TurnMeasured \in BOOLEAN /\ HeardOf \in BOOLEAN
  BY CostIsNat, <1>1 DEF TurnsInv, TurnMeasured, HeardOf, CallRecords
<1>3. NoCall \in CallRecords
  BY TurnConstants DEF NoCall, CallRecords, Outcomes
<1>4. CASE \E role \in TurnRoles, resume \in {NoSession, call.last} : CallRole(role, resume)
  <2>1. PICK role \in TurnRoles, resume \in {NoSession, call.last} : CallRole(role, resume)
    BY <1>4
  <2>2. resume \in Nat /\ routing[role] \in {"acp", "sdk"} /\ tree.head \in Nat /\ call.last \in Nat
    BY <1>1, <2>1, TurnConstants DEF CallRecords, Worktrees
  <2> QED BY <1>3, <2>1, <2>2 DEF CallRole, CallRecords
<1>5. CASE Probe
  <2>1. \/ call' = call
        \/ call' = [call EXCEPT !.at = "settle", !.outcome = "failed", !.measured = FALSE]
    BY <1>5 DEF Probe
  <2> QED BY ZenonT(60), <1>0, <1>1, <2>1 DEF CallRecords
<1>6. CASE Begin \/ ReadHead \/ GitFails \/ OutOfTurns
  <2>1. tree.head \in Nat
    BY <1>1 DEF Worktrees
  <2>2. \/ call' = [call EXCEPT !.at = "turn"]
        \/ call' = [call EXCEPT !.at = "status", !.head = tree.head]
        \/ call' = [call EXCEPT !.at = "settle", !.outcome = "failed"]
        \/ call' = [call EXCEPT !.at = "settle", !.outcome = "exhausted"]
    BY <1>6 DEF Begin, ReadHead, GitFails, OutOfTurns
  <2>3. CASE call' = [call EXCEPT !.at = "turn"]
    BY <1>1, <2>3 DEF CallRecords
  <2>4. CASE call' = [call EXCEPT !.at = "status", !.head = tree.head]
    BY <1>1, <2>1, <2>4 DEF CallRecords
  <2>5. CASE call' = [call EXCEPT !.at = "settle", !.outcome = "failed"]
    BY <1>0, <1>1, <2>5 DEF CallRecords
  <2>6. CASE call' = [call EXCEPT !.at = "settle", !.outcome = "exhausted"]
    BY <1>0, <1>1, <2>6 DEF CallRecords
  <2> QED BY <2>2, <2>3, <2>4, <2>5, <2>6
<1>7. CASE ReadStatus \/ Recount
  <2>1. tree.dirty \in SUBSET Nat /\ call.dirty \in SUBSET Nat
    BY SMTT(40), <1>1 DEF Worktrees, CallRecords
  <2>2. \E d \in SUBSET Nat, b \in BOOLEAN, at \in {"commit", "settle"} :
            call' = [call EXCEPT !.dirty = d, !.commit = b, !.at = at]
    <3>1. CASE ReadStatus
      BY <2>1, <3>1 DEF ReadStatus
    <3>2. CASE Recount
      <4>1. call.commit \in BOOLEAN
        BY <1>1 DEF CallRecords
      <4>2. PICK d \in SUBSET Nat : call' = [call EXCEPT !.at = "settle", !.dirty = d]
        BY <2>1, <3>2 DEF Recount
      <4>3. call' = [call EXCEPT !.dirty = d, !.commit = call.commit, !.at = "settle"]
        BY <1>1, <4>2 DEF CallRecords
      <4> QED BY <4>1, <4>3
    <3> QED BY ZenonT(60), <1>7, <3>1, <3>2
  <2>3. PICK d \in SUBSET Nat, b \in BOOLEAN, at \in {"commit", "settle"} :
            call' = [call EXCEPT !.dirty = d, !.commit = b, !.at = at]
    BY <2>2
  <2> QED BY <1>1, <2>3 DEF CallRecords
<1>8. CASE Commit
  <2>1. PICK at \in {"settle", "recount"}, h \in BOOLEAN, b \in BOOLEAN :
            call' = [call EXCEPT !.at = at, !.harness = h, !.commit = b]
    BY <1>8 DEF Commit
  <2> QED BY <1>1, <2>1 DEF CallRecords
<1>9. CASE TakeTurn
  <2>1. WorkerStatus(current.stop) \in Outcomes
    BY <1>1 DEF WorkerStatus, TurnRecords, Stops, Outcomes
  <2>2. Cumulative \in Nat \cup {Unknown} /\ current.sess \in Nat
    BY <1>1 DEF Cumulative, TurnRecords
  <2>3. call' = [call EXCEPT !.at = "head", !.outcome = WorkerStatus(current.stop),
                    !.cost = CostOfTurn, !.measured = TurnMeasured, !.last = current.sess,
                    !.upto = Cumulative, !.cut = current.cut # "none"]
    BY <1>9 DEF TakeTurn
  <2> QED BY ZenonT(60), <1>1, <1>2, <2>1, <2>2, <2>3 DEF CallRecords
<1>10. CASE \E reading \in {"none", "valid", "repaired", "invalid"} : TakeReply(reading)
  <2>1. Counted(call) \in CallRecords
    <3>1. call.tries + 1 \in Nat /\ call.cost + CostOfTurn \in Nat
      BY <1>1, <1>2 DEF CallRecords
    <3> QED BY <1>1, <1>2, <3>1 DEF Counted, CallRecords
  <2>2. PICK b \in BOOLEAN, w \in BOOLEAN, p \in BOOLEAN :
          \/ call' = [Counted(call) EXCEPT !.at = "settle", !.outcome = "answered", !.cut = b,
                          !.whole = w, !.partial = p]
          \/ call' = [Counted(call) EXCEPT !.at = "begin"]
          \/ call' = [Counted(call) EXCEPT !.at = "settle", !.outcome = "exhausted"]
    BY <1>10 DEF TakeReply
  <2>3. CASE call' = [Counted(call) EXCEPT !.at = "settle", !.outcome = "answered", !.cut = b,
                          !.whole = w, !.partial = p]
    BY ZenonT(60), <1>0, <2>1, <2>3 DEF CallRecords
  <2>4. CASE call' = [Counted(call) EXCEPT !.at = "begin"]
    BY <2>1, <2>4 DEF CallRecords
  <2>5. CASE call' = [Counted(call) EXCEPT !.at = "settle", !.outcome = "exhausted"]
    BY <1>0, <2>1, <2>5 DEF CallRecords
  <2> QED BY <2>2, <2>3, <2>4, <2>5
<1>11. CASE Settle
  <2>1. call.last \in Nat /\ call' = [NoCall EXCEPT !.last = call.last]
    BY <1>1, <1>11 DEF Settle, CallRecords
  <2> QED BY <1>3, <2>1 DEF CallRecords
<1>12. CASE UNCHANGED call
  BY <1>1, <1>12
<1> QED
  BY <1>4, <1>5, <1>6, <1>7, <1>8, <1>9, <1>10, <1>11, <1>12
     DEF TurnsNext, Conversation, Caller, Initialized, Loaded, LoadRefused, Created, Prompted,
         Refused, CostReplayed, Streams, PromptAnswered, StreamOpens, StreamSpeaks, StreamResult,
         OnSession, WatchdogFires, AgentExits, AgentSpends, AgentEdits, AgentCommits

\* No agent is moved to another session but the one of the turn, when that gets one.
AgentsMove ==
    \A t \in TurnNos :
        /\ agents'[t].on \in {NoSession, agents[t].on, current'.sess}
        /\ agents'[t].on \notin {NoSession, agents[t].on} => t = current'.n
        /\ Alive(t)' => Alive(t) \/ t = current'.n

\* The agents keep their types, and stay on the sessions they are on.
LEMMA AgentsKept ==
    ASSUME TurnsInv, TurnsNext
    PROVE  agents' \in [TurnNos -> Agents] /\ AgentsMove
<1>1. /\ agents \in [TurnNos -> Agents] /\ current \in TurnRecords
      /\ call.at = "turn" => current.n \in TurnNos
      /\ current.step # "idle" => call.at = "turn"
      /\ call.at = "turn" /\ current.from # NoSession => current.from \in TurnNos
  BY SessionsThere DEF TurnsInv, TurnsOK
<1>2. NoAgent \in Agents
  BY TurnConstants DEF NoAgent, Agents
<1>3. CASE Begin
  <2>1. PICK h \in BOOLEAN :
            agents' = [agents EXCEPT ![current.n + 1] = [NoAgent EXCEPT !.is = "up", !.hands = h]]
    BY <1>3 DEF Begin
  <2>2. [NoAgent EXCEPT !.is = "up", !.hands = h] \in Agents
    BY <1>2 DEF Agents
  <2>3. current'.n = current.n + 1
    BY <1>3 DEF Begin, NoTurn
  <2>4. agents' \in [TurnNos -> Agents]
    BY <1>1, <2>1, <2>2
  <2>5. AgentsMove
    BY <1>1, <2>1, <2>3 DEF AgentsMove, Alive, NoAgent
  <2> QED BY <2>4, <2>5
<1>4. CASE Loaded \/ Created \/ StreamOpens
  <2>1. PICK s \in Nat : /\ current'.sess = s /\ current'.n = current.n
                         /\ \/ agents' = [agents EXCEPT ![current.n].on = s]
                            \/ agents' = [agents EXCEPT ![current.n].on = s, ![current.n].busy = TRUE]
    <3>1. CASE Loaded \/ Created
      BY <1>1, <3>1 DEF Loaded, Created, OnSession, TurnRecords
    <3>2. CASE StreamOpens
      <4>. DEFINE s == IF current.from = NoSession THEN current.n ELSE current.from
      <4>1. s \in Nat
        BY <1>1 DEF TurnRecords
      <4>2. /\ current' = [current EXCEPT !.opened = TRUE, !.sess = s, !.base = accrued[s]]
            /\ agents' = [agents EXCEPT ![current.n].on = s, ![current.n].busy = TRUE]
        BY <3>2 DEF StreamOpens
      <4>3. current'.sess = s /\ current'.n = current.n
        BY <1>1, <4>2 DEF TurnRecords
      <4> QED BY <4>1, <4>2, <4>3
    <3> QED BY <1>4, <3>1, <3>2
  <2>2. agents' \in [TurnNos -> Agents]
    BY <1>1, <2>1 DEF Agents
  <2>3. AgentsMove
    BY <1>1, <2>1 DEF AgentsMove, Alive, Agents
  <2> QED BY <2>2, <2>3
<1>5. CASE Prompted
  BY <1>1, <1>5 DEF Prompted, Agents, AgentsMove, Alive
<1>6. CASE \/ Refused
           \/ \E w \in {"open", "token", "overall"} : WatchdogFires(w)
           \/ \E stop \in {"end_turn", "max_tokens", "tool_error"}, tokens \in BOOLEAN :
                PromptAnswered(stop, tokens)
           \/ \E stop \in {"end_turn", "max_tokens", "tool_error"} : StreamResult(stop)
           \/ \E t \in TurnNos : AgentExits(t)
  <2>1. PICK as : /\ agents' = as \/ agents' = Reaped(as)
                  /\ \/ as = agents
                     \/ as = [agents EXCEPT ![current.n].busy = FALSE]
                     \/ \E t \in TurnNos : as = [agents EXCEPT ![t] = [NoAgent EXCEPT !.is = "gone"]]
    BY <1>6 DEF Refused, WatchdogFires, PromptAnswered, StreamResult, AgentExits, Ends
  <2>2. /\ as \in [TurnNos -> Agents]
        /\ \A t \in TurnNos : /\ as[t].on \in {NoSession, agents[t].on}
                              /\ as[t].is \in {"up", "leaving"} => Alive(t)
    <3>1. [NoAgent EXCEPT !.is = "gone"] \in Agents /\ [NoAgent EXCEPT !.is = "gone"].on = NoSession
          /\ [NoAgent EXCEPT !.is = "gone"].is = "gone"
      BY <1>2 DEF Agents, NoAgent
    <3>2. CASE as = agents
      BY <1>1, <3>2 DEF Alive
    <3>3. CASE as = [agents EXCEPT ![current.n].busy = FALSE]
      BY <1>1, <3>3 DEF Agents, Alive
    <3>4. CASE \E t \in TurnNos : as = [agents EXCEPT ![t] = [NoAgent EXCEPT !.is = "gone"]]
      BY <1>1, <3>1, <3>4 DEF Alive
    <3> QED BY <2>1, <3>2, <3>3, <3>4
  <2>3. /\ agents' \in [TurnNos -> Agents]
        /\ \A t \in TurnNos : /\ agents'[t].on = as[t].on
                              /\ agents'[t].is \in {"up", "leaving"} => as[t].is \in {"up", "leaving"}
    <3>1. CASE agents' = as
      BY <2>2, <3>1
    <3>2. CASE agents' = Reaped(as)
      BY <2>2, <3>2, ReapedKeeps
    <3> QED BY <2>1, <3>1, <3>2
  <2> QED BY <2>2, <2>3 DEF AgentsMove, Alive
<1>7. CASE UNCHANGED agents
  BY <1>1, <1>7 DEF AgentsMove, Alive
<1> QED
  BY <1>3, <1>4, <1>5, <1>6, <1>7
     DEF TurnsNext, Conversation, Caller, CallRole, Probe, ReadHead, ReadStatus, GitFails, Commit,
         Recount, Settle, OutOfTurns, AgentSpends, AgentEdits, AgentCommits, TakeTurn, TakeReply,
         Initialized, LoadRefused, GoesOn, CostReplayed, Streams, StreamSpeaks

\* The accounts, the worktree and the watchdogs keep their types.
LEMMA AccountsKept ==
    ASSUME TurnsInv, TurnsNext
    PROVE  /\ routing' \in Routings /\ probed' \in BOOLEAN /\ armed' \subseteq Cuts
           /\ accrued' \in [TurnNos -> Nat] /\ ledger' \in Nat /\ tree' \in Worktrees
           /\ recorded' \in [TurnNos -> Nat \cup {Unknown}]
<1>1. /\ routing \in Routings /\ probed \in BOOLEAN /\ armed \subseteq Cuts
      /\ accrued \in [TurnNos -> Nat] /\ ledger \in Nat /\ tree \in Worktrees
      /\ recorded \in [TurnNos -> Nat \cup {Unknown}]
      /\ call \in CallRecords /\ agents \in [TurnNos -> Agents]
  BY DEF TurnsInv, TurnsOK
<1>2. CASE \E t \in TurnNos : AgentEdits(t)
  <2>1. tree' = [tree EXCEPT !.made = @ + 1, !.dirty = @ \cup {tree.made + 1}]
    BY <1>2 DEF AgentEdits
  <2>2. tree.made + 1 \in Nat /\ tree.dirty \cup {tree.made + 1} \in SUBSET Nat
    BY <1>1 DEF Worktrees
  <2>3. tree' \in Worktrees
    BY <1>1, <2>1, <2>2 DEF Worktrees
  <2> QED BY <1>1, <1>2, <2>3 DEF AgentEdits
<1>3. CASE \E t \in TurnNos : AgentCommits(t)
  <2>1. tree' = [tree EXCEPT !.dirty = {}, !.committed = tree.committed \cup tree.dirty,
                             !.head = tree.head + 1]
    BY <1>3 DEF AgentCommits
  <2>2. tree.head + 1 \in Nat /\ tree.committed \cup tree.dirty \in SUBSET Nat
    BY <1>1 DEF Worktrees
  <2>3. tree' \in Worktrees
    BY <1>1, <2>1, <2>2 DEF Worktrees
  <2> QED BY <1>1, <1>3, <2>3 DEF AgentCommits
<1>4. CASE Commit
  <2>1. PICK c \in SUBSET Nat, h \in Nat :
            tree' = [tree EXCEPT !.dirty = {}, !.committed = c, !.head = h]
    <3>1. PICK never \in SUBSET tree.dirty :
              tree' = [tree EXCEPT !.dirty = {}, !.committed = @ \cup (tree.dirty \ never),
                          !.head = IF tree.dirty \ never = {} THEN @ ELSE @ + 1]
      BY <1>4 DEF Commit
    <3>2. /\ tree.committed \cup (tree.dirty \ never) \in SUBSET Nat
          /\ (IF tree.dirty \ never = {} THEN tree.head ELSE tree.head + 1) \in Nat
      BY <1>1 DEF Worktrees
    <3> QED BY <3>1, <3>2
  <2>2. tree' \in Worktrees
    BY <1>1, <2>1 DEF Worktrees
  <2> QED BY <1>1, <1>4, <2>2 DEF Commit
<1>5. CASE Settle
  <2>1. call.cost \in Nat /\ call.upto \in Nat \cup {Unknown}
    BY <1>1 DEF CallRecords
  <2> QED BY <1>1, <1>5, <2>1 DEF Settle
<1>6. CASE \E t \in TurnNos : AgentSpends(t)
  <2>1. PICK s : accrued' = [accrued EXCEPT ![s] = accrued[s] + 1]
    BY <1>6 DEF AgentSpends
  <2>2. accrued' \in [TurnNos -> Nat]
    <3>1. CASE s \in TurnNos
      BY <1>1, <2>1, <3>1
    <3>2. CASE s \notin TurnNos
      <4>1. DOMAIN accrued' = TurnNos /\ accrued' = [x \in TurnNos |-> accrued'[x]]
        BY <1>1, <2>1
      <4>2. \A x \in TurnNos : accrued'[x] = accrued[x]
        BY <1>1, <2>1, <3>2
      <4> QED BY <1>1, <4>1, <4>2
    <3> QED BY <3>1, <3>2
  <2> QED BY <1>1, <1>6, <2>2 DEF AgentSpends
<1>7. CASE UNCHANGED <<accrued, recorded, ledger, tree>>
           /\ armed' \subseteq armed \cup {"open", "token", "overall"}
           /\ routing' = routing /\ probed' \in {probed, TRUE}
  BY <1>1, <1>7 DEF Cuts
<1>8. ASSUME \/ Conversation \/ \E w \in {"open", "token", "overall"} : WatchdogFires(w)
             \/ \E t \in TurnNos : AgentExits(t)
             \/ \E role \in TurnRoles, resume \in {NoSession, call.last} : CallRole(role, resume)
             \/ Caller /\ ~Commit /\ ~Settle
      PROVE  /\ UNCHANGED <<accrued, recorded, ledger, tree>>
             /\ armed' \subseteq armed \cup {"open", "token", "overall"}
             /\ routing' = routing /\ probed' \in {probed, TRUE}
  <2>1. CASE Conversation
    BY <2>1 DEF Conversation, Initialized, Loaded, LoadRefused, GoesOn, Created, OnSession, Prompted,
         Refused, Ends, CostReplayed, Streams, ArmedByActivity, PromptAnswered, StreamOpens,
         StreamSpeaks, StreamResult
  <2>2. CASE Caller /\ ~Commit /\ ~Settle
    BY <2>2 DEF Caller, Probe, Begin, TakeTurn, ReadHead, ReadStatus, GitFails, Recount, TakeReply,
         OutOfTurns
  <2> QED BY <1>8, <2>1, <2>2 DEF WatchdogFires, AgentExits, Ends, CallRole
<1> QED
  BY <1>2, <1>3, <1>4, <1>5, <1>6, <1>7, <1>8 DEF TurnsNext, Caller

\* A turn that was cut answers nothing: its watchdogs are gone when it is over, and what
\* it is over with is their reason.
LEMMA CutKept ==
    ASSUME TurnsInv, TurnsNext
    PROVE  CutInv'
<1>1. /\ current \in TurnRecords /\ call \in CallRecords /\ CutInv
      /\ current' \in TurnRecords /\ call' \in CallRecords
  BY CurrentKept, CallKept DEF TurnsInv, TurnsOK
<1>2. ASSUME NEW stop \in Stops
      PROVE  LET why == IF current.cut = "none" THEN stop ELSE StopOf(current.cut)
             IN  current.cut # "none" => why # "end_turn"
  BY <1>1, StopsOf
<1>3. {"end_turn", "max_tokens", "tool_error"} \subseteq Stops
  BY DEF Stops
<1>4. CASE \/ Refused \/ \E t \in TurnNos : AgentExits(t)
           \/ \E stop \in {"end_turn", "max_tokens", "tool_error"}, tokens \in BOOLEAN :
                PromptAnswered(stop, tokens)
           \/ \E stop \in {"end_turn", "max_tokens", "tool_error"} : StreamResult(stop)
  <2>1. CASE UNCHANGED <<current, armed>>
    BY <1>1, <1>4, <2>1 DEF CutInv, Refused, AgentExits, PromptAnswered, StreamResult
  <2>2. CASE \E stop \in Stops :
                /\ armed' = {} /\ current'.step = "returned" /\ current.step # "idle"
                /\ current'.cut = current.cut
                /\ current'.stop = IF current.cut = "none" THEN stop ELSE StopOf(current.cut)
    BY <1>1, <1>2, <1>4, <2>2 DEF CutInv, Refused, AgentExits, PromptAnswered, StreamResult
  <2>3. ASSUME NEW stop \in Stops, Ends(stop, agents) \/ \E as : Ends(stop, as)
        PROVE  /\ armed' = {} /\ current'.step = "returned" /\ current'.cut = current.cut
               /\ current'.stop = IF current.cut = "none" THEN stop ELSE StopOf(current.cut)
    BY <1>1, <2>3 DEF Ends, TurnRecords
  <2>4. CASE Refused
    BY <1>3, <2>2, <2>3, <2>4 DEF Refused, Answers
  <2>5. CASE \E t \in TurnNos : AgentExits(t)
    BY <1>3, <2>1, <2>2, <2>3, <2>5 DEF AgentExits, Waiting
  <2>6. CASE \E stop \in {"end_turn", "max_tokens", "tool_error"}, tokens \in BOOLEAN :
                PromptAnswered(stop, tokens)
    <3>1. PICK stop \in Stops, tokens \in BOOLEAN : PromptAnswered(stop, tokens)
      BY <1>3, <2>6
    <3> QED BY <1>1, <2>2, <3>1 DEF PromptAnswered, Answers, TurnRecords
  <2>7. CASE \E stop \in {"end_turn", "max_tokens", "tool_error"} : StreamResult(stop)
    <3>1. PICK stop \in Stops : StreamResult(stop)
      BY <1>3, <2>7
    <3> QED BY <1>1, <2>2, <3>1 DEF StreamResult, StreamAlive, TurnRecords
  <2> QED BY <1>4, <2>4, <2>5, <2>6, <2>7
<1>5. CASE \E w \in {"open", "token", "overall"} : WatchdogFires(w)
  BY <1>1, <1>5 DEF WatchdogFires, CutInv, TurnRecords
<1>6. CASE \/ Initialized \/ Loaded \/ LoadRefused \/ Created \/ Prompted \/ CostReplayed
           \/ \E kind \in {"text", "tool", "cost"} : Streams(kind)
           \/ StreamOpens \/ StreamSpeaks
  <2>1. /\ call' = call /\ current.step \in Waiting /\ current'.step \in Waiting
    BY <1>1, <1>6 DEF Initialized, Loaded, LoadRefused, Created, OnSession, GoesOn, Prompted, CostReplayed,
         Streams, Activity, StreamOpens, StreamSpeaks, StreamAlive, Answers, TurnRecords, Waiting
  <2> QED BY <1>1, <2>1 DEF CutInv, Waiting
<1>7. CASE Begin
  <2>1. call'.at = "turn" /\ call'.outcome = call.outcome /\ call'.cut = call.cut
    BY <1>1, <1>7 DEF Begin, CallRecords
  <2>2. current'.step \in {"initialize", "stream"}
    BY <1>7 DEF Begin, NoTurn
  <2> QED BY <1>1, <2>1, <2>2 DEF CutInv
<1>8. CASE TakeTurn
  <2>1. /\ call'.at = "head" /\ call'.cut = (current.cut # "none")
        /\ call'.outcome = WorkerStatus(current.stop) /\ armed' = armed
        /\ current'.step = "idle" /\ current.step = "returned"
    BY <1>1, <1>8 DEF TakeTurn, CallRecords, NoTurn, Returned
  <2>2. current.stop # "end_turn" => WorkerStatus(current.stop) \notin {"answered", "completed"}
    BY <1>1 DEF WorkerStatus, TurnRecords, Stops
  <2> QED BY <1>1, <2>1, <2>2 DEF CutInv
<1>9. CASE \E reading \in {"none", "valid", "repaired", "invalid"} : TakeReply(reading)
  <2>1. PICK reading \in {"none", "valid", "repaired", "invalid"} : TakeReply(reading)
    BY <1>9
  <2>2. /\ current'.step = "idle" /\ current.step = "returned" /\ armed' = armed
    BY <2>1 DEF TakeReply, NoTurn, Returned
  <2>3. current.cut # "none" => reading = "none"
    BY <2>1 DEF TakeReply, ReadAs, NoReply
  <2>4. Counted(call).outcome = call.outcome /\ Counted(call).cut = call.cut
    BY <1>1 DEF Counted, CallRecords
  <2>5. DOMAIN Counted(call) = DOMAIN call /\ {"at", "outcome", "cut"} \subseteq DOMAIN call
    BY <1>1 DEF Counted, CallRecords
  <2>6. call'.at # "turn" /\ (call'.outcome \in {"answered", "completed"} => ~call'.cut)
    <3>1. CASE reading \in {"valid", "repaired"}
      BY <2>1, <2>3, <2>5, <3>1 DEF TakeReply
    <3>2. CASE reading \notin {"valid", "repaired"} /\ MayRetry
      BY <1>1, <2>1, <2>4, <2>5, <3>2 DEF TakeReply, CutInv
    <3>3. CASE reading \notin {"valid", "repaired"} /\ ~MayRetry
      BY <2>1, <2>5, <3>3 DEF TakeReply
    <3> QED BY <3>1, <3>2, <3>3
  <2> QED BY <1>1, <2>2, <2>6 DEF CutInv
<1>10. CASE \/ \E role \in TurnRoles, resume \in {NoSession, call.last} : CallRole(role, resume)
            \/ Settle
  <2>1. UNCHANGED <<current, armed>> /\ call.at # "turn"
    BY <1>10 DEF CallRole, Settle
  <2>2. call'.at # "turn" /\ call'.outcome = "none"
    <3>1. CASE Settle
      BY <3>1 DEF Settle, NoCall
    <3>2. CASE \E role \in TurnRoles, resume \in {NoSession, call.last} : CallRole(role, resume)
      <4>1. PICK role \in TurnRoles, resume \in {NoSession, call.last} : CallRole(role, resume)
        BY <3>2
      <4> QED BY <4>1 DEF CallRole, NoCall
    <3> QED BY <1>10, <3>1, <3>2
  <2> QED BY SMTT(40), <1>1, <2>1, <2>2 DEF CutInv
<1>12. CASE Probe \/ ReadHead \/ ReadStatus \/ GitFails \/ Commit \/ Recount \/ OutOfTurns
  <2>1. UNCHANGED <<current, armed>> /\ call.at # "turn"
    BY <1>12 DEF Probe, ReadHead, ReadStatus, GitFails, Commit, Recount, OutOfTurns
  <2>2. /\ call'.at # "turn"
        /\ \/ call'.outcome \in {"failed", "exhausted"}
           \/ call'.outcome = call.outcome /\ call'.cut = call.cut
    <3>1. CASE Probe
      BY <1>1, <2>1, <3>1 DEF Probe, CallRecords
    <3>2. CASE ReadHead \/ ReadStatus
      BY <1>1, <3>2 DEF ReadHead, ReadStatus, CallRecords
    <3>3. CASE GitFails \/ OutOfTurns
      BY <1>1, <3>3 DEF GitFails, OutOfTurns, CallRecords
    <3>4. CASE Commit
      BY <1>1, <3>4 DEF Commit, CallRecords
    <3>5. CASE Recount
      BY <1>1, <3>5 DEF Recount, CallRecords
    <3> QED BY <1>12, <3>1, <3>2, <3>3, <3>4, <3>5
  <2> QED BY SMTT(40), <1>1, <2>1, <2>2 DEF CutInv
<1>11. CASE \E t \in TurnNos : AgentSpends(t) \/ AgentEdits(t) \/ AgentCommits(t)
  BY <1>1, <1>11 DEF AgentSpends, AgentEdits, AgentCommits, CutInv
<1> QED
  BY <1>4, <1>5, <1>6, <1>7, <1>8, <1>9, <1>10, <1>11, <1>12
     DEF TurnsNext, Conversation, Caller

\* A step of the conversation, of a watchdog or of a process leaves the call alone.
LEMMA CallStands ==
    ASSUME TurnsInv,
           \/ Conversation \/ \E w \in {"open", "token", "overall"} : WatchdogFires(w)
           \/ \E t \in TurnNos : AgentExits(t)
    PROVE  /\ UNCHANGED <<call, accrued, recorded, ledger, routing>>
           /\ current'.n = current.n /\ current'.from = current.from
           /\ call.at # "turn" => current'.sess = current.sess /\ current'.latest = current.latest
<1>1. current \in TurnRecords /\ (call.at = "turn" <=> current.step # "idle")
  BY DEF TurnsInv, TurnsOK, CutInv
<1>2. UNCHANGED <<call, accrued, recorded, ledger, routing>>
  BY DEF Conversation, Initialized, Loaded, LoadRefused, Created, OnSession, GoesOn, Prompted,
     Refused, CostReplayed, Streams, PromptAnswered, StreamOpens, StreamSpeaks, StreamResult,
     WatchdogFires, AgentExits
<1>3. ASSUME NEW t \in TurnRecords PROVE Activity(t).n = t.n /\ Activity(t).from = t.from
                                        /\ Activity(t) \in TurnRecords
  BY <1>3 DEF Activity, TurnRecords
<1>4. CASE \E kind \in {"text", "tool", "cost"} : Streams(kind)
  BY <1>1, <1>2, <1>3, <1>4 DEF Streams, TurnRecords, Answers
<1>5. CASE \/ Initialized \/ Loaded \/ LoadRefused \/ Created \/ Prompted \/ Refused
           \/ CostReplayed \/ StreamOpens \/ StreamSpeaks
  BY <1>1, <1>2, <1>5 DEF Initialized, Loaded, LoadRefused, Created, OnSession, GoesOn, Prompted,
     Refused, Ends, CostReplayed, StreamOpens, StreamSpeaks, StreamAlive, Answers, TurnRecords
<1>6. CASE \/ \E stop \in {"end_turn", "max_tokens", "tool_error"}, tokens \in BOOLEAN :
                  PromptAnswered(stop, tokens)
           \/ \E stop \in {"end_turn", "max_tokens", "tool_error"} : StreamResult(stop)
  BY <1>1, <1>2, <1>6 DEF PromptAnswered, StreamResult, StreamAlive, Answers, TurnRecords
<1>7. CASE \/ \E w \in {"open", "token", "overall"} : WatchdogFires(w)
           \/ \E t \in TurnNos : AgentExits(t)
  BY <1>1, <1>2, <1>7 DEF WatchdogFires, AgentExits, Ends, TurnRecords
<1> QED BY <1>4, <1>5, <1>6, <1>7 DEF Conversation

\* A turn stays on the session it was asked to resume or on its own.
LEMMA OwnKept ==
    ASSUME TurnsInv, TurnsNext
    PROVE  OnOwn'
<1>1. /\ current \in TurnRecords /\ call \in CallRecords /\ accrued \in [TurnNos -> Nat]
      /\ current' \in TurnRecords /\ call' \in CallRecords
      /\ (call.at = "turn" <=> current.step # "idle") /\ OnOwn
  BY CurrentKept, CallKept DEF TurnsInv, TurnsOK, CutInv
<1>2. /\ call.at = "turn" => current.n \in TurnNos
      /\ call.at = "turn" /\ current.sess # NoSession => current.sess \in TurnNos
      /\ call.at = "turn" /\ current.from # NoSession => current.from \in TurnNos
  BY SessionsThere DEF TurnsInv
<1>3. ASSUME UNCHANGED <<call, accrued>>, current'.n = current.n, current'.from = current.from,
             current'.sess \in {NoSession, current.n, current.from},
             call.at # "turn" => current'.sess = NoSession,
             current'.step \in {"initialize", "load", "new"} => current'.sess = NoSession,
             current'.step = "stream" /\ ~current'.opened => current'.sess = NoSession,
             current'.step = "load" => current.from # NoSession,
             current'.step \in {"configure", "prompt"} \/ current'.opened => current'.sess # NoSession,
             current'.latest # Unknown =>
                 current'.sess # NoSession /\ current'.latest <= accrued[current'.sess]
      PROVE  OnOwn'
  BY <1>1, <1>3 DEF OnOwn
<1>4. CASE \/ Conversation \/ \E w \in {"open", "token", "overall"} : WatchdogFires(w)
           \/ \E t \in TurnNos : AgentExits(t)
  <2>1. UNCHANGED <<call, accrued>> /\ current'.n = current.n /\ current'.from = current.from
    BY <1>4, CallStands
  <2>2. ASSUME UNCHANGED <<current.sess, current.latest, current.opened>>,
               current'.step \in {current.step, "returned"}
        PROVE  OnOwn'
    BY <1>1, <1>3, <2>1, <2>2 DEF OnOwn
  <2>3. CASE Initialized
    <3>1. current' = [current EXCEPT !.step = IF current.from = NoSession THEN "new" ELSE "load"]
             /\ current.step = "initialize"
      BY <2>3 DEF Initialized, GoesOn, Answers
    <3> QED BY <1>1, <1>3, <2>1, <3>1 DEF OnOwn, TurnRecords
  <2>4. CASE LoadRefused
    <3>1. current' = [current EXCEPT !.step = "new"] /\ current.step = "load"
      BY <2>4 DEF LoadRefused, GoesOn, Answers
    <3> QED BY <1>1, <1>3, <2>1, <3>1 DEF OnOwn, TurnRecords
  <2>5. CASE Loaded \/ Created
    <3>1. PICK s \in {current.n, current.from} \ {NoSession} :
              /\ current' = [current EXCEPT !.sess = s, !.step = "configure"]
              /\ current.step \in {"load", "new"}
      BY <1>1, <1>2, <2>5, TurnConstants DEF Loaded, Created, OnSession, Answers, OnOwn
    <3>2. current'.sess = s /\ current'.step = "configure" /\ current'.latest = current.latest
             /\ current'.opened = current.opened /\ current.latest = Unknown
      BY <1>1, <3>1 DEF OnOwn, TurnRecords
    <3>3. call.at = "turn" /\ s # NoSession /\ s \in {current.n, current.from}
      BY <1>1, <3>1
    <3> QED BY <1>3, <2>1, <3>2, <3>3
  <2>6. CASE Prompted
    <3>1. current' = [current EXCEPT !.step = "prompt"] /\ current.step = "configure"
      BY <2>6 DEF Prompted, Answers
    <3> QED BY <1>1, <1>3, <2>1, <3>1 DEF OnOwn, TurnRecords
  <2>7. CASE CostReplayed \/ StreamSpeaks \/ \E w \in {"open", "token", "overall"} : WatchdogFires(w)
    BY <1>1, <2>2, <2>7 DEF CostReplayed, StreamSpeaks, WatchdogFires, TurnRecords
  <2>8. CASE \E kind \in {"text", "tool", "cost"} : Streams(kind)
    <3>1. current.step = "prompt" /\ current.sess # NoSession /\ accrued[current.sess] \in Nat
      BY <1>1, <1>2, <2>8 DEF Streams, Answers, OnOwn
    <3>2. /\ current'.sess = current.sess /\ current'.step = "prompt"
          /\ current'.latest \in {current.latest, accrued[current.sess]}
      <4>1. Activity(current) \in TurnRecords /\ Activity(current).sess = current.sess
              /\ Activity(current).step = current.step /\ Activity(current).latest = current.latest
        BY <1>1 DEF Activity, TurnRecords
      <4> QED BY <2>8, <3>1, <4>1 DEF Streams, TurnRecords
    <3> QED BY <1>1, <1>3, <2>1, <3>1, <3>2 DEF OnOwn
  <2>9. CASE StreamOpens
    <3>. DEFINE s == IF current.from = NoSession THEN current.n ELSE current.from
    <3>1. s # NoSession /\ s \in {current.n, current.from} /\ current.step = "stream" /\ ~current.opened
      BY <1>1, <1>2, <2>9, TurnConstants DEF StreamOpens, StreamAlive
    <3>2. current' = [current EXCEPT !.opened = TRUE, !.sess = s, !.base = accrued[s]]
      BY <2>9 DEF StreamOpens
    <3>3. current'.sess = s /\ current'.step = "stream" /\ current'.latest = current.latest
             /\ current.latest = Unknown
      BY <1>1, <3>1, <3>2 DEF OnOwn, TurnRecords
    <3>. HIDE DEF s
    <3>4. call.at = "turn" /\ current'.opened
      BY <1>1, <3>1, <3>2 DEF TurnRecords
    <3> QED BY <1>3, <2>1, <3>1, <3>3, <3>4
  <2>10. CASE \/ Refused \/ \E t \in TurnNos : AgentExits(t)
              \/ \E stop \in {"end_turn", "max_tokens", "tool_error"}, tokens \in BOOLEAN :
                    PromptAnswered(stop, tokens)
    BY <1>1, <2>2, <2>10 DEF Refused, AgentExits, Ends, PromptAnswered, TurnRecords
  <2>11. CASE \E stop \in {"end_turn", "max_tokens", "tool_error"} : StreamResult(stop)
    <3>1. current.step = "stream" /\ current.sess # NoSession /\ accrued[current.sess] \in Nat
      BY <1>1, <1>2, <2>11 DEF StreamResult, StreamAlive, OnOwn
    <3>2. /\ current'.sess = current.sess /\ current'.step = "returned"
          /\ current'.latest = accrued[current.sess]
      BY <1>1, <2>11 DEF StreamResult, TurnRecords
    <3> QED BY <1>1, <1>3, <2>1, <3>1, <3>2 DEF OnOwn
  <2> QED
    BY <1>4, <2>3, <2>4, <2>5, <2>6, <2>7, <2>8, <2>9, <2>10, <2>11 DEF Conversation
<1>5. CASE Begin
  <2>1. /\ current'.n = current.n + 1 /\ current'.from = call.resume /\ current'.sess = NoSession
        /\ current'.latest = Unknown /\ ~current'.opened /\ current'.step \in {"initialize", "stream"}
        /\ current.n < MaxTurns /\ call' = [call EXCEPT !.at = "turn"]
    BY <1>5 DEF Begin, NoTurn
  <2>2. call'.at = "turn" /\ call'.resume = call.resume /\ call'.last = call.last /\ call'.role = call.role
    BY <1>1, <2>1 DEF CallRecords
  <2> QED BY <1>1, <2>1, <2>2, TurnConstants DEF OnOwn, TurnRecords, CallRecords
<1>6. CASE TakeTurn \/ \E reading \in {"none", "valid", "repaired", "invalid"} : TakeReply(reading)
  <2>1. /\ current'.n = current.n /\ current'.from = NoSession /\ current'.sess = NoSession
        /\ current'.latest = Unknown /\ ~current'.opened /\ current'.step = "idle"
    BY <1>6 DEF TakeTurn, TakeReply, NoTurn
  <2>2. call'.resume = call.resume /\ call'.role = call.role /\ call'.at # "turn"
           /\ call'.last \in {call.last, current.sess}
    <3>1. CASE TakeTurn
      BY <1>1, <3>1 DEF TakeTurn, CallRecords
    <3>2. CASE \E reading \in {"none", "valid", "repaired", "invalid"} : TakeReply(reading)
      <4>1. Counted(call).resume = call.resume /\ Counted(call).role = call.role
               /\ Counted(call).last = call.last /\ DOMAIN Counted(call) = DOMAIN call
               /\ "at" \in DOMAIN call
        BY <1>1 DEF Counted, CallRecords
      <4> QED BY <3>2, <4>1 DEF TakeReply
    <3> QED BY <1>6, <3>1, <3>2
  <2>3. current.sess <= current.n
    <3>1. call.at = "turn"
      BY <1>6 DEF TakeTurn, TakeReply, Returned
    <3> QED BY <1>1, <3>1, TurnConstants DEF OnOwn, TurnRecords, CallRecords
  <2> QED BY <1>1, <2>1, <2>2, <2>3, TurnConstants DEF OnOwn
<1>7. CASE \/ \E role \in TurnRoles, resume \in {NoSession, call.last} : CallRole(role, resume)
           \/ Settle
  <2>1. UNCHANGED <<current, accrued>> /\ call.at # "turn"
    BY <1>7 DEF CallRole, Settle
  <2>2. /\ call'.at # "turn" /\ call'.last = call.last /\ call'.resume \in {NoSession, call.last}
        /\ call'.resume # NoSession => call'.role = "worker"
    <3>1. CASE Settle
      BY <3>1 DEF Settle, NoCall
    <3>2. CASE \E role \in TurnRoles, resume \in {NoSession, call.last} : CallRole(role, resume)
      <4>1. PICK role \in TurnRoles, resume \in {NoSession, call.last} : CallRole(role, resume)
        BY <3>2
      <4> QED BY <4>1 DEF CallRole, NoCall
    <3> QED BY <1>7, <3>1, <3>2
  <2> QED BY SMTT(40), <1>1, <2>1, <2>2, TurnConstants DEF OnOwn
<1>8. CASE Probe \/ ReadHead \/ ReadStatus \/ GitFails \/ Commit \/ Recount \/ OutOfTurns
  <2>1. UNCHANGED <<current, accrued>> /\ call.at # "turn"
    BY <1>8 DEF Probe, ReadHead, ReadStatus, GitFails, Commit, Recount, OutOfTurns
  <2>2. /\ call'.at # "turn" /\ call'.last = call.last /\ call'.resume = call.resume
        /\ call'.role = call.role
    <3>1. CASE Probe
      BY ZenonT(60), <1>1, <3>1, <2>1 DEF Probe, CallRecords
    <3>2. CASE ReadHead \/ ReadStatus
      BY ZenonT(60), <1>1, <3>2 DEF ReadHead, ReadStatus, CallRecords
    <3>3. CASE GitFails \/ OutOfTurns
      BY ZenonT(60), <1>1, <3>3 DEF GitFails, OutOfTurns, CallRecords
    <3>4. CASE Commit
      BY ZenonT(60), <1>1, <3>4 DEF Commit, CallRecords
    <3>5. CASE Recount
      BY <1>1, <3>5 DEF Recount, CallRecords
    <3> QED BY <1>8, <3>1, <3>2, <3>3, <3>4, <3>5
  <2> QED BY SMTT(40), <1>1, <2>1, <2>2 DEF OnOwn
<1>9. CASE \E t \in TurnNos : AgentSpends(t) \/ AgentEdits(t) \/ AgentCommits(t)
  <2>1. UNCHANGED <<call, current>>
    BY <1>9 DEF AgentSpends, AgentEdits, AgentCommits
  <2>2. \A s \in TurnNos : accrued[s] <= accrued'[s]
    BY <1>1, <1>9 DEF AgentSpends, AgentEdits, AgentCommits
  <2>3. current.latest # Unknown => current.latest <= accrued'[current.sess]
    <3>1. ASSUME current.latest # Unknown PROVE current.sess \in TurnNos
      <4>1. current.sess # NoSession
        BY <1>1, <3>1 DEF OnOwn
      <4>2. current.sess \in {current.n, current.from} /\ current.n \in 0 .. MaxTurns
        BY <1>1, <4>1 DEF OnOwn
      <4>3. current.from <= current.n
        BY <1>1, <4>1 DEF OnOwn
      <4> QED BY <1>1, <4>1, <4>2, <4>3, TurnConstants DEF TurnRecords
    <3> QED BY <1>1, <2>2, <3>1, AccountsKept DEF OnOwn, TurnRecords
  <2> QED BY <1>1, <2>1, <2>3 DEF OnOwn
<1> QED
  BY <1>4, <1>5, <1>6, <1>7, <1>8, <1>9 DEF TurnsNext, Caller

\* The turns are counted upwards, and only a turn that begins counts.
LEMMA TurnsCount ==
    ASSUME TurnsInv, TurnsNext
    PROVE  /\ current'.n = current.n \/ Begin
           /\ Begin => current'.n = current.n + 1
<1>1. CASE \/ Conversation \/ \E w \in {"open", "token", "overall"} : WatchdogFires(w)
           \/ \E t \in TurnNos : AgentExits(t)
  <2>1. current'.n = current.n
    BY <1>1, CallStands
  <2>2. Begin => current'.n = current.n + 1
    BY DEF Begin, NoTurn
  <2> QED BY <2>1, <2>2
<1>2. CASE ~(\/ Conversation \/ \E w \in {"open", "token", "overall"} : WatchdogFires(w)
             \/ \E t \in TurnNos : AgentExits(t))
  BY <1>2 DEF TurnsNext, Caller, CallRole, Probe, Begin, TakeTurn, TakeReply, ReadHead, ReadStatus,
     GitFails, Commit, Recount, Settle, OutOfTurns, AgentSpends, AgentEdits, AgentCommits, NoTurn
<1> QED BY <1>1, <1>2

\* Only an agent that runs spends, on the session it is on.
LEMMA MadeKept ==
    ASSUME TurnsInv, TurnsNext
    PROVE  SpentOnMade'
<1>1. /\ current \in TurnRecords /\ current' \in TurnRecords /\ accrued \in [TurnNos -> Nat]
      /\ call' \in CallRecords /\ agents \in [TurnNos -> Agents] /\ agents' \in [TurnNos -> Agents]
      /\ AgentsMove /\ OnOwn' /\ SpentOnMade
  BY CurrentKept, CallKept, AgentsKept, OwnKept DEF TurnsInv, TurnsOK
<1>2. current.n <= current'.n
  BY <1>1, TurnsCount DEF TurnRecords
<1>3. current'.sess <= current'.n
  BY <1>1, TurnConstants DEF OnOwn, TurnRecords, CallRecords
<1>4. ASSUME NEW t \in TurnNos PROVE agents'[t].on <= t
  BY <1>1, <1>3, <1>4, TurnConstants DEF AgentsMove, SpentOnMade, Agents, TurnRecords
<1>5. ASSUME NEW t \in TurnNos, Alive(t)' PROVE t <= current'.n
  BY <1>1, <1>2, <1>5, TurnConstants DEF AgentsMove, SpentOnMade, TurnRecords
<1>6. ASSUME NEW s \in TurnNos, s > current'.n PROVE accrued'[s] = 0
  <2>1. accrued[s] = 0
    BY <1>1, <1>2, <1>6, TurnConstants DEF SpentOnMade, TurnRecords
  <2>2. CASE \E t \in TurnNos : AgentSpends(t)
    <3>1. PICK t \in TurnNos : AgentSpends(t)
      BY <2>2
    <3>2. agents[t].on <= t /\ t <= current.n /\ agents[t].on \in Nat
      BY <1>1, <3>1 DEF AgentSpends, Working, SpentOnMade, Agents
    <3>3. agents[t].on # s
      BY <1>1, <1>2, <1>6, <3>2, TurnConstants DEF TurnRecords
    <3> QED BY <1>1, <2>1, <3>1, <3>3 DEF AgentSpends
  <2>3. CASE ~\E t \in TurnNos : AgentSpends(t)
    <3>1. UNCHANGED accrued
      <4>1. CASE \/ Conversation \/ \E w \in {"open", "token", "overall"} : WatchdogFires(w)
                 \/ \E t \in TurnNos : AgentExits(t)
        BY <4>1, CallStands
      <4> QED BY <2>3, <4>1 DEF TurnsNext, Caller, CallRole, Probe, Begin, TakeTurn, TakeReply,
         ReadHead, ReadStatus, GitFails, Commit, Recount, Settle, OutOfTurns, AgentEdits, AgentCommits
    <3> QED BY SMTT(40), <2>1, <3>1
  <2> QED BY <2>2, <2>3
<1> QED BY <1>4, <1>5, <1>6 DEF SpentOnMade

\* Checkpoints stay a worker's on OpenCode.
LEMMA RecordsKept ==
    ASSUME TurnsInv, TurnsNext
    PROVE  Records'
<1>1. /\ current \in TurnRecords /\ call \in CallRecords /\ call' \in CallRecords
      /\ recorded \in [TurnNos -> Nat \cup {Unknown}] /\ Records /\ OnOwn
      /\ OnOwn' /\ (call.at = "turn" <=> current.step # "idle")
  BY CallKept, OwnKept DEF TurnsInv, TurnsOK, CutInv
<1>2. CASE \/ Conversation \/ \E w \in {"open", "token", "overall"} : WatchdogFires(w)
           \/ \E t \in TurnNos : AgentExits(t)
  <2>1. UNCHANGED <<call, recorded, routing>> /\ current'.n = current.n
    BY <1>2, CallStands
  <2> QED BY <1>1, <2>1 DEF Records
<1>3. CASE \E t \in TurnNos : AgentSpends(t) \/ AgentEdits(t) \/ AgentCommits(t)
  BY <1>1, <1>3 DEF AgentSpends, AgentEdits, AgentCommits, Records
<1>4. CASE Begin
  <2>1. /\ UNCHANGED <<recorded, routing>> /\ current'.n = current.n + 1 /\ call.at = "begin"
        /\ call' = [call EXCEPT !.at = "turn"]
    BY <1>4 DEF Begin, NoTurn
  <2>2. call'.at = "turn" /\ call'.role = call.role /\ call'.engine = call.engine
           /\ call'.upto = call.upto
    BY <1>1, <2>1 DEF CallRecords
  <2>3. \A s \in TurnNos : s <= current.n => s <= current.n + 1 /\ s < current.n + 1
    BY <1>1, TurnConstants DEF TurnRecords
  <2> QED BY <1>1, <2>1, <2>2, <2>3 DEF Records
<1>5. CASE TakeTurn
  <2>1. /\ UNCHANGED <<recorded, routing>> /\ current'.n = current.n /\ call.at = "turn"
        /\ call.role = "worker"
    BY <1>5 DEF TakeTurn, Returned, NoTurn
  <2>2. /\ call'.at = "head" /\ call'.role = call.role /\ call'.engine = call.engine
        /\ call'.upto = Cumulative /\ call'.last = current.sess
    BY <1>1, <1>5 DEF TakeTurn, CallRecords
  <2>3. Cumulative # Unknown => call.engine = "acp" /\ current.sess # NoSession
    BY <1>1 DEF Cumulative, OnOwn
  <2> QED BY <1>1, <2>1, <2>2, <2>3 DEF Records
<1>6. CASE \E reading \in {"none", "valid", "repaired", "invalid"} : TakeReply(reading)
  <2>1. /\ UNCHANGED <<recorded, routing>> /\ current'.n = current.n /\ call.at = "turn"
    BY <1>6 DEF TakeReply, Returned, NoTurn
  <2>2. /\ call'.at \in {"settle", "begin"} /\ call'.role = call.role /\ call'.engine = call.engine
        /\ call'.upto = call.upto
    <3>1. /\ Counted(call).role = call.role /\ Counted(call).engine = call.engine
          /\ Counted(call).upto = call.upto /\ DOMAIN Counted(call) = DOMAIN call
          /\ "at" \in DOMAIN call
      BY <1>1 DEF Counted, CallRecords
    <3> QED BY <1>6, <3>1 DEF TakeReply
  <2> QED BY <1>1, <2>1, <2>2 DEF Records
<1>7. CASE \E role \in TurnRoles, resume \in {NoSession, call.last} : CallRole(role, resume)
  <2>1. PICK role \in TurnRoles, resume \in {NoSession, call.last} : CallRole(role, resume)
    BY <1>7
  <2>2. /\ call'.role = role /\ call'.engine = routing[role] /\ call'.at = "begin"
        /\ call'.upto = Unknown
    BY <2>1 DEF CallRole, NoCall
  <2> QED BY <1>1, <2>1, <2>2 DEF CallRole, Records
<1>8. CASE Settle
  <2>1. /\ UNCHANGED <<current, routing>> /\ call'.at = "idle" /\ call'.upto = Unknown
    BY <1>8 DEF Settle, NoCall
  <2>2. \/ recorded' = recorded
        \/ recorded' = [recorded EXCEPT ![call.last] = call.upto] /\ call.upto # Unknown
    BY <1>8 DEF Settle
  <2>3. CASE recorded' = recorded
    BY <1>1, <2>1, <2>3 DEF Records
  <2>4. CASE recorded' = [recorded EXCEPT ![call.last] = call.upto] /\ call.upto # Unknown
    <3>1. /\ call.role = "worker" /\ call.role \in TurnRoles /\ routing["worker"] = "acp"
          /\ call.last <= current.n
      BY <1>1, <2>4 DEF Records, OnOwn
    <3>2. \A s \in TurnNos : recorded'[s] = recorded[s] \/ s = call.last
      BY <1>1, <2>4
    <3> QED BY <1>1, <2>1, <3>1, <3>2 DEF Records
  <2> QED BY <2>2, <2>3, <2>4
<1>9. CASE Probe \/ ReadHead \/ ReadStatus \/ GitFails \/ Commit \/ Recount \/ OutOfTurns
  <2>1. UNCHANGED <<current, recorded, routing>>
    BY <1>9 DEF Probe, ReadHead, ReadStatus, GitFails, Commit, Recount, OutOfTurns
  <2>2. /\ call'.role = call.role /\ call'.engine = call.engine /\ call'.upto = call.upto
        /\ call'.last = call.last /\ call.at \notin {"idle", "turn"}
        /\ \/ call'.at \in {call.at, "settle"}
           \/ /\ call.at \in {"head", "status", "commit", "recount"}
              /\ call'.at \in {"status", "commit", "recount"}
    <3>1. CASE Probe
      BY ZenonT(60), <1>1, <3>1 DEF Probe, CallRecords
    <3>7. CASE OutOfTurns
      BY <1>1, <3>7 DEF OutOfTurns, CallRecords
    <3>2. CASE ReadHead
      BY <1>1, <3>2 DEF ReadHead, CallRecords
    <3>3. CASE ReadStatus
      <4>1. PICK at \in {"commit", "settle"} :
                call' = [call EXCEPT !.dirty = tree.dirty, !.commit = call.head # call.base, !.at = at]
        BY <3>3 DEF ReadStatus
      <4>2. call.at = "status"
        BY <3>3 DEF ReadStatus
      <4> QED BY <1>1, <4>1, <4>2 DEF CallRecords
    <3>4. CASE GitFails
      BY <1>1, <3>4 DEF GitFails, CallRecords
    <3>5. CASE Commit
      BY ZenonT(60), <1>1, <3>5 DEF Commit, CallRecords
    <3>6. CASE Recount
      BY <1>1, <3>6 DEF Recount, CallRecords
    <3> QED BY <1>9, <3>1, <3>2, <3>3, <3>4, <3>5, <3>6, <3>7
  <2> QED BY SMTT(40), <1>1, <2>1, <2>2 DEF Records
<1> QED
  BY <1>2, <1>3, <1>4, <1>5, <1>6, <1>7, <1>8, <1>9 DEF TurnsNext, Caller

\* The five parts together.
LEMMA TurnsKeep ==
    ASSUME TurnsInv, TurnsNext
    PROVE  TurnsInv'
BY CurrentKept, CallKept, AgentsKept, AccountsKept, CutKept, OwnKept, MadeKept, RecordsKept
   DEF TurnsInv, TurnsOK

\* Where nothing is billed, nothing recorded and no cost newly known, the split stands.
LEMMA SplitStands ==
    ASSUME TurnsInv, NEW B \in [TurnNos -> Nat], NEW C \in [TurnNos -> Nat], Split(B, C),
           UNCHANGED <<ledger, recorded, call.cost, call.upto, call.last>>,
           \A s \in TurnNos : accrued[s] <= accrued'[s] /\ accrued'[s] \in Nat,
           call'.at = "turn" => \A s \in TurnNos :
               /\ s = current'.n => B[s] = 0 /\ C[s] = 0
               /\ s = current'.from /\ current'.base # Unknown /\ current'.sess # current'.n =>
                     B[s] <= current'.base
    PROVE  Split(B, C)'
<1>1. \A s \in TurnNos : accrued[s] \in Nat
  BY DEF TurnsInv, TurnsOK
<1>2. \A s \in TurnNos : B[s] + C[s] <= accrued'[s]
  BY <1>1 DEF Split
<1> QED BY <1>2 DEF Split

\* The base of a turn is what was recorded of the session it resumes or, once its provider
\* has told, what that has cost.
LEMMA BaseMoves ==
    ASSUME TurnsInv, call.at = "turn",
           \/ Conversation \/ \E w \in {"open", "token", "overall"} : WatchdogFires(w)
           \/ \E t \in TurnNos : AgentExits(t)
    PROVE  \/ current'.sess = current.n
           \/ current.from = NoSession
           \/ current'.base = accrued[current.from]
           \/ current'.base = current.base /\ current.sess # current.n
<1>1. /\ current \in TurnRecords /\ current.n \in TurnNos /\ current.n # NoSession /\ OnOwn
      /\ current.sess \in {NoSession, current.n, current.from}
  BY SessionsThere, TurnConstants DEF TurnsInv, TurnsOK, OnOwn
<1>2. CASE current'.base = current.base /\ current'.sess \in {current.sess, current.n}
  BY <1>2
<1>3. CASE Loaded
  <2>1. current' = [current EXCEPT !.sess = current.from, !.step = "configure"] /\ current.step = "load"
    BY <1>3 DEF Loaded, OnSession, Answers
  <2>2. current'.base = current.base /\ current.sess = NoSession
    BY <1>1, <2>1 DEF OnOwn, TurnRecords
  <2> QED BY <1>1, <2>2
<1>4. CASE CostReplayed
  <2>. DEFINE s == IF current.sess = NoSession THEN current.from ELSE current.sess
  <2>1. current'.base = accrued[s] /\ current'.sess = current.sess
    BY <1>1, <1>4 DEF CostReplayed, TurnRecords
  <2> QED BY <1>1, <2>1
<1>5. CASE StreamOpens
  <2>. DEFINE s == IF current.from = NoSession THEN current.n ELSE current.from
  <2>1. current'.base = accrued[s]
    BY <1>1, <1>5 DEF StreamOpens, TurnRecords
  <2> QED BY <1>1, <2>1
<1>6. CASE \/ Initialized \/ LoadRefused \/ Created \/ Prompted \/ Refused \/ StreamSpeaks
           \/ \E w \in {"open", "token", "overall"} : WatchdogFires(w)
           \/ \E t \in TurnNos : AgentExits(t)
  BY <1>1, <1>2, <1>6 DEF Initialized, LoadRefused, GoesOn, Created, OnSession, Prompted, Refused, Ends,
     StreamSpeaks, WatchdogFires, AgentExits, TurnRecords
<1>7. CASE \E kind \in {"text", "tool", "cost"} : Streams(kind)
  <2>1. /\ Activity(current) \in TurnRecords /\ Activity(current).sess = current.sess
        /\ Activity(current).base = current.base
    BY <1>1 DEF Activity, TurnRecords
  <2>2. current'.sess = current.sess /\ current'.base = current.base
    BY <1>7, <2>1 DEF Streams, TurnRecords
  <2> QED BY <1>2, <2>2
<1>8. CASE \/ \E stop \in {"end_turn", "max_tokens", "tool_error"}, tokens \in BOOLEAN :
                  PromptAnswered(stop, tokens)
           \/ \E stop \in {"end_turn", "max_tokens", "tool_error"} : StreamResult(stop)
  BY <1>1, <1>2, <1>8 DEF PromptAnswered, StreamResult, TurnRecords
<1> QED BY <1>3, <1>4, <1>5, <1>6, <1>7, <1>8 DEF Conversation

\* What a turn cost is no more than what its session cost beyond what was billed of it.
LEMMA CostWithin ==
    ASSUME TurnsInv, NEW B \in [TurnNos -> Nat], NEW C \in [TurnNos -> Nat], Split(B, C),
           call.at = "turn"
    PROVE  /\ CostOfTurn # 0 => current.sess \in TurnNos
           /\ current.sess \in TurnNos => B[current.sess] + CostOfTurn <= accrued[current.sess]
           /\ current.sess \in TurnNos /\ DeltaMeasured =>
                  B[current.sess] + CostOfTurn <= current.latest
<1>1. /\ TurnsOK /\ current \in TurnRecords /\ current.n \in TurnNos /\ OnOwn
      /\ current.sess # NoSession => current.sess \in TurnNos
      /\ accrued \in [TurnNos -> Nat]
  BY SessionsThere DEF TurnsInv, TurnsOK
<1>2. CostOfTurn # 0 => current.sess \in TurnNos
  BY <1>1, CostIsNat DEF CostOfTurn, DeltaMeasured, OnOwn
<1>3. ASSUME current.sess \in TurnNos, DeltaMeasured
      PROVE  B[current.sess] + CostOfTurn <= current.latest /\ current.latest <= accrued[current.sess]
  <2>1. /\ current.latest \in Nat /\ current.base \in Nat /\ CostOfTurn \in Nat
        /\ current.base + CostOfTurn = current.latest
    BY <1>1, <1>3, CostIsNat
  <2>2. current.latest <= accrued[current.sess]
    BY <1>1, <1>3 DEF DeltaMeasured, OnOwn
  <2>3. current.base # Unknown /\ current.sess # NoSession
    BY <1>3, TurnConstants DEF DeltaMeasured
  <2>4. B[current.sess] <= current.base
    <3>1. CASE current.sess = current.n
      <4>1. B[current.n] = 0
        BY <1>1 DEF Split
      <4> QED BY <2>1, <3>1, <4>1
    <3>2. CASE current.sess # current.n
      <4>1. current.sess = current.from
        BY <1>1, <2>3, <3>2 DEF OnOwn
      <4> QED BY <1>3, <2>3, <3>2, <4>1 DEF Split
    <3> QED BY <3>1, <3>2
  <2>5. B[current.sess] \in Nat
    BY <1>3
  <2> QED BY <2>1, <2>2, <2>4, <2>5
<1>4. ASSUME current.sess \in TurnNos, ~DeltaMeasured
      PROVE  B[current.sess] + CostOfTurn <= accrued[current.sess]
  <2>1. CostOfTurn = 0
    BY <1>1, <1>4, CostIsNat
  <2>2. B[current.sess] \in Nat /\ C[current.sess] \in Nat /\ accrued[current.sess] \in Nat
    BY <1>1, <1>4
  <2>3. B[current.sess] + C[current.sess] <= accrued[current.sess]
    BY <1>4 DEF Split
  <2> QED BY <2>1, <2>2, <2>3
<1>5. ASSUME current.sess \in TurnNos, DeltaMeasured
      PROVE  B[current.sess] + CostOfTurn <= accrued[current.sess]
  BY <1>1, <1>3, <1>5, CostIsNat DEF TurnRecords
<1> QED BY <1>2, <1>3, <1>4, <1>5

\* Billing moves what a call cost from C to B; nothing else changes what is billed.
LEMMA SplitKept ==
    ASSUME TurnsInv, TurnsNext, SplitInv
    PROVE  SplitInv'
<1>0. IsFiniteSet(TurnNos)
  BY TurnConstants
<1>1. PICK B \in [TurnNos -> Nat], C \in [TurnNos -> Nat] : Split(B, C)
  BY DEF SplitInv
<1>2. /\ TurnsInv' /\ current \in TurnRecords /\ call \in CallRecords /\ ledger \in Nat
      /\ accrued \in [TurnNos -> Nat] /\ accrued' \in [TurnNos -> Nat]
      /\ call' \in CallRecords /\ Records /\ Records' /\ OnOwn
      /\ recorded \in [TurnNos -> Nat \cup {Unknown}] /\ SpentOnMade
  BY TurnsKeep, CallKept, AccountsKept DEF TurnsInv, TurnsOK
<1>3. Sum(B, TurnNos) \in Nat /\ Sum(C, TurnNos) \in Nat /\ CostOfTurn \in Nat
  BY TurnConstants, SumNat, CostIsNat DEF TurnsInv
<1>4. ASSUME NEW D \in [TurnNos -> Nat], NEW E \in [TurnNos -> Nat], Split(D, E)'
      PROVE  SplitInv'
  BY <1>4 DEF SplitInv
<1>5. CASE \/ Conversation \/ \E w \in {"open", "token", "overall"} : WatchdogFires(w)
           \/ \E t \in TurnNos : AgentExits(t)
  <2>1. /\ UNCHANGED <<call, accrued, recorded, ledger>>
        /\ current'.n = current.n /\ current'.from = current.from
    BY <1>5, CallStands
  <2>2. ASSUME call.at = "turn", NEW s \in TurnNos, s = current.from, current'.base # Unknown,
               current'.sess # current.n
        PROVE  B[s] <= current'.base
    <3>1. \/ current.from = NoSession
          \/ current'.base = accrued[current.from]
          \/ current'.base = current.base /\ current.sess # current.n
      BY <1>5, <2>2, BaseMoves
    <3>2. current.from # NoSession
      BY <2>2, TurnConstants
    <3>3. B[s] + C[s] <= accrued[s] /\ B[s] \in Nat /\ C[s] \in Nat /\ accrued[s] \in Nat
      BY <1>1, <1>2, <2>2 DEF Split
    <3>4. current'.base = current.base /\ current.sess # current.n => B[s] <= current.base
      BY <1>1, <2>2 DEF Split
    <3> QED BY <2>2, <3>1, <3>2, <3>3, <3>4
  <2>3. call.at = "turn" => \A s \in TurnNos : s = current.n => B[s] = 0 /\ C[s] = 0
    BY <1>1 DEF Split
  <2>4. Split(B, C)'
    BY <1>1, <1>2, <2>1, <2>2, <2>3, SplitStands
  <2> QED BY <1>4, <2>4
<1>6. CASE \E t \in TurnNos : AgentSpends(t) \/ AgentEdits(t) \/ AgentCommits(t)
  <2>1. UNCHANGED <<call, recorded, ledger, current>>
    BY <1>6 DEF AgentSpends, AgentEdits, AgentCommits
  <2>2. \A s \in TurnNos : accrued[s] <= accrued'[s] /\ accrued'[s] \in Nat
    BY <1>2, <1>6 DEF AgentSpends, AgentEdits, AgentCommits
  <2>3. call.at = "turn" => \A s \in TurnNos :
            /\ s = current.n => B[s] = 0 /\ C[s] = 0
            /\ s = current.from /\ current.base # Unknown /\ current.sess # current.n =>
                  B[s] <= current.base
    BY <1>1 DEF Split
  <2>4. Split(B, C)'
    BY <1>1, <2>1, <2>2, <2>3, SplitStands
  <2> QED BY <1>4, <2>4
<1>7. CASE Begin
  <2>1. /\ UNCHANGED <<recorded, ledger, accrued>> /\ current'.n = current.n + 1
        /\ current'.from = call.resume /\ current'.base = BaselineOf(call.resume)
        /\ call' = [call EXCEPT !.at = "turn"]
    BY <1>7 DEF Begin, NoTurn
  <2>2. call'.cost = call.cost /\ call'.upto = call.upto /\ call'.last = call.last
    BY <1>2, <2>1 DEF CallRecords
  <2>3. ASSUME NEW s \in TurnNos, s = current.n + 1 PROVE B[s] = 0 /\ C[s] = 0
    <3>1. accrued[s] = 0
      BY <1>2, <2>3 DEF SpentOnMade, TurnRecords
    <3> QED BY <1>1, <3>1 DEF Split
  <2>4. ASSUME NEW s \in TurnNos, s = call.resume, BaselineOf(call.resume) # Unknown
        PROVE  B[s] <= BaselineOf(call.resume)
    BY <1>1, <2>4, TurnConstants DEF Split, BaselineOf
  <2>5. \A s \in TurnNos : accrued[s] <= accrued'[s] /\ accrued'[s] \in Nat
    BY <1>2, <2>1
  <2>6. Split(B, C)'
    BY <1>1, <2>1, <2>2, <2>3, <2>4, <2>5, SplitStands
  <2> QED BY <1>4, <2>6
<1>8. CASE TakeTurn
  <2>0. PICK E \in [TurnNos -> Nat] :
            \A s \in TurnNos : E[s] = IF s = current.sess THEN CostOfTurn ELSE 0
    <3>1. [s \in TurnNos |-> IF s = current.sess THEN CostOfTurn ELSE 0] \in [TurnNos -> Nat]
      BY <1>3
    <3> QED BY <3>1
  <2>1. /\ UNCHANGED <<recorded, ledger, accrued>> /\ call.at = "turn" /\ call.role = "worker"
    BY <1>8 DEF TakeTurn, Returned
  <2>2. /\ call'.at = "head" /\ call'.cost = CostOfTurn /\ call'.upto = Cumulative
        /\ call'.last = current.sess
    BY <1>2, <1>8 DEF TakeTurn, CallRecords
  <2>3. /\ CostOfTurn # 0 => current.sess \in TurnNos
        /\ current.sess \in TurnNos => B[current.sess] + CostOfTurn <= accrued[current.sess]
        /\ current.sess \in TurnNos /\ DeltaMeasured => B[current.sess] + CostOfTurn <= current.latest
    BY <1>1, <2>1, CostWithin
  <2>5. CostOfTurn <= Sum(E, TurnNos)
    <3>1. CASE CostOfTurn = 0
      <4>1. Sum(E, TurnNos) \in Nat
        <5>1. \A x \in TurnNos : E[x] \in Nat
          BY <2>0
        <5> QED BY <5>1, TurnConstants, SumNat
      <4> QED BY <3>1, <4>1
    <3>2. CASE CostOfTurn # 0
      <4>1. /\ current.sess \in TurnNos /\ E[current.sess] = CostOfTurn
            /\ \A y \in TurnNos : y # current.sess => E[y] = 0
        BY <2>3, <2>0, <3>2
      <4>2. Sum(E, TurnNos) = CostOfTurn
        BY <1>3, <4>1, TurnConstants, SumOfOne
      <4> QED BY <1>3, <4>2
    <3> QED BY <3>1, <3>2
  <2>6. \A s \in TurnNos : B[s] + E[s] <= accrued[s]
    <3>1. \A s \in TurnNos : B[s] + C[s] <= accrued[s]
      BY <1>1 DEF Split
    <3>2. \A s \in TurnNos : s # current.sess => B[s] + E[s] <= accrued[s]
      <4>1. \A s \in TurnNos : B[s] \in Nat /\ C[s] \in Nat /\ accrued[s] \in Nat
        BY <1>1, <1>2
      <4> QED BY <2>0, <3>1, <4>1
    <3> QED BY <2>3, <2>0, <3>2
  <2>7. Cumulative # Unknown => DeltaMeasured /\ Cumulative = current.latest
    BY DEF Cumulative, UsageSource
  <2>8. Cumulative = Unknown => \A s \in TurnNos : E[s] = 0 \/ recorded[s] = Unknown
    <3>1. CASE call.engine = "acp"
      <4>1. Cumulative = Unknown => ~DeltaMeasured
        BY <1>2, <3>1 DEF Cumulative, UsageSource, DeltaMeasured
      <4>2. ~DeltaMeasured => CostOfTurn = 0
        BY CostIsNat DEF TurnsInv
      <4> QED BY <2>0, <4>1, <4>2
    <3>2. CASE call.engine # "acp"
      <4>1. routing["worker"] # "acp"
        BY <1>2, <2>1, <3>2 DEF Records
      <4>2. \A s \in TurnNos : recorded[s] = Unknown
        BY <1>2, <4>1 DEF Records
      <4> QED BY <4>2
    <3> QED BY <3>1, <3>2
  <2>9. \A s \in TurnNos : recorded[s] # Unknown => B[s] <= recorded[s]
    BY <1>1 DEF Split
  <2>10. ledger <= Sum(B, TurnNos)
    BY <1>1 DEF Split
  <2>11. \A s \in TurnNos : Cumulative # Unknown =>
            IF s = current.sess THEN B[s] + E[s] <= Cumulative ELSE E[s] = 0
    BY <2>3, <2>0, <2>7
  <2>12. Split(B, E)'
    BY <2>1, <2>2, <2>5, <2>6, <2>8, <2>9, <2>10, <2>11 DEF Split
  <2> QED BY <1>1, <1>4, <2>0, <2>12
<1>9. CASE \E reading \in {"none", "valid", "repaired", "invalid"} : TakeReply(reading)
  <2>1. /\ UNCHANGED <<recorded, ledger, accrued>> /\ call.at = "turn" /\ call.role # "worker"
    BY <1>9 DEF TakeReply, Returned
  <2>2. /\ call'.at # "turn" /\ call'.cost = call.cost + CostOfTurn /\ call'.upto = call.upto
        /\ call'.last = call.last
    <3>1. /\ Counted(call).cost = call.cost + CostOfTurn /\ Counted(call).upto = call.upto
          /\ Counted(call).last = call.last /\ DOMAIN Counted(call) = DOMAIN call
          /\ "at" \in DOMAIN call
      BY <1>2 DEF Counted, CallRecords
    <3> QED BY <1>9, <3>1 DEF TakeReply
  <2>3. current.n \in TurnNos /\ C[current.n] = 0 /\ B[current.n] = 0 /\ call.upto = Unknown
          /\ current.from = NoSession
    BY <1>1, <1>2, <2>1, SessionsThere DEF Split, Records, TurnsInv, OnOwn
  <2>4. PICK E \in [TurnNos -> Nat] :
            E[current.n] = CostOfTurn /\ \A s \in TurnNos : s # current.n => E[s] = C[s]
    <3>1. [C EXCEPT ![current.n] = CostOfTurn] \in [TurnNos -> Nat]
      BY <1>1, <1>3
    <3> QED BY <2>3, <3>1
  <2>5. CostOfTurn <= accrued[current.n]
    <3>1. CASE CostOfTurn = 0
      BY <1>2, <2>3, <3>1
    <3>2. CASE CostOfTurn # 0
      <4>1. /\ current.sess \in TurnNos
            /\ B[current.sess] + CostOfTurn <= accrued[current.sess]
        BY <1>1, <2>1, <3>2, CostWithin
      <4>2. current.sess = current.n
        BY <1>2, <2>3, <4>1, TurnConstants DEF OnOwn
      <4> QED BY <1>3, <2>3, <4>1, <4>2
    <3> QED BY <3>1, <3>2
  <2>6. Sum(E, TurnNos) = Sum(C, TurnNos) + CostOfTurn
    <3>1. \A y \in TurnNos : C[y] \in Nat /\ E[y] \in Nat
      BY <1>1, <2>4
    <3>2. Sum(E, TurnNos) + C[current.n] = Sum(C, TurnNos) + E[current.n] /\ Sum(E, TurnNos) \in Nat
      <4>1. current.n \in TurnNos /\ \A y \in TurnNos : y # current.n => E[y] = C[y]
        BY <2>3, <2>4
      <4> QED BY <1>0, <3>1, <4>1, SumMoves
    <3> QED BY <1>3, <2>3, <2>4, <3>2
  <2>7. call.cost + CostOfTurn <= Sum(E, TurnNos)
    <3>1. call.cost <= Sum(C, TurnNos) /\ call.cost \in Nat
      BY <1>1, <1>2 DEF Split, CallRecords
    <3> QED BY <1>3, <2>6, <3>1
  <2>8. \A s \in TurnNos : B[s] + E[s] <= accrued[s]
    <3>1. \A s \in TurnNos : B[s] \in Nat /\ C[s] \in Nat /\ accrued[s] \in Nat
                                /\ B[s] + C[s] <= accrued[s]
      BY <1>1, <1>2 DEF Split
    <3>2. B[current.n] + E[current.n] <= accrued[current.n]
      BY <1>3, <2>3, <2>4, <2>5, <3>1
    <3> QED BY <2>4, <3>1, <3>2
  <2>9. \A s \in TurnNos : E[s] = 0 \/ recorded[s] = Unknown
    <3>1. recorded[current.n] = Unknown
      <4>1. current.n \in Nat
        BY <2>3, TurnConstants
      <4>2. ~(current.n < current.n)
        BY <4>1
      <4>3. recorded[current.n] # Unknown => current.n < current.n
        BY <1>2, <2>1, <2>3 DEF Records
      <4> QED BY <4>3, <4>2
    <3> QED BY <1>1, <2>3, <2>4, <3>1 DEF Split
  <2>10. /\ \A s \in TurnNos : recorded[s] # Unknown => B[s] <= recorded[s]
         /\ ledger <= Sum(B, TurnNos)
    BY <1>1 DEF Split
  <2>11. Split(B, E)'
    BY <2>1, <2>2, <2>3, <2>7, <2>8, <2>9, <2>10 DEF Split
  <2> QED BY <1>1, <1>4, <2>4, <2>11
<1>10. CASE \E role \in TurnRoles, resume \in {NoSession, call.last} : CallRole(role, resume)
  <2>1. /\ UNCHANGED <<recorded, ledger, accrued>> /\ call.at = "idle"
        /\ call'.at = "begin" /\ call'.cost = 0 /\ call'.upto = Unknown
    BY <1>10 DEF CallRole, NoCall
  <2>2. call.upto = Unknown
    BY <1>2, <2>1 DEF Records
  <2>3. Split(B, C)'
    BY <1>1, <1>3, <2>1, <2>2 DEF Split
  <2> QED BY <1>4, <2>3
<1>11. CASE Settle
  <2>. DEFINE Z == [s \in TurnNos |-> 0]
  <2>1. /\ UNCHANGED accrued /\ call'.at = "idle" /\ call'.cost = 0 /\ call'.upto = Unknown
    BY <1>11 DEF Settle, NoCall
  <2>2. Z \in [TurnNos -> Nat] /\ Sum(Z, TurnNos) \in Nat /\ \A s \in TurnNos : Z[s] = 0
    <3>1. \A x \in TurnNos : Z[x] \in Nat /\ Z[x] = 0
      OBVIOUS
    <3>2. Z \in [TurnNos -> Nat]
      OBVIOUS
    <3>. HIDE DEF Z
    <3> QED BY <3>1, <3>2, TurnConstants, SumNat
  <2>3. PICK D \in [TurnNos -> Nat] : \A s \in TurnNos : D[s] = B[s] + C[s]
    <3>1. [s \in TurnNos |-> B[s] + C[s]] \in [TurnNos -> Nat]
      BY <1>1
    <3> QED BY <3>1
  <2>. HIDE DEF Z
  <2>4. CASE UNCHANGED <<ledger, recorded>>
    <3>1. \A s \in TurnNos : B[s] + Z[s] <= accrued[s]
      BY <1>1, <1>2, <2>2 DEF Split
    <3>2. Split(B, Z)'
      BY <1>1, <2>1, <2>2, <2>4, <3>1 DEF Split
    <3> QED BY <1>1, <1>4, <2>2, <3>2
  <2>5. CASE /\ ledger' = ledger + call.cost
             /\ recorded' = IF call.upto = Unknown THEN recorded
                            ELSE [recorded EXCEPT ![call.last] = call.upto]
    <3>1. Sum(D, TurnNos) = Sum(B, TurnNos) + Sum(C, TurnNos)
      <4>1. \A x \in TurnNos : B[x] \in Nat /\ C[x] \in Nat /\ D[x] = B[x] + C[x]
        BY <1>1, <2>3
      <4> QED BY <1>0, <4>1, SumOfBoth
    <3>2. ledger' <= Sum(D, TurnNos)
      <4>1. ledger <= Sum(B, TurnNos) /\ call.cost <= Sum(C, TurnNos) /\ call.cost \in Nat
        BY <1>1, <1>2 DEF Split, CallRecords
      <4> QED BY <1>2, <1>3, <2>5, <3>1, <4>1
    <3>3. \A s \in TurnNos : D[s] + Z[s] <= accrued[s]
      BY <1>1, <1>2, <2>2, <2>3 DEF Split
    <3>4. ASSUME NEW s \in TurnNos, recorded'[s] # Unknown PROVE D[s] <= recorded'[s]
      <4>1. CASE call.upto = Unknown
        <5>1. recorded[s] # Unknown /\ recorded'[s] = recorded[s]
          BY <2>5, <3>4, <4>1
        <5>2. C[s] = 0 /\ B[s] <= recorded[s]
          BY <1>1, <4>1, <5>1 DEF Split
        <5> QED BY <2>3, <5>1, <5>2
      <4>2. CASE call.upto # Unknown /\ s = call.last
        <5>1. recorded'[s] = call.upto
          BY <1>2, <2>5, <4>2
        <5>2. B[s] + C[s] <= call.upto
          BY <1>1, <4>2 DEF Split
        <5> QED BY <2>3, <5>1, <5>2
      <4>3. CASE call.upto # Unknown /\ s # call.last
        <5>1. recorded'[s] = recorded[s]
          BY <1>2, <2>5, <4>3
        <5>2. C[s] = 0 /\ B[s] <= recorded[s]
          BY <1>1, <3>4, <4>3, <5>1 DEF Split
        <5> QED BY <2>3, <5>1, <5>2
      <4> QED BY <4>1, <4>2, <4>3
    <3>5. Split(D, Z)'
      BY SMTT(40), <2>1, <2>2, <3>2, <3>3, <3>4 DEF Split
    <3> QED BY <1>4, <2>2, <2>3, <3>5
  <2> QED BY <1>11, <2>4, <2>5 DEF Settle
<1>12. CASE Probe \/ ReadHead \/ ReadStatus \/ GitFails \/ Commit \/ Recount \/ OutOfTurns
  <2>1. UNCHANGED <<current, recorded, ledger, accrued>> /\ call.at # "turn"
    BY <1>12 DEF Probe, ReadHead, ReadStatus, GitFails, Commit, Recount, OutOfTurns
  <2>2. /\ call'.at # "turn" /\ call'.last = call.last /\ call'.cost = call.cost
        /\ call'.upto = call.upto
    <3>1. CASE Probe
      BY <1>2, <3>1, <2>1 DEF Probe, CallRecords
    <3>2. CASE ReadHead \/ ReadStatus
      BY <1>2, <3>2 DEF ReadHead, ReadStatus, CallRecords
    <3>3. CASE GitFails \/ OutOfTurns
      BY <1>2, <3>3 DEF GitFails, OutOfTurns, CallRecords
    <3>4. CASE Commit
      BY <1>2, <3>4 DEF Commit, CallRecords
    <3>5. CASE Recount
      BY <1>2, <3>5 DEF Recount, CallRecords
    <3> QED BY <1>12, <3>1, <3>2, <3>3, <3>4, <3>5
  <2>3. \A s \in TurnNos : accrued[s] <= accrued'[s] /\ accrued'[s] \in Nat
    BY <1>2, <2>1
  <2>4. Split(B, C)'
    BY <1>1, <2>1, <2>2, <2>3, SplitStands
  <2> QED BY <1>4, <2>4
<1> QED
  BY <1>5, <1>6, <1>7, <1>8, <1>9, <1>10, <1>11, <1>12 DEF TurnsNext, Caller

\* The inductive invariant of the turns.
BillInv == TurnsInv /\ SplitInv

LEMMA InitBills == TurnsInit => BillInv
<1>. SUFFICES ASSUME TurnsInit PROVE BillInv
  OBVIOUS
<1>1. call = NoCall /\ NoCall \in CallRecords /\ current = NoTurn /\ NoTurn \in TurnRecords
  BY TurnConstants DEF TurnsInit, NoCall, CallRecords, Outcomes, NoTurn, TurnRecords, Waiting, Cuts,
     Stops
<1>2. NoAgent \in Agents /\ NoAgent.on = 0 /\ NoAgent.is = "none"
  BY TurnConstants DEF NoAgent, Agents
<1>3. tree \in Worktrees
  BY DEF TurnsInit, Worktrees
<1>4. TurnsOK
  BY <1>1, <1>2, <1>3, TurnConstants DEF TurnsInit, TurnsOK
<1>5. /\ call.at = "idle" /\ call.outcome = "none" /\ call.resume = NoSession /\ call.last = NoSession
      /\ call.upto = Unknown /\ call.cost = 0
  BY <1>1 DEF NoCall
<1>6. /\ current.n = 0 /\ current.step = "idle" /\ current.sess = NoSession
      /\ current.latest = Unknown /\ ~current.opened
  BY <1>1 DEF NoTurn
<1>7. CutInv /\ OnOwn
  BY <1>5, <1>6, TurnConstants DEF TurnsInit, CutInv, OnOwn
<1>8. SpentOnMade
  BY <1>2, TurnConstants DEF TurnsInit, SpentOnMade, Alive
<1>9. Records
  BY <1>5, <1>6 DEF TurnsInit, Records
<1>10. SplitInv
  <2>. DEFINE Z == [s \in TurnNos |-> 0]
  <2>1. Z \in [TurnNos -> Nat] /\ \A s \in TurnNos : Z[s] \in Nat /\ Z[s] = 0
    OBVIOUS
  <2>2. ledger = 0 /\ accrued = [s \in TurnNos |-> 0] /\ recorded = [s \in TurnNos |-> Unknown]
    BY DEF TurnsInit
  <2>. HIDE DEF Z
  <2>3. Sum(Z, TurnNos) \in Nat
    BY <2>1, TurnConstants, SumNat
  <2>4. Split(Z, Z)
    BY <1>5, <2>1, <2>2, <2>3 DEF Split
  <2> QED BY <2>1, <2>4 DEF SplitInv
<1> QED BY <1>4, <1>7, <1>8, <1>9, <1>10 DEF BillInv, TurnsInv

LEMMA BillKeeps == BillInv /\ [TurnsNext]_turnVars => BillInv'
<1>1. CASE BillInv /\ TurnsNext
  BY <1>1, TurnsKeep, SplitKept DEF BillInv
<1>2. CASE BillInv /\ UNCHANGED turnVars
  <2>1. UNCHANGED <<routing, probed, call, current, armed, agents, accrued, recorded, ledger, tree>>
    BY <1>2 DEF turnVars
  <2>2. TurnsInv'
    BY <1>2, <2>1 DEF BillInv, TurnsInv, TurnsOK, CutInv, OnOwn, SpentOnMade, Alive, Records
  <2>3. SplitInv'
    BY <1>2, <2>1 DEF BillInv, SplitInv, Split
  <2> QED BY <2>2, <2>3 DEF BillInv
<1> QED BY <1>1, <1>2

\* The invariant holds in every reachable state of the turns.
THEOREM BillHolds == TurnsSpec => []BillInv
<1> QED BY InitBills, BillKeeps, PTL DEF TurnsSpec

\* A turn a watchdog cut never yields an answer, whatever its agent said before it died
\* (runStructuredLadder, reconcileWorkerCommit).
THEOREM CutHolds == TurnsSpec => []CutTurnsAnswerNothing
<1>1. BillInv => CutTurnsAnswerNothing
  BY DEF BillInv, TurnsInv, CutInv, CutTurnsAnswerNothing
<1> QED BY <1>1, BillHolds, PTL

\* Over all the turns that resume, reload or replace a provider session, no cost is billed
\* twice (priceTurn, finishProviderCallWithSpend).
THEOREM BilledHolds == TurnsSpec => []BilledNeverExceedsCharged
<1>1. BillInv => BilledNeverExceedsCharged
  <2>. SUFFICES ASSUME BillInv PROVE BilledNeverExceedsCharged
    OBVIOUS
  <2>1. PICK B \in [TurnNos -> Nat], C \in [TurnNos -> Nat] : Split(B, C)
    BY DEF BillInv, SplitInv
  <2>2. ledger \in Nat /\ accrued \in [TurnNos -> Nat]
    BY DEF BillInv, TurnsInv, TurnsOK
  <2>3. \A s \in TurnNos : B[s] \in Nat /\ accrued[s] \in Nat /\ B[s] <= accrued[s]
    BY <2>1, <2>2 DEF Split
  <2>4. Sum(B, TurnNos) <= Sum(accrued, TurnNos)
    BY <2>3, TurnConstants, SumAtMost
  <2>5. Sum(B, TurnNos) \in Nat /\ Sum(accrued, TurnNos) \in Nat
    BY <2>3, TurnConstants, SumNat
  <2>6. ledger <= Sum(accrued, TurnNos)
    BY <2>1, <2>2, <2>4, <2>5 DEF Split
  <2> QED BY <2>6 DEF BilledNeverExceedsCharged, Sum
<1> QED BY <1>1, BillHolds, PTL

-----------------------------------------------------------------------------
(* The worktree after a turn.                                               *)

\* Nobody edits or commits.
Still == \A t \in TurnNos : ~Working(t)

\* An agent that ended its turn has put its work down, and so have those before it: what
\* reconcileWorkerCommit reads, one git call after the other, is what is there.
AccountInv ==
    /\ current.step = "returned" /\ current.stop = "end_turn" => Still
    /\ call.outcome = "completed" =>
          /\ Still /\ call.at \in {"head", "status", "commit", "recount", "settle"}
          /\ call.at = "status" => call.head = tree.head
          /\ call.at \in {"commit", "recount", "settle"} =>
                tree.dirty \subseteq call.dirty /\ (tree.head # call.base => call.commit)
          /\ call.at = "recount" => tree.dirty = {} /\ call.commit

\* What is put down is not taken up again before the next turn begins.
LEMMA StillKept ==
    ASSUME TurnsInv, Still, current.step \in {"idle", "returned"}, TurnsNext, ~Begin
    PROVE  Still' /\ (tree' = tree \/ Commit)
<1>1. agents \in [TurnNos -> Agents] /\ armed = {} /\ current.step \notin Waiting
  BY DEF TurnsInv, TurnsOK, CutInv, Waiting
<1>2. CASE \E t \in TurnNos : AgentExits(t)
  <2>1. PICK t \in TurnNos : AgentExits(t)
    BY <1>2
  <2>2. agents' = [agents EXCEPT ![t] = [NoAgent EXCEPT !.is = "gone"]] /\ tree' = tree
    BY <1>1, <2>1 DEF AgentExits
  <2> QED BY <1>1, <2>2 DEF Still, Working, Alive, NoAgent
<1>3. CASE UNCHANGED <<agents, tree>> \/ (UNCHANGED agents /\ Commit)
  BY <1>3 DEF Still, Working, Alive
<1>4. ~Conversation
  BY <1>1 DEF Conversation, Initialized, Loaded, LoadRefused, Created, Prompted, Refused,
     CostReplayed, Streams, PromptAnswered, StreamOpens, StreamSpeaks, StreamResult, StreamAlive,
     Answers, Waiting
<1>5. ~\E t \in TurnNos : AgentEdits(t) \/ AgentCommits(t)
  BY DEF AgentEdits, AgentCommits, Still
<1>6. ~\E w \in {"open", "token", "overall"} : WatchdogFires(w)
  BY <1>1 DEF WatchdogFires
<1>7. CASE Caller
  BY <1>3, <1>7 DEF Caller, Probe, TakeTurn, ReadHead, ReadStatus, GitFails, Recount, Commit,
     TakeReply, Settle, OutOfTurns
<1>8. CASE \/ \E role \in TurnRoles, resume \in {NoSession, call.last} : CallRole(role, resume)
           \/ \E t \in TurnNos : AgentSpends(t)
  BY <1>3, <1>8 DEF CallRole, AgentSpends
<1> QED BY <1>2, <1>4, <1>5, <1>6, <1>7, <1>8 DEF TurnsNext

\* A turn that is over is taken as it is.
LEMMA ReturnedStays ==
    ASSUME TurnsInv, current.step = "returned", TurnsNext
    PROVE  current' = current \/ current'.step # "returned"
<1>1. armed = {} /\ current.step \notin Waiting
  BY DEF TurnsInv, CutInv, Waiting
<1>2. ~Conversation
  BY <1>1 DEF Conversation, Initialized, Loaded, LoadRefused, Created, Prompted, Refused,
     CostReplayed, Streams, PromptAnswered, StreamOpens, StreamSpeaks, StreamResult, StreamAlive,
     Answers, Waiting
<1>3. ~\E w \in {"open", "token", "overall"} : WatchdogFires(w)
  BY <1>1 DEF WatchdogFires
<1>4. CASE Caller
  BY <1>4 DEF Caller, Probe, Begin, TakeTurn, ReadHead, ReadStatus, GitFails, Recount, Commit,
     TakeReply, Settle, OutOfTurns, NoTurn
<1>5. CASE \E t \in TurnNos : AgentExits(t)
  BY <1>1, <1>5 DEF AgentExits
<1>6. CASE \/ \E role \in TurnRoles, resume \in {NoSession, call.last} : CallRole(role, resume)
           \/ \E t \in TurnNos : AgentSpends(t) \/ AgentEdits(t) \/ AgentCommits(t)
  BY <1>6 DEF CallRole, AgentSpends, AgentEdits, AgentCommits
<1> QED BY <1>2, <1>3, <1>4, <1>5, <1>6 DEF TurnsNext

\* A turn that its agent ended is answered after every earlier agent is gone.
LEMMA EndedIsStill ==
    ASSUME TurnsInv, current.step # "returned", current'.step = "returned",
           current'.stop = "end_turn", TurnsNext
    PROVE  Still'
<1>1. /\ current \in TurnRecords /\ agents \in [TurnNos -> Agents]
      /\ \A t \in TurnNos : Alive(t) => t <= current.n
  BY DEF TurnsInv, TurnsOK, SpentOnMade
<1>2. ASSUME EarlierGone, current.n \in Nat,
             agents' = Reaped([agents EXCEPT ![current.n].busy = FALSE])
      PROVE  Still'
  <2>1. \A t \in TurnNos : t # current.n => ~Alive(t)
    BY <1>1, <1>2, TurnConstants DEF EarlierGone
  <2>2. \A t \in TurnNos : t # current.n => agents'[t] = agents[t]
    BY <1>1, <1>2 DEF Reaped
  <2>3. current.n \in TurnNos => ~agents'[current.n].busy
    BY <1>1, <1>2 DEF Reaped, Agents
  <2> QED BY <2>1, <2>2, <2>3 DEF Still, Working, Alive
<1>3. ASSUME NEW stop, NEW as, Ends(stop, as), current'.stop = "end_turn"
      PROVE  stop = "end_turn"
  BY <1>1, <1>3 DEF Ends, StopOf, TurnRecords
<1>4. ~(\E t \in TurnNos : AgentExits(t)) /\ ~Refused
  BY <1>3 DEF AgentExits, Refused
<1>5. CASE \/ \E stop \in {"end_turn", "max_tokens", "tool_error"}, tokens \in BOOLEAN :
                PromptAnswered(stop, tokens)
           \/ \E stop \in {"end_turn", "max_tokens", "tool_error"} : StreamResult(stop)
  BY <1>1, <1>2, <1>5 DEF PromptAnswered, StreamResult, TurnRecords
<1>6. CASE \/ Initialized \/ Loaded \/ LoadRefused \/ Created \/ Prompted \/ CostReplayed
           \/ \E kind \in {"text", "tool", "cost"} : Streams(kind)
           \/ StreamOpens \/ StreamSpeaks
  <2>1. current'.step \in Waiting
    BY <1>1, <1>6 DEF Initialized, Loaded, LoadRefused, Created, OnSession, GoesOn, Prompted,
       CostReplayed, Streams, Activity, StreamOpens, StreamSpeaks, StreamAlive, Answers,
       TurnRecords, Waiting
  <2> QED BY <2>1 DEF Waiting
<1>7. CASE \E w \in {"open", "token", "overall"} : WatchdogFires(w)
  BY <1>1, <1>7 DEF WatchdogFires, TurnRecords
<1>8. CASE Caller
  BY <1>8 DEF Caller, Probe, Begin, TakeTurn, ReadHead, ReadStatus, GitFails, Recount, Commit,
     TakeReply, Settle, OutOfTurns, NoTurn
<1>9. CASE \/ \E role \in TurnRoles, resume \in {NoSession, call.last} : CallRole(role, resume)
           \/ \E t \in TurnNos : AgentSpends(t) \/ AgentEdits(t) \/ AgentCommits(t)
  BY <1>9 DEF CallRole, AgentSpends, AgentEdits, AgentCommits
<1> QED BY <1>4, <1>5, <1>6, <1>7, <1>8, <1>9 DEF TurnsNext, Conversation

\* How a worker's call comes to be completed, and what it reads then.
LEMMA CompletedKept ==
    ASSUME TurnsInv, AccountInv, TurnsNext, call'.outcome = "completed",
           call.outcome = "completed" => Still' /\ (tree' = tree \/ Commit),
           Returned("worker") /\ current.stop = "end_turn" => Still' /\ tree' = tree
    PROVE  /\ Still' /\ call'.at \in {"head", "status", "commit", "recount", "settle"}
           /\ call'.at = "status" => call'.head = tree'.head
           /\ call'.at \in {"commit", "recount", "settle"} =>
                tree'.dirty \subseteq call'.dirty /\ (tree'.head # call'.base => call'.commit)
           /\ call'.at = "recount" => tree'.dirty = {} /\ call'.commit
<1>1. call \in CallRecords /\ tree \in Worktrees
  BY DEF TurnsInv, TurnsOK
<1>2. CASE TakeTurn
  <2>1. WorkerStatus(current.stop) = "completed" => current.stop = "end_turn"
    BY DEF WorkerStatus
  <2>2. call'.at = "head" /\ call'.outcome = WorkerStatus(current.stop) /\ Returned("worker")
    BY <1>1, <1>2 DEF TakeTurn, CallRecords
  <2> QED BY <2>1, <2>2
<1>3. CASE ReadHead
  BY <1>1, <1>3 DEF ReadHead, AccountInv, CallRecords, Commit
<1>4. CASE ReadStatus
  BY <1>1, <1>4 DEF ReadStatus, AccountInv, CallRecords, Commit
<1>5. CASE Commit
  <2>1. PICK never \in SUBSET tree.dirty :
          LET staged == tree.dirty \ never IN
          /\ tree' = [tree EXCEPT !.dirty = {}, !.committed = @ \cup staged,
                                  !.head = IF staged = {} THEN @ ELSE @ + 1]
          /\ call' = [call EXCEPT !.at = IF staged = {} THEN "settle" ELSE "recount",
                                  !.harness = staged # {}, !.commit = @ \/ staged # {}]
    BY <1>5 DEF Commit
  <2>2. call.outcome = "completed" /\ call.at = "commit" /\ tree'.dirty = {}
    BY <1>1, <1>5, <2>1 DEF Commit, CallRecords, Worktrees
  <2>3. CASE tree.dirty \ never = {}
    BY <1>1, <2>1, <2>2, <2>3 DEF AccountInv, CallRecords, Worktrees
  <2>4. CASE tree.dirty \ never # {}
    BY <1>1, <2>1, <2>2, <2>4 DEF AccountInv, CallRecords, Worktrees
  <2> QED BY <2>3, <2>4
<1>6. CASE Recount
  BY <1>1, <1>6 DEF Recount, AccountInv, CallRecords, Commit
<1>7. CASE Settle \/ GitFails \/ OutOfTurns
           \/ \E role \in TurnRoles, resume \in {NoSession, call.last} : CallRole(role, resume)
  BY <1>1, <1>7 DEF Settle, GitFails, OutOfTurns, CallRole, NoCall, CallRecords
<1>8. CASE Probe \/ Begin
  BY <1>1, <1>8 DEF Probe, Begin, AccountInv, CallRecords
<1>9. CASE \E reading \in {"none", "valid", "repaired", "invalid"} : TakeReply(reading)
  <2>1. call.outcome # "completed"
    BY <1>9 DEF AccountInv, TakeReply, Returned
  <2>2. Counted(call).outcome = call.outcome /\ DOMAIN Counted(call) = DOMAIN call
        /\ {"at", "outcome", "cut"} \subseteq DOMAIN call
    BY <1>1 DEF Counted, CallRecords
  <2>3. PICK reading \in {"none", "valid", "repaired", "invalid"} : TakeReply(reading)
    BY <1>9
  <2>4. call'.outcome \in {"answered", call.outcome, "exhausted"}
    <3>1. CASE reading \in {"valid", "repaired"}
      BY <2>2, <2>3, <3>1 DEF TakeReply
    <3>2. CASE reading \notin {"valid", "repaired"} /\ MayRetry
      BY <2>2, <2>3, <3>2 DEF TakeReply
    <3>3. CASE reading \notin {"valid", "repaired"} /\ ~MayRetry
      BY <2>2, <2>3, <3>3 DEF TakeReply
    <3> QED BY <3>1, <3>2, <3>3
  <2> QED BY <2>1, <2>4
<1>10. CASE call' = call /\ ~Commit
  BY <1>10 DEF AccountInv
<1>11. CASE \/ Conversation \/ \E w \in {"open", "token", "overall"} : WatchdogFires(w)
            \/ \E t \in TurnNos : AgentExits(t) \/ AgentSpends(t) \/ AgentEdits(t) \/ AgentCommits(t)
  <2>1. call' = call
    BY <1>11, CallStands DEF AgentSpends, AgentEdits, AgentCommits
  <2>2. ~Commit
    BY <1>1, <2>1 DEF Commit, CallRecords
  <2> QED BY <1>10, <2>1, <2>2
<1> QED BY <1>2, <1>3, <1>4, <1>5, <1>6, <1>7, <1>8, <1>9, <1>11 DEF TurnsNext, Caller

LEMMA AccountNext == TurnsInv /\ AccountInv /\ [TurnsNext]_turnVars => AccountInv'
<1>1. CASE TurnsInv /\ AccountInv /\ TurnsNext
  <2>1. /\ call.at = "turn" <=> current.step # "idle"
        /\ Begin => call.at = "begin" /\ current'.step # "returned" /\ current'.step # "idle"
        /\ Commit => call.at = "commit"
    BY <1>1 DEF TurnsInv, CutInv, Begin, NoTurn, Commit
  <2>2. call.outcome = "completed" => Still' /\ (tree' = tree \/ Commit)
    <3>1. call.outcome = "completed" => ~Begin /\ current.step = "idle" /\ Still
      BY <1>1, <2>1 DEF AccountInv
    <3> QED BY <1>1, <3>1, StillKept
  <2>3. current.step = "returned" /\ current.stop = "end_turn" => Still' /\ tree' = tree
    BY <1>1, <2>1, StillKept DEF AccountInv
  <2>4. current'.step = "returned" /\ current'.stop = "end_turn" => Still'
    <3>1. CASE current.step = "returned"
      <4>1. current' = current \/ current'.step # "returned"
        BY <1>1, <3>1, ReturnedStays
      <4> QED BY <2>3, <4>1
    <3>2. CASE current.step # "returned"
      BY <1>1, <3>2, EndedIsStill
    <3> QED BY <3>1, <3>2
  <2>5. Returned("worker") /\ current.stop = "end_turn" => Still' /\ tree' = tree
    BY <2>3 DEF Returned
  <2>6. call'.outcome = "completed" =>
           /\ Still' /\ call'.at \in {"head", "status", "commit", "recount", "settle"}
           /\ call'.at = "status" => call'.head = tree'.head
           /\ call'.at \in {"commit", "recount", "settle"} =>
                tree'.dirty \subseteq call'.dirty /\ (tree'.head # call'.base => call'.commit)
           /\ call'.at = "recount" => tree'.dirty = {} /\ call'.commit
    BY <1>1, <2>2, <2>5, CompletedKept
  <2> QED BY <2>4, <2>6 DEF AccountInv
<1>2. CASE AccountInv /\ UNCHANGED turnVars
  BY <1>2 DEF AccountInv, Still, Working, Alive, turnVars
<1> QED BY <1>1, <1>2

\* A completed worker result accounts for the worktree: no edit is left out of what it
\* reports as uncommitted and no commit beyond the base goes unreported, whoever of the
\* agent and the harness made it (reconcileWorkerCommit).
THEOREM AccountedHolds == TurnsSpec => []CompletedIsAccounted
<1>1. TurnsInit => AccountInv
  BY DEF TurnsInit, AccountInv, NoTurn, NoCall
<1>2. BillInv => TurnsInv
  BY DEF BillInv
<1>3. AccountInv => CompletedIsAccounted
  BY DEF AccountInv, CompletedIsAccounted
<1> QED BY <1>1, <1>2, <1>3, BillHolds, AccountNext, PTL DEF TurnsSpec
=============================================================================
