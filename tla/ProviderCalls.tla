---------------------------- MODULE ProviderCalls ----------------------------
(***************************************************************************)
(* The money.  Every paid provider turn has a row in `provider_calls`,    *)
(* inserted `started` in the transaction that first checks that the       *)
(* session has no unresolved (started or unknown) row, and settled in one  *)
(* transaction with the session's cost and the user's budget ledgers.      *)
(*                                                                         *)
(* Hard here is that nothing is ever cancelled: a timeout abandons a       *)
(* promise whose provider turn, and whose accounting continuation, go on.  *)
(* So a turn and its row, the flow that waits for it and the session that  *)
(* paid for it have lifetimes of their own.  A flow is one activation of   *)
(* the code that dispatches turns; a sub-task past its deadline is a flow  *)
(* that lives on (a zombie) while its loop finalises the session.          *)
(*                                                                         *)
(* What is booked is the figure the adapter reports for a turn: the rise   *)
(* of the provider session's cumulative meter over a baseline, or a price  *)
(* of its tokens.  What the provider really charges is another matter, and *)
(* AgentTurns's.                                                           *)
(***************************************************************************)
EXTENDS Integers, FiniteSets, FiniteSetsExt

CONSTANTS
    Sessions,
    Calls,       \* rows of provider_calls that may be inserted (a bound)
    Flows,       \* concurrently live flows (a bound)
    None,
    Roles,       \* the roles explored, of "worker", "adversary", "lead"
    Costs,       \* what a turn may be reported to have cost
    MaxCrashes,  \* process crashes explored (a bound)
    WritesFail   \* may a database write fail?

ASSUME RolesAssumption == Roles \subseteq {"worker", "adversary", "lead"}
ASSUME CostsAssumption == Costs \subseteq Nat /\ IsFiniteSet(Costs) /\ IsFiniteSet(Calls)
ASSUME SessionsAssumption == IsFiniteSet(Sessions)
ASSUME BoundsAssumption == MaxCrashes \in Nat /\ WritesFail \in BOOLEAN
ASSUME NoneAssumption == None \notin Sessions \cup Calls \cup {"worker", "adversary", "lead"}

VARIABLES
    row,        \* provider_calls: session, role, status, cost
    checkpoint, \* provider_session_usage.cumulative_cost_usd, by opening call
    base,       \* the baseline of a call; NoFigure if no meter was read
    status,     \* sessions.status, as far as accounting can tell
    accounting, \* sessions.accounting_state
    charged,    \* sessions.cost_usd
    spent,      \* the user's budgets_daily and budgets_monthly rows
    turn,       \* the provider's turn; attached while its continuation lives
    opened,     \* the call that opened the provider session of this call
    said,       \* what the adapter reported of the turn (history)
    flow,       \* flows: session, call waited for, last provider session, zombie
    crashes

vars == <<row, checkpoint, base, status, accounting, charged, spent, turn, opened, said, flow, crashes>>

NoFigure == -1   \* no checkpoint is stored, or no meter was read

NoRow  == [sess |-> None, role |-> None, status |-> "free", cost |-> 0]
NoFlow == [sess |-> None, call |-> None, last |-> None, zombie |-> FALSE]

Of(s)         == {c \in Calls : row[c].sess = s}
Unresolved(s) == {c \in Of(s) : row[c].status \in {"started", "unknown"}}
InFlight(c)   == turn[c] \in {"attached", "detached"}
Sum(f, S)     == MapThenSumSet(LAMBDA c : f[c], S)

TypeOK ==
    /\ row \in [Calls -> [sess : Sessions, role : Roles, cost : Nat,
                          status : {"started", "completed", "unknown"}] \cup {NoRow}]
    /\ checkpoint \in [Calls -> Nat \cup {NoFigure}] /\ base \in [Calls -> Nat \cup {NoFigure}]
    /\ status \in [Sessions -> {"running", "accounting_incomplete", "done", "failed"}]
    /\ accounting \in [Sessions -> {"ok", "incomplete"}]
    /\ charged \in [Sessions -> Nat] /\ spent \in Nat
    /\ turn \in [Calls -> {"idle", "attached", "detached", "reported", "ended"}]
    /\ opened \in [Calls -> Calls \cup {None}]
    /\ said \in [Calls -> Costs \cup {0}]
    /\ flow \in [Flows -> [sess : Sessions, call : Calls \cup {None}, last : Calls \cup {None},
                           zombie : BOOLEAN] \cup {NoFlow}]
    /\ crashes \in 0..MaxCrashes

Init ==
    /\ row = [c \in Calls |-> NoRow]
    /\ checkpoint = [c \in Calls |-> NoFigure] /\ base = [c \in Calls |-> 0]
    /\ status = [s \in Sessions |-> "running"]
    /\ accounting = [s \in Sessions |-> "ok"]
    /\ charged = [s \in Sessions |-> 0] /\ spent = 0
    /\ turn = [c \in Calls |-> "idle"]
    /\ opened = [c \in Calls |-> None]
    /\ said = [c \in Calls |-> 0]
    /\ flow = [f \in Flows |-> NoFlow]
    /\ crashes = 0

-----------------------------------------------------------------------------
(* Helpers                                                                 *)

Idle(f)    == flow[f] # NoFlow /\ flow[f].call = None
Stop(f)    == flow' = [flow EXCEPT ![f] = NoFlow]
Waiters(c) == {f \in Flows : flow[f] # NoFlow /\ flow[f].call = c}

\* The flows that waited for call c go on with its result, which names the
\* provider session on, or end.
Resume(c, on) == flow' = [f \in Flows |->
    IF f \in Waiters(c) THEN [flow[f] EXCEPT !.call = None, !.last = on] ELSE flow[f]]
Release(c) == flow' = [f \in Flows |-> IF f \in Waiters(c) THEN NoFlow ELSE flow[f]]

\* The write every failing path makes, best effort.
MarkIncomplete(s) ==
    \/ /\ status' = [status EXCEPT ![s] = "accounting_incomplete"]
       /\ accounting' = [accounting EXCEPT ![s] = "incomplete"]
    \/ WritesFail /\ UNCHANGED <<status, accounting>>

-----------------------------------------------------------------------------
(* Dispatch                                                                *)

\* run(): a loop of the session starts; only a terminal row refuses it.
StartLoop(f, s) ==
    /\ flow[f] = NoFlow /\ status[s] \notin {"done", "failed"}
    /\ flow' = [flow EXCEPT ![f] = [sess |-> s, call |-> None, last |-> None, zombie |-> FALSE]]
    /\ status' = [status EXCEPT ![s] = "running"]
    /\ UNCHANGED <<row, checkpoint, base, accounting, charged, spent, turn, opened, said, crashes>>

\* A mutation: an unknown call does not block the next one.
BeginProviderCallStarted(f, r, resume) ==
    LET s == flow[f].sess  on == flow[f].last IN
    /\ Idle(f)
    /\ resume => r = "worker" /\ on # None
    /\ {c \in Unresolved(s) : row[c].status = "started"} = {}
    /\ \E c \in Calls :
         /\ row[c] = NoRow
         /\ row' = [row EXCEPT ![c] = [sess |-> s, role |-> r, status |-> "started", cost |-> 0]]
         /\ turn' = [turn EXCEPT ![c] = "attached"]
         /\ opened' = [opened EXCEPT ![c] = IF resume THEN on ELSE c]
         /\ base' = [base EXCEPT ![c] = IF resume THEN checkpoint[on] ELSE 0]
         /\ flow' = [flow EXCEPT ![f].call = c]
    /\ accounting' = [accounting EXCEPT ![s] = "ok"]
    /\ UNCHANGED <<checkpoint, status, charged, spent, said, crashes>>

\* beginProviderCall, its transaction committed.  A protocol or observe retry
\* resumes the provider session of the sub-task's previous turn, and is
\* measured against its checkpoint.
BeginProviderCall(f, r, resume) ==
    LET s == flow[f].sess  on == flow[f].last IN
    /\ Idle(f)
    /\ resume => r = "worker" /\ on # None
    /\ Unresolved(s) = {}
    /\ \E c \in Calls :
         /\ row[c] = NoRow
         /\ row' = [row EXCEPT ![c] = [sess |-> s, role |-> r, status |-> "started", cost |-> 0]]
         /\ turn' = [turn EXCEPT ![c] = "attached"]
         /\ opened' = [opened EXCEPT ![c] = IF resume THEN on ELSE c]
         /\ base' = [base EXCEPT ![c] = IF resume THEN checkpoint[on] ELSE 0]
         /\ flow' = [flow EXCEPT ![f].call = c]
    /\ accounting' = [accounting EXCEPT ![s] = "ok"]
    /\ UNCHANGED <<checkpoint, status, charged, spent, said, crashes>>

\* beginProviderCall refused by an unresolved row, or its write failed: the
\* loop returns without a finaliser.
DispatchRefused(f) ==
    /\ Idle(f) /\ (Unresolved(flow[f].sess) # {} \/ WritesFail)
    /\ MarkIncomplete(flow[f].sess) /\ Stop(f)
    /\ UNCHANGED <<row, checkpoint, base, charged, spent, turn, opened, said, crashes>>

-----------------------------------------------------------------------------
(* The accounting continuation of a turn                                   *)

\* What the adapter may report of a turn: a cost, the provider session it ran
\* on, and the baseline its meter was read against.  Only a worker's meter is
\* kept.  A resumed session that would not load runs on a session of its own,
\* with the old baseline; without a stored one the agent's replay decides.
Reports(c) ==
    LET read == IF base[c] = NoFigure THEN Costs ELSE {base[c]} IN
    {[cost |-> m, on |-> p, from |-> b] : m \in Costs, p \in {opened[c], c},
        b \in IF row[c].role = "worker" THEN read \cup {NoFigure} ELSE {NoFigure}}

\* Only a started row is charged, and only from where the checkpoint stands.
Bookable(c, r) ==
    /\ row[c].status = "started"
    /\ r.from # NoFigure => checkpoint[r.on] \in {NoFigure, r.from}

Book(c, r, upto) ==
    LET s == row[c].sess IN
    /\ row' = [row EXCEPT ![c].status = "completed", ![c].cost = r.cost]
    /\ charged' = [charged EXCEPT ![s] = @ + r.cost] /\ spent' = spent + r.cost
    /\ opened' = [opened EXCEPT ![c] = r.on] /\ base' = [base EXCEPT ![c] = r.from]
    /\ checkpoint' = IF r.from = NoFigure THEN checkpoint
                     ELSE [checkpoint EXCEPT ![r.on] = upto]
    /\ accounting' = [accounting EXCEPT ![s] = "ok"]
    /\ UNCHANGED status

\* A mutation: the checkpoint is the turn's own cost.
ChargeLastTurn(c, r) == Bookable(c, r) /\ Book(c, r, r.cost)

\* A mutation: a late completion is charged whatever became of the row.
ChargeUnfenced(c, r) == Book(c, r, r.from + r.cost)

\* finishProviderCallWithSpend, its transaction committed.
Charge(c, r) == Bookable(c, r) /\ Book(c, r, r.from + r.cost)

\* The turn returned, or threw, with a figure: it is booked, or everything is
\* rolled back.
Measured(c, r) ==
    /\ turn[c] = "attached"
    /\ turn' = [turn EXCEPT ![c] = "reported"]
    /\ said' = [said EXCEPT ![c] = r.cost]
    /\ \/ Charge(c, r) /\ Resume(c, r.on)
       \/ /\ ~Bookable(c, r) \/ WritesFail
          /\ MarkIncomplete(row[c].sess) /\ Release(c)
          /\ UNCHANGED <<row, checkpoint, base, charged, spent, opened>>
    /\ UNCHANGED crashes

\* Two mutations: a call without a usable cost is recorded as a free one, or
\* as `failed`, which the fence does not look for.
SettleFree(c) ==
    row' = [row EXCEPT ![c].status = IF @ = "started" THEN "completed" ELSE @]
\* finishProviderCall(unknown): only a started row is settled.
SettleUnknown(c) ==
    row' = [row EXCEPT ![c].status = IF @ = "started" THEN "unknown" ELSE @]

\* The turn ended without a usable cost.
Unmeasured(c) ==
    /\ turn[c] = "attached"
    /\ turn' = [turn EXCEPT ![c] = "ended"]
    /\ SettleUnknown(c) \/ (WritesFail /\ UNCHANGED row)
    /\ MarkIncomplete(row[c].sess) /\ Release(c)
    /\ UNCHANGED <<checkpoint, base, charged, spent, opened, said, crashes>>

\* A turn nobody listens to any more ends: its figure reaches no ledger.
DetachedEnds(c) ==
    /\ turn[c] = "detached"
    /\ turn' = [turn EXCEPT ![c] = "ended"]
    /\ UNCHANGED <<row, checkpoint, base, status, accounting, charged, spent, opened, said, flow, crashes>>

-----------------------------------------------------------------------------
(* Giving up on a turn                                                     *)

\* A lead or adversary timeout is inside the accounted call: the call settles
\* as unknown while the turn runs on, detached.
InnerTimeout(c) ==
    /\ turn[c] = "attached" /\ row[c].role \in {"lead", "adversary"}
    /\ turn' = [turn EXCEPT ![c] = "detached"]
    /\ SettleUnknown(c) \/ (WritesFail /\ UNCHANGED row)
    /\ MarkIncomplete(row[c].sess) /\ Release(c)
    /\ UNCHANGED <<checkpoint, base, charged, spent, opened, said, crashes>>

\* A worker's first turn is raced from outside: the row is marked unknown, and
\* the turn and its continuation run on.  The loop returns; an observe
\* sub-task first tries its scripted or best-effort fallback.
WorkerTimeout(f) ==
    LET c == flow[f].call IN
    /\ c # None /\ opened[c] = c /\ row[c].role = "worker"
    /\ \/ SettleUnknown(c) /\ MarkIncomplete(row[c].sess)
       \/ WritesFail /\ UNCHANGED <<row, status, accounting>>
    /\ Stop(f) \/ flow' = [flow EXCEPT ![f].call = None]
    /\ UNCHANGED <<checkpoint, base, charged, spent, turn, opened, said, crashes>>

\* A protocol or observe retry that times out keeps the previous turn's result
\* and leaves the row as it is.
RetryTimeout(f) ==
    /\ flow[f].call # None /\ opened[flow[f].call] # flow[f].call
    /\ flow' = [flow EXCEPT ![f].call = None]
    /\ UNCHANGED <<row, checkpoint, base, status, accounting, charged, spent, turn, opened, said, crashes>>

\* subtask_deadline_seconds: the loop fails the session, the sub-task's flow
\* lives on.
SubTaskDeadline(f) ==
    /\ flow[f] # NoFlow /\ ~flow[f].zombie
    /\ flow' = [flow EXCEPT ![f].zombie = TRUE]
    /\ status' = [status EXCEPT ![flow[f].sess] = "failed"]
    /\ UNCHANGED <<row, checkpoint, base, accounting, charged, spent, turn, opened, said, crashes>>

\* The loop ends in a finaliser; a zombie just ends.
Finalise(f) ==
    /\ Idle(f)
    /\ IF flow[f].zombie THEN UNCHANGED status
         ELSE \E st \in {"done", "failed"} : status' = [status EXCEPT ![flow[f].sess] = st]
    /\ Stop(f)
    /\ UNCHANGED <<row, checkpoint, base, accounting, charged, spent, turn, opened, said, crashes>>

\* The process dies; the provider's turns do not know.
Crash ==
    /\ crashes < MaxCrashes
    /\ crashes' = crashes + 1
    /\ flow' = [f \in Flows |-> NoFlow]
    /\ turn' = [c \in Calls |-> IF turn[c] = "attached" THEN "detached" ELSE turn[c]]
    /\ UNCHANGED <<row, checkpoint, base, status, accounting, charged, spent, opened, said>>

-----------------------------------------------------------------------------
FlowStep(f) ==
    \/ \E s \in Sessions : StartLoop(f, s)
    \/ \E r \in Roles, resume \in BOOLEAN : BeginProviderCall(f, r, resume)
    \/ DispatchRefused(f) \/ WorkerTimeout(f) \/ RetryTimeout(f)
    \/ SubTaskDeadline(f) \/ Finalise(f)

TurnStep(c) ==
    \/ \E r \in Reports(c) : Measured(c, r)
    \/ Unmeasured(c) \/ DetachedEnds(c) \/ InnerTimeout(c)

Next ==
    \/ \E f \in Flows : FlowStep(f)
    \/ \E c \in Calls : TurnStep(c)
    \/ Crash

Spec == Init /\ [][Next]_vars

-----------------------------------------------------------------------------
(* Properties                                                              *)

\* Whatever was abandoned, retried, re-driven or lost in a crash: a session
\* never pays for two provider turns that run at the same time.
OneTurnInFlight == \A c, d \in Calls :
    InFlight(c) /\ InFlight(d) /\ row[c].sess = row[d].sess => c = d

\* Every dollar an adapter reported of a session's turns is on the session, or
\* on a row that is still unresolved, however late it came; so is the user's
\* ledger, whatever rolled back.  A call nobody heard a figure of is never
\* settled as a free one.
ReportedSpendIsBooked ==
    /\ \A s \in Sessions : Sum(said, Of(s)) = charged[s] + Sum(said, Unresolved(s))
    /\ spent = Sum(charged, Sessions)
    /\ \A c \in Calls : row[c].status = "completed" => turn[c] = "reported"

\* The completed calls booked from the meter of provider session p, and where
\* the meter stood when each of them was.
Metered(p) == {c \in Calls : opened[c] = p /\ row[c].status = "completed" /\ base[c] # NoFigure}
Upto(c)    == base[c] + row[c].cost

\* No stretch of a provider session's meter is booked twice: the stretches are
\* disjoint, the checkpoint is not behind any of them, and it has not moved
\* since a resumed turn that is still to be booked read its baseline.
MeterBookedOnce ==
    /\ \A p \in Calls : \A c \in Metered(p) :
         /\ Upto(c) <= checkpoint[p]
         /\ \A d \in Metered(p) \ {c} : Upto(c) <= base[d] \/ Upto(d) <= base[c]
    /\ \A c \in Calls : row[c].status = "started" /\ opened[c] # c =>
         base[c] = checkpoint[opened[c]]

\* A settled row is history: a late completion, a second timeout or a new loop
\* never rewrites it, and only a started row is ever charged.
SettledForGood ==
    [][\A c \in Calls : row[c].status \in {"completed", "unknown"} => row'[c] = row[c]]_vars
=============================================================================
