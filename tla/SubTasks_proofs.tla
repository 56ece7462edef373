-------------------------- MODULE SubTasks_proofs --------------------------
(* What SubTasks proves, for every plan, every choice of observe sub-tasks  *)
(* and of refused paths, and every limit on cycles, runs and retries.       *)
EXTENDS SubTasks, WellFoundedInduction, TLAPS

\* The last attempt at s was accepted, or the operator dropped s, or an earlier run's row
\* stands in for it.
Good(s) == s \in sound \/ s \in skipped \/ Shadowed(s)

\* The driver goes on: it waits for a sub-task, or passes to the next.
Going == pc = "waiting" \/ (pc = "pick" /\ failed = "none")

\* A failure that is no question: nothing is dispatched or continued any more.
Over == pc = "ended" \/ (pc = "pick" /\ failed # "none" /\ clarify = 0)

\* The promise under way is the one the driver waits for, or it is late and alone.
FlowInv ==
    /\ pc = "planning" => cycle = 0
    /\ pc \in {"pick", "waiting", "review"} => cycle >= 1
    /\ pc = "waiting" => /\ flow.step # "idle" /\ ~flow.late /\ flow.cycle = cycle /\ clarify = 0
                         /\ flow.seq \in visited /\ flow.seq \notin done
                         /\ failed # "none" <=> flow.step \in {"rescuing", "retracting"}
                         /\ flow.step # "entry" => ran[flow.seq] = cycle
                         /\ flow.step = "rescuing" => row[cycle][flow.seq] = "failed_verification"
    /\ pc # "waiting" /\ flow.step # "idle" => flow.late
    /\ flow.step = "idle" => ~flow.late
    /\ pc = "pick" /\ clarify # 0 => failed # "none"
    /\ pc = "paused" => clarify # 0

\* What the driver has passed is done, and what is done, or stands from the cycle
\* before, is good.
DoneInv ==
    Going =>
        /\ \A s \in done : Good(s)
        /\ \A s \in visited : s \in done \/ (pc = "waiting" /\ s = flow.seq)
        /\ cycle > 1 => \A s \in Plan : s \notin visited => Good(s)
        /\ cycle > 1 /\ pc = "waiting" /\ flow.step = "entry" /\ flow.seq \in Plan => Good(flow.seq)
        /\ cycle = 1 => scoped = {} /\ done \subseteq cont.completed \cup visited

\* Between the cycles.
HeadInv ==
    /\ pc = "review" => /\ Plan \subseteq visited /\ visited \subseteq done
                        /\ \A s \in visited : Good(s)
    /\ pc = "head" /\ cycle > 0 => \A s \in Plan : Good(s)
    /\ pc \in {"planning", "head"} /\ cycle = 0 => \A s \in cont.completed : Good(s)

\* What a continuation will find completed is good, but for the checkpoint still awaited.
RowInv ==
    ~Over =>
        \A s \in Completed(row) :
            Good(s) \/ (s = flow.seq /\ flow.step \in {"settling", "retracting"})

\* Nothing has run before the paths are permitted; the sub-task that asks is not completed.
AskInv ==
    /\ conflicts # {} => /\ pc \in {"planning", "paused", "ended"} /\ flow.step = "idle"
                         /\ \A c \in 1..MaxCycles : \A s \in Seqs : row[c][s] = "none"
    /\ ~Over /\ clarify \in Completed(row) => Shadowed(clarify)
    /\ ((pc \in {"planning", "head"} /\ cycle = 0) \/ (Going /\ cycle = 1 /\ cont.seq \notin visited))
       => (cont.answer = "text" /\ cont.seq \in cont.completed => Shadowed(cont.seq))

IInv == TypeOK /\ FlowInv /\ AbandonedRunsAlone /\ DoneInv /\ HeadInv /\ RowInv /\ AskInv

-----------------------------------------------------------------------------
(* The operators                                                           *)

Flows == [seq : Seqs, cycle : 1..MaxCycles, step : Steps,
          tries : 0..(MaxRetries + MaxTimeouts + 1), late : BOOLEAN]

\* A set of numbers that is not empty has a least one, which CHOOSE finds.
LEMMA Least ==
  ASSUME NEW S \in SUBSET Nat, S # {}
  PROVE  (CHOOSE s \in S : \A t \in S : s <= t) \in S
  <1>1. PICK s \in S : \A t \in S : ~(<<t, s>> \in OpToRel(<, Nat))
    BY WFMin, NatLessThanWellFounded, Zenon
  <1>2. \A t \in S : ~(t < s)
    BY <1>1, Zenon DEF OpToRel
  <1>3. \A t \in S : s <= t
    BY <1>2
  <1> QED
    BY <1>3

LEMMA Sets ==
  /\ N \in Nat /\ N >= 1 /\ MaxCycles \in Nat /\ MaxCycles >= 1 /\ MaxRuns \in Nat
  /\ MaxRuns >= 1 /\ MaxRetries \in Nat /\ MaxTimeouts \in Nat /\ MaxTimeouts >= 1
  /\ Plan \subseteq Seqs /\ 1 \in Seqs /\ N + 1 \in Seqs /\ N + 1 \notin Plan
  /\ Seqs \subseteq Nat /\ Plan \subseteq Nat /\ Observes \subseteq Plan /\ Conflicts \subseteq Plan
  /\ Idle \in Flows
  BY PlanAssumption, LimitAssumption DEF Plan, Seqs, Idle, Flows, Steps

LEMMA NextIsReady ==
  ASSUME Ready # {}
  PROVE  NextSeq \in Ready
  <1>1. Ready \subseteq Nat
    BY Sets DEF Ready
  <1> QED
    BY <1>1, Least DEF NextSeq

LEMMA FlowFields ==
  ASSUME flow \in Flows
  PROVE  /\ flow.seq \in Seqs /\ flow.cycle \in 1..MaxCycles /\ flow.step \in Steps
         /\ flow.tries \in 0..(MaxRetries + MaxTimeouts + 1) /\ flow.late \in BOOLEAN
         /\ flow.seq \in Nat /\ flow.cycle \in Nat /\ flow.tries \in Nat
  <1>1. /\ flow.seq \in Seqs /\ flow.cycle \in 1..MaxCycles /\ flow.step \in Steps
        /\ flow.tries \in 0..(MaxRetries + MaxTimeouts + 1) /\ flow.late \in BOOLEAN
    BY DEF Flows
  <1>2. flow.seq \in Nat
    BY <1>1, Sets
  <1>3. flow.cycle \in Nat
    BY <1>1, Sets
  <1>4. flow.tries \in Nat
    BY <1>1, Sets
  <1> QED
    BY <1>1, <1>2, <1>3, <1>4

Rows == [1..MaxCycles -> [Seqs -> Statuses]]

\* What is good stays good while no attempt at it begins or is given up.
LEMMA GoodStays ==
  ASSUME NEW s, Good(s), s \in sound => s \in sound', s \in skipped => s \in skipped',
         \A c \in 1..MaxCycles : row[c][s] # "none" => row'[c][s] # "none", ran'[s] = ran[s]
  PROVE  Good(s)'
  BY DEF Good, Shadowed, Cycles

LEMMA ShadowStays ==
  ASSUME NEW s, Shadowed(s),
         \A c \in 1..MaxCycles : row[c][s] # "none" => row'[c][s] # "none", ran'[s] = ran[s]
  PROVE  Shadowed(s)'
  BY DEF Shadowed, Cycles

Wrote(c, s, st) == row' = [row EXCEPT ![c][s] = st]

\* One row is written.
LEMMA WriteRow ==
  ASSUME row \in Rows, NEW c \in 1..MaxCycles, NEW s \in Seqs, NEW st \in Statuses \ {"none"},
         Wrote(c, s, st)
  PROVE  /\ row' \in Rows /\ row'[c][s] = st
         /\ \A d \in 1..MaxCycles, t \in Seqs : d # c \/ t # s => row'[d][t] = row[d][t]
         /\ \A d \in 1..MaxCycles, t \in Seqs : row[d][t] # "none" => row'[d][t] # "none"
         /\ \A t \in Seqs : t # s => (t \in Completed(row') <=> t \in Completed(row))
         /\ st \notin Accepted /\ s \in Completed(row') =>
              s \in Completed(row) /\ \E d \in 1..MaxCycles : d > c /\ row'[d][s] # "none"
  <1>1. row' \in Rows /\ row'[c][s] = st
    BY DEF Rows, Wrote
  <1>2. \A d \in 1..MaxCycles, t \in Seqs : d # c \/ t # s => row'[d][t] = row[d][t]
    BY DEF Rows, Wrote
  <1>3. \A d \in 1..MaxCycles, t \in Seqs : row[d][t] # "none" => row'[d][t] # "none"
    BY <1>1, <1>2
  <1>4. ASSUME NEW t \in Seqs, t # s
        PROVE  t \in Completed(row') <=> t \in Completed(row)
    <2>1. \A d \in 1..MaxCycles : row'[d][t] = row[d][t]
      BY <1>2, <1>4
    <2>2. \A d \in 1..MaxCycles : \A e \in (d + 1)..MaxCycles : e \in 1..MaxCycles
      BY Sets
    <2> QED
      BY <2>1, <2>2 DEF Completed
  <1>5. ASSUME st \notin Accepted, s \in Completed(row')
        PROVE  s \in Completed(row) /\ \E d \in 1..MaxCycles : d > c /\ row'[d][s] # "none"
    <2>1. PICK d \in 1..MaxCycles : /\ row'[d][s] \in Accepted
                                    /\ \A e \in (d + 1)..MaxCycles : row'[e][s] = "none"
      BY <1>5 DEF Completed
    <2>2. d # c
      BY <1>1, <1>5, <2>1
    <2>3. d > c
      BY <1>1, <2>1, <2>2, Sets
    <2>4. \A e \in d..MaxCycles : e \in 1..MaxCycles /\ row'[e][s] = row[e][s]
      BY <1>2, <2>3, Sets
    <2>5. row[d][s] \in Accepted /\ \A e \in (d + 1)..MaxCycles : row[e][s] = "none"
      BY <2>1, <2>4, Sets
    <2>6. row'[d][s] # "none"
      BY <2>1 DEF Accepted
    <2> QED
      BY <2>3, <2>5, <2>6 DEF Completed
  <1> QED
    BY <1>1, <1>2, <1>3, <1>4, <1>5

LEMMA SetRowFacts ==
  ASSUME flow \in Flows, row \in Rows, NEW st \in Statuses \ {"none"}, SetRow(st)
  PROVE  /\ row' \in Rows /\ row'[flow.cycle][flow.seq] = st
         /\ \A d \in 1..MaxCycles, t \in Seqs : row[d][t] # "none" => row'[d][t] # "none"
         /\ \A t \in Seqs : t # flow.seq => (t \in Completed(row') <=> t \in Completed(row))
         /\ st \notin Accepted /\ flow.seq \in Completed(row') =>
              \E d \in 1..MaxCycles : d > flow.cycle /\ row'[d][flow.seq] # "none"
  <1>1. PICK c \in 1..MaxCycles, s \in Seqs : c = flow.cycle /\ s = flow.seq
    BY FlowFields
  <1>2. Wrote(c, s, st)
    BY <1>1 DEF SetRow, Seq, Wrote
  <1>3. /\ row' \in Rows /\ row'[c][s] = st
        /\ \A d \in 1..MaxCycles, t \in Seqs : row[d][t] # "none" => row'[d][t] # "none"
        /\ \A t \in Seqs : t # s => (t \in Completed(row') <=> t \in Completed(row))
        /\ st \notin Accepted /\ s \in Completed(row') =>
              s \in Completed(row) /\ \E d \in 1..MaxCycles : d > c /\ row'[d][s] # "none"
    BY <1>2, WriteRow
  <1> QED
    BY <1>1, <1>3

-----------------------------------------------------------------------------
(* What a step of the promise may change                                   *)

Tries == 0..(MaxRetries + MaxTimeouts + 1)

LEMMA TypeFacts ==
  ASSUME TypeOK
  PROVE  flow \in Flows /\ row \in Rows
  BY DEF TypeOK, Flows, Rows

\* The promise goes to its next step, or returns.
LEMMA FlowMoves ==
  ASSUME TypeOK, Flow
  PROVE  \/ flow' = Idle /\ Return
         \/ /\ UNCHANGED driver
            /\ \E st \in Steps \ {"idle"}, n \in Tries : flow' = [flow EXCEPT !.step = st, !.tries = n]
  <1> DEFINE Moves == \E st \in Steps \ {"idle"}, n \in Tries : flow' = [flow EXCEPT !.step = st, !.tries = n]
  <1>1. flow \in Flows /\ flow.tries \in Nat /\ flow.tries \in Tries
    BY TypeFacts, FlowFields DEF Tries
  <1>2. ASSUME NEW st \in Steps \ {"idle"}, Goto(st)
        PROVE  Moves /\ UNCHANGED driver
    <2>1. flow' = [flow EXCEPT !.step = st, !.tries = flow.tries]
      BY <1>1, <1>2 DEF Goto, Flows
    <2> QED
      BY <1>1, <1>2, <2>1 DEF Goto
  <1>3. ASSUME NEW st \in Steps \ {"idle"}, Enter(st)
        PROVE  Moves /\ UNCHANGED driver
    <2>1. 0 \in Tries
      BY Sets DEF Tries
    <2> QED
      BY <1>3, <2>1 DEF Enter
  <1>4. ASSUME NEW st \in Steps \ {"idle"}, Again(st), flow.tries + 1 \in Tries
        PROVE  Moves /\ UNCHANGED driver
    BY <1>4 DEF Again
  <1> SUFFICES (flow' = Idle /\ Return) \/ (UNCHANGED driver /\ Moves)
    OBVIOUS
  <1> HIDE DEF Moves
  <1>5. CASE Begin \/ TurnOver
    BY <1>3, <1>5 DEF Begin, TurnOver, Steps
  <1>6. CASE FirstTokenRetry \/ ProtocolRetry
    <2>1. flow.tries + 1 < MaxTimeouts \/ flow.tries < MaxRetries \/ flow.tries < 1
      BY <1>6 DEF FirstTokenRetry, ProtocolRetry
    <2>2. flow.tries + 1 \in Tries
      BY <1>1, <2>1, Sets DEF Tries
    <2> QED
      BY <1>4, <1>6, <2>2 DEF FirstTokenRetry, ProtocolRetry, Steps
  <1>7. CASE VerifyPasses \/ RetryPasses \/ RetryPassesIncomplete \/ RetryJudged \/ PathMismatch
             \/ RescueVerified
    BY <1>2, <1>7 DEF VerifyPasses, RetryPasses, RetryPassesIncomplete, RetryJudged, PathMismatch,
                      RescueVerified, Steps
  <1>8. CASE Return
    BY <1>8 DEF Return
  <1>9. CASE \/ Refused \/ ReprobeSkipped \/ TurnLost \/ ScriptedFallback \/ BestEffort
             \/ TurnIncomplete \/ DispatchError \/ Settled \/ NothingToChange \/ RetryUnaccounted
             \/ FailVerification \/ ObserveBlocked \/ Rescued \/ AutoResolved \/ Escalated
    BY <1>8, <1>9 DEF Refused, ReprobeSkipped, TurnLost, ScriptedFallback, BestEffort,
              TurnIncomplete, DispatchError, Settled, NothingToChange, RetryUnaccounted,
              FailVerification, ObserveBlocked, Rescued, AutoResolved, Escalated
  <1> QED
    BY <1>5, <1>6, <1>7, <1>9, Zenon DEF Flow

\* It writes its own row or none.
LEMMA FlowWrites ==
  ASSUME Flow
  PROVE  row' = row \/ \E st \in Statuses \ {"none"} : SetRow(st)
  BY DEF Flow, Statuses, Accepted, Refused, ReprobeSkipped, Begin, FirstTokenRetry, TurnLost,
         ScriptedFallback, BestEffort, TurnOver, TurnIncomplete, DispatchError, VerifyPasses,
         Settled, NothingToChange, ProtocolRetry, RetryPasses, RetryPassesIncomplete, RetryJudged,
         RetryUnaccounted, FailVerification, ObserveBlocked, PathMismatch, RescueVerified, Rescued,
         AutoResolved, Escalated

\* What it does to the cycle that waits for it, and to the history.
LEMMA FlowTells ==
  ASSUME Flow
  PROVE  /\ UNCHANGED fixed /\ skipped' = skipped
         /\ UNCHANGED done \/ Done
         /\ UNCHANGED <<failed, clarify>> \/ Retract \/ \E why \in Errors, q \in BOOLEAN : Fail(why, q)
         /\ ran' = ran \/ ran' = [ran EXCEPT ![Seq] = flow.cycle]
         /\ sound' \in {sound, sound \cup {Seq}, sound \ {Seq}}
  BY DEF Flow, Errors, Accept, fixed, ghost, local, Refused, ReprobeSkipped, Begin, FirstTokenRetry, TurnLost,
         ScriptedFallback, BestEffort, TurnOver, TurnIncomplete, DispatchError, VerifyPasses,
         Settled, NothingToChange, ProtocolRetry, RetryPasses, RetryPassesIncomplete, RetryJudged,
         RetryUnaccounted, FailVerification, ObserveBlocked, PathMismatch, RescueVerified, Rescued,
         AutoResolved, Escalated

LEMMA FlowTypes ==
  ASSUME TypeOK, Flow
  PROVE  TypeOK'
  <1>1. /\ flow \in Flows /\ row \in Rows /\ flow.seq \in Seqs /\ flow.cycle \in 1..MaxCycles
        /\ Idle \in Flows
    BY TypeFacts, FlowFields, Sets
  <1>2. flow' \in Flows
    BY FlowMoves, <1>1 DEF Flows, Tries
  <1>3. row' \in Rows
    BY FlowWrites, SetRowFacts, <1>1
  <1>4. /\ pc' \in {"planning", "head", "pick", "waiting", "review", "paused", "ended"}
        /\ UNCHANGED <<cycle, visited, scoped>>
    BY FlowMoves DEF TypeOK, Return, driver
  <1>5. done' \subseteq Seqs
    BY FlowTells, <1>1 DEF Done, Seq, TypeOK
  <1>6. failed' \in Errors /\ clarify' \in 0..(N + 1)
    <2>1. flow.seq \in 0..(N + 1)
      BY <1>1, Sets DEF Seqs
    <2> QED
      BY FlowTells, <2>1 DEF Fail, Retract, TypeOK, Errors, Seq
  <1>7. sound' \subseteq Seqs /\ skipped' \subseteq Seqs /\ ran' \in [Seqs -> 0..MaxCycles]
    <2>1. flow.cycle \in 0..MaxCycles
      BY <1>1, Sets
    <2> QED
      BY FlowTells, <1>1, <2>1 DEF TypeOK, Seq
  <1>8. UNCHANGED fixed
    BY FlowTells
  <1> QED
    BY <1>2, <1>3, <1>4, <1>5, <1>6, <1>7, <1>8 DEF TypeOK, Flows, Rows, fixed

-----------------------------------------------------------------------------
(* The invariant: initially, and over a step of the promise                *)

LEMMA InitInv == Init => IInv
  <1> SUFFICES ASSUME Init PROVE IInv
    OBVIOUS
  <1>1. flow = Idle /\ flow \in Flows /\ flow.step = "idle" /\ flow.late = FALSE
    BY Sets DEF Init, Idle
  <1>2. row \in Rows /\ \A c \in 1..MaxCycles, s \in Seqs : row[c][s] = "none"
    BY DEF Init, Rows, Statuses
  <1>3. TypeOK
    <2>1. cont \in [on : BOOLEAN, completed : SUBSET Seqs, seq : 0..(N + 1), answer : Answers]
      BY Sets DEF Init, Fresh, Answers
    <2>2. ran \in [Seqs -> 0..MaxCycles] /\ runs \in 1..MaxRuns /\ cycle \in 0..MaxCycles
      BY Sets DEF Init
    <2>3. clarify \in 0..(N + 1) /\ failed \in Errors /\ conflicts \subseteq Conflicts
      BY Sets DEF Init, Errors
    <2> QED
      BY <1>1, <1>2, <2>1, <2>2, <2>3 DEF Init, TypeOK, Flows, Rows
  <1>4. Completed(row) = {}
    BY <1>2 DEF Completed, Accepted
  <1>5. FlowInv /\ AbandonedRunsAlone
    BY <1>1 DEF Init, FlowInv, AbandonedRunsAlone
  <1>6. DoneInv /\ HeadInv
    BY DEF Init, DoneInv, HeadInv, Going, Fresh
  <1>7. RowInv /\ AskInv
    BY <1>1, <1>2, <1>4 DEF Init, RowInv, AskInv, Going, Fresh
  <1> QED
    BY <1>3, <1>5, <1>6, <1>7 DEF IInv

\* Nothing else is asked of a state in which nothing goes on.
LEMMA OverSuffices ==
  ASSUME Over', conflicts' = {}
  PROVE  DoneInv' /\ HeadInv' /\ RowInv' /\ AskInv'
  BY DEF Over, DoneInv, HeadInv, RowInv, AskInv, Going

LEMMA FlowActive ==
  ASSUME Flow
  PROVE  flow.step # "idle"
  BY DEF Flow, At, Refused, ReprobeSkipped, Begin, FirstTokenRetry, TurnLost,
         ScriptedFallback, BestEffort, TurnOver, TurnIncomplete, DispatchError, VerifyPasses,
         Settled, NothingToChange, ProtocolRetry, RetryPasses, RetryPassesIncomplete, RetryJudged,
         RetryUnaccounted, FailVerification, ObserveBlocked, PathMismatch, RescueVerified, Rescued,
         AutoResolved, Escalated

LEMMA LateKeeps ==
  ASSUME IInv, Flow, flow.late
  PROVE  IInv'
  <1>1. TypeOK' /\ flow \in Flows /\ flow' \in Flows
    BY FlowTypes, TypeFacts DEF IInv, TypeOK, Flows
  <1>2. UNCHANGED <<pc, cycle, visited, scoped, done, failed, clarify, cont, conflicts, runs>>
    BY FlowMoves, FlowTells DEF IInv, Return, Done, Retract, Fail, driver, fixed
  <1>3. flow' = Idle \/ (flow'.late = flow.late /\ flow'.step # "idle")
    BY FlowMoves, <1>1 DEF IInv, Flows
  <1>4. pc \in {"pick", "ended"} /\ failed # "none" /\ clarify = 0 /\ flow.step # "idle"
    BY FlowActive DEF IInv, AbandonedRunsAlone
  <1>5. conflicts = {}
    BY <1>4 DEF IInv, AskInv
  <1>6. FlowInv' /\ AbandonedRunsAlone'
    <2>1. \/ flow'.step = "idle" /\ ~flow'.late
          \/ flow'.step # "idle" /\ flow'.late
      <3>1. ASSUME flow' = Idle PROVE flow'.step = "idle" /\ ~flow'.late
        BY <3>1 DEF Idle
      <3>2. ASSUME flow'.late = flow.late PROVE flow'.late
        BY <3>2
      <3> QED
        BY <1>3, <3>1, <3>2
    <2>2. pc' \in {"pick", "ended"} /\ failed' # "none" /\ clarify' = 0 /\ cycle' = cycle /\ pc' = pc
      BY <1>2, <1>4
    <2>3. pc \in {"pick", "waiting", "review"} => cycle >= 1
      BY DEF IInv, FlowInv
    <2> QED
      BY <2>1, <2>2, <2>3 DEF FlowInv, AbandonedRunsAlone
  <1>7. Over'
    BY <1>2, <1>4 DEF Over
  <1>8. DoneInv' /\ HeadInv' /\ RowInv' /\ AskInv'
    BY OverSuffices, <1>2, <1>5, <1>7
  <1> QED
    BY <1>1, <1>6, <1>8 DEF IInv

\* The rest of the invariant, without the types.
Rest == FlowInv /\ AbandonedRunsAlone /\ DoneInv /\ HeadInv /\ RowInv /\ AskInv

LEMMA WaitFacts ==
  ASSUME IInv, pc = "waiting"
  PROVE  /\ flow \in Flows /\ flow.seq \in Seqs /\ flow.cycle \in 1..MaxCycles /\ row \in Rows
         /\ flow.cycle = cycle /\ cycle >= 1 /\ clarify = 0 /\ conflicts = {} /\ Going /\ ~Over
         /\ cycle \in Nat /\ ran \in [Seqs -> 0..MaxCycles]
         /\ \A s \in visited : s \in Seqs
  <1>1. flow \in Flows /\ flow.seq \in Seqs /\ flow.cycle \in 1..MaxCycles /\ row \in Rows
    BY TypeFacts, FlowFields DEF IInv
  <1>2. flow.cycle = cycle /\ cycle >= 1 /\ clarify = 0 /\ conflicts = {} /\ Going /\ ~Over
    BY DEF IInv, FlowInv, AskInv, Going, Over
  <1>3. cycle \in Nat /\ ran \in [Seqs -> 0..MaxCycles] /\ \A s \in visited : s \in Seqs
    BY Sets DEF IInv, TypeOK
  <1> QED
    BY <1>1, <1>2, <1>3

\* The promise goes on: a row is written that is not accepted, or that awaits its checkpoint.
LEMMA GoesOn ==
  ASSUME IInv, pc = "waiting", UNCHANGED driver, done' = done, clarify' = clarify,
         UNCHANGED fixed, skipped' = skipped, flow' \in Flows, flow'.seq = flow.seq,
         flow'.cycle = flow.cycle, ~flow'.late, flow'.step \notin {"idle", "entry"},
         failed' # "none" <=> flow'.step \in {"rescuing", "retracting"},
         ran' \in [Seqs -> 0..MaxCycles], ran'[flow.seq] = cycle,
         \A s \in Seqs : s # flow.seq => ran'[s] = ran[s] /\ (s \in sound => s \in sound'),
         \/ /\ row' = row /\ sound' = sound /\ ran' = ran
            /\ flow.step \in {"settling", "retracting"} => flow'.step = flow.step
            /\ flow'.step # "rescuing"
         \/ \E st \in Statuses \ {"none"} :
               /\ SetRow(st)
               /\ st \notin Accepted \/ flow'.step \in {"settling", "retracting"}
               /\ flow'.step = "rescuing" => st = "failed_verification"
  PROVE  Rest'
  <1>1. /\ flow \in Flows /\ flow.seq \in Seqs /\ flow.cycle \in 1..MaxCycles /\ row \in Rows
        /\ flow.cycle = cycle /\ cycle >= 1 /\ clarify = 0 /\ conflicts = {} /\ Going /\ ~Over
    BY WaitFacts
  <1>2. /\ pc' = "waiting" /\ cycle' = cycle /\ visited' = visited /\ scoped' = scoped
        /\ conflicts' = {} /\ cont' = cont /\ clarify' = 0
    BY <1>1 DEF driver, fixed
  <1>3. /\ \A c \in 1..MaxCycles, s \in Seqs : row[c][s] # "none" => row'[c][s] # "none"
        /\ \A t \in Seqs : t # flow.seq => (t \in Completed(row') <=> t \in Completed(row))
    <2>1. CASE row' = row
      BY <2>1
    <2>2. CASE \E st \in Statuses \ {"none"} : SetRow(st)
      BY <1>1, <2>2, SetRowFacts
    <2> QED
      BY <2>1, <2>2
  <1>4. \A s \in Seqs : s # flow.seq /\ Good(s) => Good(s)'
    BY <1>3, GoodStays
  <1>5. \A s \in Seqs : s # flow.seq /\ Shadowed(s) => Shadowed(s)'
    BY <1>3, ShadowStays
  <1>6. flow.seq \in Completed(row') => Good(flow.seq)' \/ flow'.step \in {"settling", "retracting"}
    <2>1. CASE row' = row /\ sound' = sound /\ ran' = ran
                 /\ (flow.step \in {"settling", "retracting"} => flow'.step = flow.step)
      <3>1. flow.seq \in Completed(row) => Good(flow.seq) \/ flow.step \in {"settling", "retracting"}
        BY <1>1 DEF IInv, RowInv
      <3>2. Good(flow.seq) => Good(flow.seq)'
        BY <1>1, <2>1, GoodStays
      <3> QED
        BY <2>1, <3>1, <3>2
    <2>2. CASE \E st \in Statuses \ {"none"} : SetRow(st) /\ st \notin Accepted
      <3>1. flow.seq \in Completed(row') => \E d \in 1..MaxCycles : d > flow.cycle /\ row'[d][flow.seq] # "none"
        BY <1>1, <2>2, SetRowFacts
      <3>2. flow.seq \in Completed(row') => Shadowed(flow.seq)'
        BY <1>1, <3>1 DEF Shadowed, Cycles
      <3> QED
        BY <1>1, <3>2 DEF Good
    <2> QED
      BY <2>1, <2>2
  <1>7. FlowInv' /\ AbandonedRunsAlone'
    <2>1. flow'.step = "rescuing" => row'[cycle][flow.seq] = "failed_verification"
      BY <1>1, SetRowFacts, "failed_verification" \in Statuses \ {"none"} DEF Statuses
    <2>2. flow.seq \in visited /\ flow.seq \notin done
      BY DEF IInv, FlowInv
    <2> QED
      BY <1>1, <1>2, <2>1, <2>2 DEF FlowInv, AbandonedRunsAlone
  <1>8. DoneInv'
    <2>1. \A s \in done : s \in Seqs /\ s # flow.seq
      BY DEF IInv, TypeOK, FlowInv
    <2>2. \A s \in Plan : s \notin visited => s # flow.seq /\ s \in Seqs
      BY Sets DEF IInv, FlowInv
    <2> QED
      BY <1>1, <1>2, <1>4, <2>1, <2>2 DEF IInv, DoneInv, Going
  <1>9. HeadInv'
    BY <1>2 DEF HeadInv
  <1>10. RowInv'
    <2>1. \A s \in Completed(row') : s \in Seqs
      BY DEF Completed
    <2>2. \A s \in Completed(row') : s # flow.seq => Good(s)'
      BY <1>1, <1>3, <1>4, <2>1 DEF IInv, RowInv
    <2> QED
      BY <1>6, <2>2 DEF RowInv
  <1>11. AskInv'
    <2>1. 0 \notin Completed(row')
      BY DEF Completed, Seqs
    <2>2. ASSUME cycle = 1, cont.seq \notin visited, cont.answer = "text", cont.seq \in cont.completed
          PROVE  Shadowed(cont.seq)'
      <3>1. cont.seq \in Seqs
        BY <2>2 DEF IInv, TypeOK
      <3>2. flow.seq \in visited
        BY DEF IInv, FlowInv
      <3>3. PICK s \in Seqs : s = cont.seq /\ s # flow.seq
        BY <2>2, <3>1, <3>2
      <3>4. Shadowed(s)
        BY <1>1, <2>2, <3>3 DEF IInv, AskInv
      <3>5. Shadowed(s)'
        BY <1>5, <3>3, <3>4
      <3> QED
        BY <1>2, <3>3, <3>5 DEF Shadowed, Cycles
    <2> QED
      BY <1>2, <2>1, <2>2 DEF AskInv, Going
  <1> QED
    BY <1>7, <1>8, <1>9, <1>10, <1>11 DEF Rest

\* The promise returns with the sub-task done.
LEMMA ReturnsDone ==
  ASSUME IInv, pc = "waiting", Return, done' = done \cup {flow.seq}, failed' = "none",
         clarify' = clarify, UNCHANGED fixed, skipped' = skipped, ran' = ran,
         sound \subseteq sound', flow.seq \in sound' \/ (Good(flow.seq) /\ row' = row),
         row' = row \/ \E st \in Statuses \ {"none"} : SetRow(st)
  PROVE  Rest'
  <1>1. /\ flow \in Flows /\ flow.seq \in Seqs /\ row \in Rows
        /\ cycle >= 1 /\ clarify = 0 /\ conflicts = {} /\ Going /\ ~Over /\ ~flow.late
    BY WaitFacts DEF IInv, FlowInv
  <1>2. /\ pc' = "pick" /\ cycle' = cycle /\ visited' = visited /\ scoped' = scoped
        /\ conflicts' = {} /\ cont' = cont /\ clarify' = 0
        /\ flow'.step = "idle" /\ ~flow'.late /\ flow'.seq = 1
    BY <1>1 DEF Return, fixed, Idle
  <1>3. /\ \A c \in 1..MaxCycles, s \in Seqs : row[c][s] # "none" => row'[c][s] # "none"
        /\ \A t \in Seqs : t # flow.seq => (t \in Completed(row') <=> t \in Completed(row))
    <2>1. CASE row' = row
      BY <2>1
    <2>2. CASE \E st \in Statuses \ {"none"} : SetRow(st)
      BY <1>1, <2>2, SetRowFacts
    <2> QED
      BY <2>1, <2>2
  <1>4. \A s \in Seqs : Good(s) => Good(s)'
    BY <1>3, GoodStays
  <1>5. \A s \in Seqs : Shadowed(s) => Shadowed(s)'
    BY <1>3, ShadowStays
  <1>6. PICK q \in Seqs : q = flow.seq
    BY <1>1
  <1>7. Good(q)'
    <2>1. CASE q \in sound'
      BY <2>1 DEF Good
    <2>2. CASE Good(flow.seq)
      BY <1>4, <1>6, <2>2
    <2> QED
      BY <1>6, <2>1, <2>2
  <1>8. FlowInv' /\ AbandonedRunsAlone'
    BY <1>1, <1>2 DEF FlowInv, AbandonedRunsAlone
  <1>9. DoneInv'
    <2>1. \A s \in done' : Good(s)'
      <3>1. \A s \in done : s \in Seqs /\ Good(s)
        BY <1>1 DEF IInv, TypeOK, DoneInv
      <3> QED
        BY <1>4, <1>6, <1>7, <3>1
    <2>2. \A s \in visited : s \in done'
      BY <1>1 DEF IInv, DoneInv
    <2>3. cycle > 1 => \A s \in Plan : s \notin visited => Good(s)'
      BY <1>1, <1>4, Sets DEF IInv, DoneInv
    <2>4. cycle = 1 => scoped = {} /\ done' \subseteq cont.completed \cup visited
      BY <1>1 DEF IInv, DoneInv, FlowInv
    <2> QED
      BY <1>2, <2>1, <2>2, <2>3, <2>4 DEF DoneInv
  <1>10. HeadInv'
    BY <1>2 DEF HeadInv
  <1>11. RowInv'
    <2>1. \A s \in Completed(row') : s \in Seqs
      BY DEF Completed
    <2>2. \A s \in Completed(row') : s # q => Good(s)'
      BY <1>1, <1>3, <1>4, <1>6, <2>1 DEF IInv, RowInv
    <2> QED
      BY <1>7, <2>2 DEF RowInv
  <1>12. AskInv'
    <2>1. 0 \notin Completed(row')
      BY DEF Completed, Seqs
    <2>2. ASSUME cycle = 1, cont.seq \notin visited, cont.answer = "text", cont.seq \in cont.completed
          PROVE  Shadowed(cont.seq)'
      <3>1. PICK s \in Seqs : s = cont.seq
        BY <2>2 DEF IInv, TypeOK
      <3>2. Shadowed(s)
        BY <1>1, <2>2, <3>1 DEF IInv, AskInv
      <3>3. Shadowed(s)'
        BY <1>5, <3>2
      <3> QED
        BY <1>2, <3>1, <3>3 DEF Shadowed, Cycles
    <2> QED
      BY <1>2, <2>1, <2>2 DEF AskInv, Going
  <1> QED
    BY <1>8, <1>9, <1>10, <1>11, <1>12 DEF Rest

\* The promise returns with a question.
LEMMA ReturnsAsking ==
  ASSUME IInv, pc = "waiting", Return, done' = done, failed' # "none",
         clarify' = flow.seq, UNCHANGED fixed, UNCHANGED ghost, flow.step # "entry",
         NEW st \in Statuses \ {"none"}, SetRow(st), st \notin Accepted
  PROVE  Rest'
  <1>1. /\ flow \in Flows /\ flow.seq \in Seqs /\ row \in Rows /\ flow.cycle = cycle
        /\ cycle >= 1 /\ conflicts = {} /\ ~Over /\ ~flow.late /\ ran[flow.seq] = cycle
    BY WaitFacts DEF IInv, FlowInv
  <1>2. /\ pc' = "pick" /\ cycle' = cycle /\ conflicts' = {} /\ ran' = ran
        /\ flow'.step = "idle" /\ ~flow'.late
    BY <1>1 DEF Return, fixed, ghost, Idle
  <1>3. /\ \A c \in 1..MaxCycles, s \in Seqs : row[c][s] # "none" => row'[c][s] # "none"
        /\ \A t \in Seqs : t # flow.seq => (t \in Completed(row') <=> t \in Completed(row))
        /\ flow.seq \in Completed(row') =>
              \E d \in 1..MaxCycles : d > flow.cycle /\ row'[d][flow.seq] # "none"
    BY <1>1, SetRowFacts
  <1>4. \A s \in Seqs : Good(s) => Good(s)'
    BY <1>3, GoodStays DEF ghost
  <1>5. PICK q \in Seqs : q = flow.seq
    BY <1>1
  <1>6. q \in Completed(row') => Shadowed(q)'
    BY <1>1, <1>2, <1>3, <1>5 DEF Shadowed, Cycles
  <1>7. clarify' = q /\ q # 0
    BY <1>5 DEF Seqs
  <1>8. FlowInv' /\ AbandonedRunsAlone'
    BY <1>1, <1>2 DEF FlowInv, AbandonedRunsAlone
  <1>9. DoneInv' /\ HeadInv'
    BY <1>2 DEF DoneInv, HeadInv, Going
  <1>10. RowInv'
    <2>1. \A s \in Completed(row') : s \in Seqs
      BY DEF Completed
    <2>2. \A s \in Completed(row') : s # q => Good(s)'
      BY <1>1, <1>3, <1>4, <1>5, <2>1 DEF IInv, RowInv
    <2>3. q \in Completed(row') => Good(q)'
      BY <1>6 DEF Good
    <2> QED
      BY <2>2, <2>3 DEF RowInv
  <1>11. AskInv'
    <2>1. clarify' \in Completed(row') => Shadowed(clarify)'
      BY <1>6, <1>7 DEF Shadowed, Cycles
    <2> QED
      BY <1>2, <2>1 DEF AskInv, Going
  <1> QED
    BY <1>8, <1>9, <1>10, <1>11 DEF Rest

\* The promise returns with a failure that is no question.
LEMMA ReturnsFailed ==
  ASSUME IInv, pc = "waiting", Return, failed' # "none", clarify' = clarify, UNCHANGED fixed
  PROVE  Rest'
  <1>1. /\ cycle >= 1 /\ clarify = 0 /\ conflicts = {} /\ ~flow.late
    BY WaitFacts DEF IInv, FlowInv
  <1>2. /\ pc' = "pick" /\ cycle' = cycle /\ conflicts' = {} /\ clarify' = 0
        /\ flow'.step = "idle" /\ ~flow'.late
    BY <1>1 DEF Return, fixed, Idle
  <1>3. FlowInv' /\ AbandonedRunsAlone'
    BY <1>1, <1>2 DEF FlowInv, AbandonedRunsAlone
  <1>4. Over'
    BY <1>2 DEF Over
  <1> QED
    BY <1>2, <1>3, <1>4, OverSuffices DEF Rest

LEMMA Moved ==
  ASSUME flow \in Flows, NEW st, Goto(st) \/ Again(st) \/ Enter(st)
  PROVE  /\ flow'.step = st /\ flow'.seq = flow.seq /\ flow'.cycle = flow.cycle
         /\ flow'.late = flow.late /\ UNCHANGED driver
  BY DEF Goto, Again, Enter, Flows

LEMMA WaitedKeeps ==
  ASSUME IInv, Flow, ~flow.late
  PROVE  IInv'
  <1>1. pc = "waiting" /\ flow.step # "idle"
    BY FlowActive DEF IInv, FlowInv
  <1>2. TypeOK' /\ flow' \in Flows /\ ran' \in [Seqs -> 0..MaxCycles]
    BY FlowTypes DEF IInv, TypeOK, Flows
  <1>3. /\ flow \in Flows /\ flow.seq \in Seqs /\ flow.cycle = cycle /\ clarify = 0 /\ cycle \in 0..MaxCycles
        /\ ran \in [Seqs -> 0..MaxCycles]
        /\ failed # "none" <=> flow.step \in {"rescuing", "retracting"}
        /\ flow.step # "entry" => ran[flow.seq] = cycle
        /\ flow.step = "rescuing" => row[cycle][flow.seq] = "failed_verification"
    BY <1>1, WaitFacts DEF IInv, FlowInv, TypeOK
  <1>4. \A s \in Accepted \cup {"running", "verifying", "failed", "failed_verification", "blocked"} :
            s \in Statuses \ {"none"}
    BY DEF Statuses, Accepted
  <1>5. CASE Begin
    <2>1. flow'.step = "working" /\ flow'.seq = flow.seq /\ flow'.cycle = flow.cycle /\ ~flow'.late /\ UNCHANGED driver
      BY <1>3, <1>5, Moved DEF Begin
    <2>2. flow.step = "entry" /\ SetRow("running") /\ "running" \notin Accepted
      BY <1>5 DEF Begin, At, Accepted
    <2>3. /\ UNCHANGED <<done, failed, clarify>> /\ UNCHANGED fixed /\ skipped' = skipped
          /\ ran' = [ran EXCEPT ![flow.seq] = cycle] /\ sound' = sound \ {flow.seq}
      BY <1>3, <1>5 DEF Begin, local, Seq
    <2>4. ran'[flow.seq] = cycle /\ \A s \in Seqs : s # flow.seq => ran'[s] = ran[s] /\ (s \in sound => s \in sound')
      BY <1>3, <2>3
    <2>5. Rest'
      BY <1>1, <1>2, <1>3, <1>4, <2>1, <2>2, <2>3, <2>4, GoesOn
    <2> QED
      BY <1>2, <2>5 DEF IInv, Rest
  <1>6. CASE FirstTokenRetry \/ ProtocolRetry \/ RetryJudged
    <2>1. PICK st \in {"working", "retrying", "verifying"} : Goto(st) \/ Again(st)
      BY <1>6 DEF FirstTokenRetry, ProtocolRetry, RetryJudged
    <2>2. flow'.step = st /\ flow'.seq = flow.seq /\ flow'.cycle = flow.cycle /\ ~flow'.late /\ UNCHANGED driver
      BY <1>3, <2>1, Moved
    <2>3. /\ UNCHANGED <<done, failed, clarify>> /\ UNCHANGED fixed /\ row' = row
          /\ sound' = sound /\ skipped' = skipped /\ ran' = ran
          /\ flow.step \in {"working", "verifying", "retrying"}
      BY <1>6 DEF FirstTokenRetry, ProtocolRetry, RetryJudged, local, ghost, At
    <2>4. Rest'
      BY <1>1, <1>2, <1>3, <2>2, <2>3, GoesOn
    <2> QED
      BY <1>2, <2>4 DEF IInv, Rest
  <1>7. CASE TurnOver \/ VerifyPasses \/ RetryPasses \/ RetryPassesIncomplete
    <2>1. PICK st \in {"verifying", "settling"}, to \in {"verifying", "completed", "failed"} :
              /\ Goto(st) \/ Enter(st)
              /\ SetRow(to) /\ (to \notin Accepted \/ st = "settling")
      BY <1>7 DEF TurnOver, VerifyPasses, RetryPasses, RetryPassesIncomplete, Accepted
    <2>2. flow'.step = st /\ flow'.seq = flow.seq /\ flow'.cycle = flow.cycle /\ ~flow'.late /\ UNCHANGED driver
      BY <1>3, <2>1, Moved
    <2>3. /\ UNCHANGED <<done, failed, clarify>> /\ UNCHANGED fixed
          /\ sound' = sound /\ skipped' = skipped /\ ran' = ran
          /\ flow.step \in {"working", "verifying", "retrying"}
      BY <1>7 DEF TurnOver, VerifyPasses, RetryPasses, RetryPassesIncomplete, local, ghost, At
    <2>4. to \in Statuses \ {"none"}
      BY <1>4 DEF Accepted
    <2>5. Rest'
      BY <1>1, <1>2, <1>3, <2>1, <2>2, <2>3, <2>4, GoesOn
    <2> QED
      BY <1>2, <2>5 DEF IInv, Rest
  <1>8. CASE PathMismatch
    <2>1. flow'.step = "rescuing" /\ flow'.seq = flow.seq /\ flow'.cycle = flow.cycle /\ ~flow'.late /\ UNCHANGED driver
      BY <1>3, <1>8, Moved DEF PathMismatch
    <2>2. /\ done' = done /\ failed' = "verification" /\ clarify' = clarify /\ UNCHANGED fixed
          /\ sound' = sound /\ skipped' = skipped /\ ran' = ran
          /\ flow.step = "verifying" /\ SetRow("failed_verification")
          /\ "failed_verification" \notin Accepted
      BY <1>8 DEF PathMismatch, Fail, ghost, At, Accepted
    <2>3. Rest'
      BY <1>1, <1>2, <1>3, <1>4, <2>1, <2>2, GoesOn
    <2> QED
      BY <1>2, <2>3 DEF IInv, Rest
  <1>9. CASE RescueVerified
    <2>1. flow'.step = "retracting" /\ flow'.seq = flow.seq /\ flow'.cycle = flow.cycle /\ ~flow'.late /\ UNCHANGED driver
      BY <1>3, <1>9, Moved DEF RescueVerified
    <2>2. /\ UNCHANGED <<done, failed, clarify>> /\ UNCHANGED fixed
          /\ sound' = sound /\ skipped' = skipped /\ ran' = ran
          /\ flow.step = "rescuing" /\ SetRow("completed") /\ "completed" \in Accepted
      BY <1>9 DEF RescueVerified, local, ghost, At, Accepted
    <2>3. Rest'
      BY <1>1, <1>2, <1>3, <1>4, <2>1, <2>2, GoesOn
    <2> QED
      BY <1>2, <2>3 DEF IInv, Rest
  <1>10. CASE ReprobeSkipped
    <2>1. /\ Return /\ done' = done \cup {flow.seq} /\ UNCHANGED <<failed, clarify>> /\ UNCHANGED fixed
          /\ row' = row /\ sound' = sound /\ skipped' = skipped /\ ran' = ran
          /\ flow.step = "entry" /\ flow.seq \in Observes /\ \E c \in 1..(cycle - 1) : TRUE
      BY <1>3, <1>10 DEF ReprobeSkipped, Done, Seq, Observe, ghost, At
    <2>2. Good(flow.seq)
      <3>1. flow.seq \in Plan
        BY <2>1, Sets
      <3>2. cycle > 1
        <4>1. cycle \in Nat
          BY <1>3, Sets
        <4>2. PICK c \in 1..(cycle - 1) : TRUE
          BY <2>1
        <4> QED
          BY <4>1, <4>2
      <3> QED
        BY <1>1, <2>1, <3>1, <3>2 DEF IInv, DoneInv, Going
    <2>3. Rest'
      BY <1>1, <1>3, <2>1, <2>2, ReturnsDone
    <2> QED
      BY <1>2, <2>3 DEF IInv, Rest
  <1>11. CASE ScriptedFallback \/ Settled \/ NothingToChange \/ Rescued \/ AutoResolved
    <2>1. /\ Return /\ done' = done \cup {flow.seq} /\ clarify' = clarify /\ UNCHANGED fixed
          /\ skipped' = skipped /\ ran' = ran /\ sound' = sound \cup {flow.seq}
      BY <1>11 DEF ScriptedFallback, Settled, NothingToChange, Rescued, AutoResolved, Done, Accept, Seq, Retract
    <2>2. failed' = "none"
      BY <1>3, <1>11 DEF ScriptedFallback, Settled, NothingToChange, Rescued, AutoResolved, Retract, At
    <2>3. row' = row \/ \E st \in Statuses \ {"none"} : SetRow(st)
      BY FlowWrites
    <2>4. Rest'
      BY <1>1, <2>1, <2>2, <2>3, ReturnsDone
    <2> QED
      BY <1>2, <2>4 DEF IInv, Rest
  <1>12. CASE \/ Refused \/ TurnLost \/ BestEffort \/ TurnIncomplete \/ DispatchError \/ RetryUnaccounted
              \/ FailVerification \/ ObserveBlocked \/ Escalated
    <2>1. Return /\ UNCHANGED fixed /\ done' = done /\ UNCHANGED ghost
      BY <1>12 DEF Refused, TurnLost, BestEffort, TurnIncomplete, DispatchError, RetryUnaccounted,
                   FailVerification, ObserveBlocked, Escalated
    <2>2. failed' # "none"
      BY <1>3, <1>12 DEF Refused, TurnLost, BestEffort, TurnIncomplete, DispatchError, RetryUnaccounted,
                   FailVerification, ObserveBlocked, Escalated, Fail, At
    <2>3. \/ clarify' = clarify
          \/ /\ clarify' = flow.seq /\ flow.step # "entry"
             /\ SetRow("failed_verification") \/ SetRow("blocked")
      <3>1. CASE Refused \/ TurnLost \/ BestEffort \/ TurnIncomplete \/ DispatchError \/ RetryUnaccounted
        BY <3>1 DEF Refused, TurnLost, BestEffort, TurnIncomplete, DispatchError, RetryUnaccounted, Fail
      <3>2. CASE FailVerification \/ ObserveBlocked
        BY <3>2 DEF FailVerification, ObserveBlocked, Fail, At, Seq
      <3>3. CASE Escalated
        <4>1. row' = row /\ flow.step = "rescuing" /\ clarify' \in {clarify, flow.seq}
          BY <3>3 DEF Escalated, Fail, At, Seq
        <4>2. row = [row EXCEPT ![flow.cycle][flow.seq] = "failed_verification"]
          BY <1>3, <4>1, TypeFacts DEF IInv, Rows
        <4> QED
          BY <4>1, <4>2 DEF SetRow, Seq
      <3> QED
        BY <1>12, <3>1, <3>2, <3>3
    <2>4. CASE clarify' = clarify
      <3>1. Rest'
        BY <1>1, <2>1, <2>2, <2>4, ReturnsFailed
      <3> QED
        BY <1>2, <3>1 DEF IInv, Rest
    <2>5. CASE clarify' # clarify
      <3>1. PICK st \in {"failed_verification", "blocked"} : SetRow(st)
        BY <2>3, <2>5
      <3>2. st \in Statuses \ {"none"} /\ st \notin Accepted
        BY <1>4 DEF Accepted
      <3>3. Rest'
        BY <1>1, <2>1, <2>2, <2>3, <2>5, <3>1, <3>2, ReturnsAsking
      <3> QED
        BY <1>2, <3>3 DEF IInv, Rest
    <2> QED
      BY <2>4, <2>5
  <1> QED
    BY <1>5, <1>6, <1>7, <1>8, <1>9, <1>10, <1>11, <1>12 DEF Flow

-----------------------------------------------------------------------------
(* The driver                                                              *)

\* What the driver leaves alone.
LEMMA SameRows ==
  ASSUME UNCHANGED <<row, ghost>>
  PROVE  /\ \A s : Good(s) <=> Good(s)'
         /\ \A s : Shadowed(s) <=> Shadowed(s)'
         /\ Completed(row') = Completed(row)
  BY DEF Good, Shadowed, Cycles, ghost

LEMMA IdleUnlessWaiting ==
  ASSUME IInv, pc # "waiting", ~flow.late
  PROVE  flow.step = "idle"
  BY DEF IInv, FlowInv

LEMMA PlannedKeeps ==
  ASSUME IInv, Planned
  PROVE  IInv'
  <1>1. /\ pc = "planning" /\ UNCHANGED <<cycle, visited, scoped, done, failed>>
        /\ UNCHANGED fixed /\ row' = row /\ flow' = flow /\ UNCHANGED ghost /\ cycle = 0
        /\ ~flow.late /\ flow.step = "idle"
    BY IdleUnlessWaiting DEF IInv, FlowInv, AbandonedRunsAlone, Planned
  <1>2. \/ pc' = "head" /\ clarify' = clarify /\ conflicts = {}
        \/ pc' = "paused" /\ clarify' \in conflicts /\ conflicts # {}
    <2>1. conflicts \subseteq Nat
      BY Sets DEF IInv, TypeOK
    <2> QED
      BY <2>1, Least DEF Planned
  <1>3. clarify' \in 0..(N + 1)
    <2>1. \A s \in conflicts : s \in 0..(N + 1)
      BY Sets DEF IInv, TypeOK, Plan
    <2> QED
      BY <1>2, <2>1 DEF IInv, TypeOK
  <1>4. TypeOK'
    BY <1>1, <1>2, <1>3 DEF IInv, TypeOK, fixed, ghost
  <1>5. FlowInv' /\ AbandonedRunsAlone'
    <2>1. 0 \notin conflicts
      BY Sets DEF IInv, TypeOK, Plan
    <2> QED
      BY <1>1, <1>2, <2>1 DEF FlowInv, AbandonedRunsAlone
  <1>6. DoneInv'
    BY <1>2 DEF DoneInv, Going
  <1>7. /\ \A s : Good(s) <=> Good(s)'
        /\ \A s : Shadowed(s) <=> Shadowed(s)'
        /\ Completed(row') = Completed(row)
    BY <1>1, SameRows
  <1>8. HeadInv'
    BY <1>1, <1>2, <1>7 DEF IInv, HeadInv, fixed
  <1>9. RowInv'
    BY <1>1, <1>7 DEF IInv, RowInv, Over
  <1>10. AskInv'
    <2>1. conflicts # {} => Completed(row) = {}
      BY DEF IInv, AskInv, Completed, Accepted
    <2>2. pc' = "head" => (clarify' \in Completed(row') => Shadowed(clarify'))
      BY <1>1, <1>2, <1>7 DEF IInv, AskInv, Over
    <2>3. clarify' \in Completed(row') => Shadowed(clarify)'
      BY <1>1, <1>2, <1>7, <2>1, <2>2
    <2>4. cont.answer = "text" /\ cont.seq \in cont.completed => Shadowed(cont.seq)'
      BY <1>1, <1>7 DEF IInv, AskInv, fixed
    <2>5. conflicts' # {} => pc' = "paused" /\ \A c \in 1..MaxCycles : \A s \in Seqs : row'[c][s] = "none"
      BY <1>1, <1>2 DEF IInv, AskInv, fixed
    <2> QED
      BY <1>1, <1>2, <2>3, <2>4, <2>5 DEF AskInv, Going, fixed
  <1> QED
    BY <1>4, <1>5, <1>6, <1>8, <1>9, <1>10 DEF IInv

LEMMA CycleHeadKeeps ==
  ASSUME IInv, CycleHead
  PROVE  IInv'
  <1>1. /\ pc = "head" /\ pc' = "pick" /\ cycle' = cycle + 1 /\ visited' = {} /\ failed' = "none"
        /\ clarify' = 0 /\ UNCHANGED fixed /\ row' = row /\ flow' = flow /\ UNCHANGED ghost
        /\ done' = (IF cycle = 0 THEN cont.completed ELSE {})
        /\ cycle = 0 => scoped' = {}
        /\ cycle \in 0..MaxCycles /\ cycle < MaxCycles
    BY DEF CycleHead, IInv, TypeOK
  <1>2. /\ ~flow.late /\ flow.step = "idle" /\ conflicts = {}
        /\ cycle' \in 1..MaxCycles /\ cycle \in Nat
    BY <1>1, Sets, IdleUnlessWaiting DEF IInv, AbandonedRunsAlone, AskInv
  <1>3. TypeOK'
    <2>1. scoped' \subseteq Plan
      BY DEF CycleHead
    <2>2. done' \subseteq Seqs
      BY <1>1 DEF IInv, TypeOK
    <2>3. cycle' \in 0..MaxCycles /\ 0 \in 0..(N + 1) /\ failed' \in Errors
      BY <1>1, <1>2, Sets DEF Errors
    <2> QED
      BY <1>1, <2>1, <2>2, <2>3 DEF IInv, TypeOK, fixed, ghost
  <1>4. FlowInv' /\ AbandonedRunsAlone'
    BY <1>1, <1>2, Sets DEF FlowInv, AbandonedRunsAlone
  <1>5. /\ \A s : Good(s) <=> Good(s)'
        /\ \A s : Shadowed(s) <=> Shadowed(s)'
        /\ Completed(row') = Completed(row)
    BY <1>1, SameRows
  <1>6. DoneInv'
    <2>1. \A s \in done' : Good(s)'
      BY <1>1, <1>5 DEF IInv, HeadInv
    <2>2. cycle' > 1 => \A s \in Plan : Good(s)'
      BY <1>1, <1>2, <1>5 DEF IInv, HeadInv
    <2>3. cycle' = 1 => scoped' = {} /\ done' \subseteq cont'.completed \cup visited'
      BY <1>1, <1>2 DEF fixed
    <2> QED
      BY <1>1, <2>1, <2>2, <2>3 DEF DoneInv
  <1>7. HeadInv'
    BY <1>1 DEF HeadInv
  <1>8. RowInv'
    BY <1>1, <1>5 DEF IInv, RowInv, Over
  <1>9. AskInv'
    <2>1. 0 \notin Completed(row')
      BY DEF Completed, Seqs
    <2>2. cycle = 0 /\ cont.answer = "text" /\ cont.seq \in cont.completed => Shadowed(cont.seq)'
      BY <1>1, <1>5 DEF IInv, AskInv, fixed
    <2>3. cycle' = 1 => cycle = 0
      BY <1>1, <1>2
    <2> QED
      BY <1>1, <1>2, <2>1, <2>2, <2>3 DEF AskInv, fixed
  <1> QED
    BY <1>3, <1>4, <1>6, <1>7, <1>8, <1>9 DEF IInv

LEMMA VisitKeeps ==
  ASSUME IInv, pc = "pick", failed = "none", NEW s \in Seqs, s \notin visited, Visit(s)
  PROVE  IInv'
  <1>1. /\ visited' = visited \cup {s} /\ UNCHANGED <<cycle, scoped, clarify>> /\ UNCHANGED fixed
        /\ UNCHANGED ghost
    BY DEF Visit
  <1>2. /\ ~flow.late /\ flow.step = "idle" /\ conflicts = {} /\ clarify = 0 /\ cycle >= 1 /\ Going /\ ~Over
        /\ cycle \in 1..MaxCycles /\ cycle \in Nat /\ row \in Rows /\ conflicts' = {} /\ cont' = cont
    <2>1. ~flow.late /\ conflicts = {} /\ clarify = 0 /\ cycle >= 1
      BY DEF IInv, AbandonedRunsAlone, AskInv, FlowInv
    <2>2. cycle \in 1..MaxCycles /\ cycle \in Nat
      BY <2>1, Sets DEF IInv, TypeOK
    <2> QED
      BY <1>1, <2>1, <2>2, IdleUnlessWaiting, TypeFacts DEF IInv, Going, Over, fixed
  <1>3. /\ \A t \in done : t \in Seqs /\ Good(t)
        /\ \A t \in visited : t \in done /\ t \in Seqs
        /\ cycle > 1 => \A t \in Plan : t \notin visited => Good(t)
        /\ cycle = 1 => scoped = {} /\ done \subseteq cont.completed \cup visited
        /\ \A t \in Completed(row) : Good(t)
        /\ cycle = 1 /\ cont.seq \notin visited /\ cont.answer = "text" /\ cont.seq \in cont.completed
             => Shadowed(cont.seq)
    BY <1>2 DEF IInv, TypeOK, DoneInv, RowInv, AskInv
  <1>4. /\ visited' \subseteq Seqs /\ cycle' \in 0..MaxCycles /\ scoped' \subseteq Plan /\ clarify' \in 0..(N + 1)
        /\ cont' \in [on : BOOLEAN, completed : SUBSET Seqs, seq : 0..(N + 1), answer : Answers]
        /\ conflicts' \subseteq Conflicts /\ runs' \in 1..MaxRuns
        /\ sound' \subseteq Seqs /\ skipped' \subseteq Seqs /\ ran' \in [Seqs -> 0..MaxCycles]
    BY <1>1 DEF IInv, TypeOK, fixed, ghost
  <1>5. 0 \notin Completed(row') /\ \A t \in Completed(row') : t \in Seqs
    BY DEF Completed, Seqs
  <1>6. CASE UNCHANGED <<pc, failed, flow>> /\ (\A t \in visited' : t \in done')
             /\ (row' = row \/ Wrote(cycle, s, "completed_no_change")) /\ Good(s)
             /\ done' \in {done, done \cup {s}}
    <2>1. "completed_no_change" \in Statuses \ {"none"}
      BY DEF Statuses, Accepted
    <2>2. /\ row' \in Rows
          /\ \A d \in 1..MaxCycles, t \in Seqs : row[d][t] # "none" => row'[d][t] # "none"
          /\ \A t \in Seqs : t # s => (t \in Completed(row') <=> t \in Completed(row))
      BY <1>2, <1>6, <2>1, WriteRow
    <2>3. \A t \in Seqs : Good(t) => Good(t)'
      BY <1>1, <2>2, GoodStays DEF ghost
    <2>4. \A t \in Seqs : Shadowed(t) => Shadowed(t)'
      BY <1>1, <2>2, ShadowStays DEF ghost
    <2>5. TypeOK'
      <3>1. done' \subseteq Seqs
        BY <1>3, <1>6
      <3> QED
        BY <1>4, <1>6, <2>2, <3>1 DEF IInv, TypeOK, Rows
    <2>6. FlowInv' /\ AbandonedRunsAlone'
      BY <1>1, <1>2, <1>6 DEF FlowInv, AbandonedRunsAlone
    <2>7. DoneInv'
      <3>1. \A t \in done' : Good(t)'
        BY <1>3, <1>6, <2>3
      <3>2. cycle > 1 => \A t \in Plan : t \notin visited' => Good(t)'
        BY <1>1, <1>3, <2>3, Sets
      <3>3. cycle = 1 => scoped' = {} /\ done' \subseteq cont'.completed \cup visited'
        BY <1>1, <1>2, <1>3, <1>6
      <3> QED
        BY <1>1, <1>6, <3>1, <3>2, <3>3 DEF DoneInv
    <2>8. HeadInv'
      BY <1>6 DEF HeadInv
    <2>9. RowInv'
      BY <1>3, <1>5, <1>6, <2>2, <2>3 DEF RowInv
    <2>10. AskInv'
      <3>1. ASSUME cycle = 1, cont.seq \notin visited', cont.answer = "text", cont.seq \in cont.completed
            PROVE  Shadowed(cont.seq)'
        <4>1. PICK t \in Seqs : t = cont.seq
          BY <3>1 DEF IInv, TypeOK
        <4>2. Shadowed(t)
          BY <1>1, <1>3, <3>1, <4>1
        <4>3. Shadowed(t)'
          BY <2>4, <4>2
        <4> QED
          BY <1>2, <4>1, <4>3 DEF Shadowed, Cycles
      <3> QED
        BY <1>1, <1>2, <1>5, <1>6, <3>1 DEF AskInv
    <2> QED
      BY <2>5, <2>6, <2>7, <2>8, <2>9, <2>10 DEF IInv
  <1>7. CASE failed' = "dependencies" /\ UNCHANGED <<pc, done, row, flow>>
    <2>1. TypeOK'
      BY <1>4, <1>7 DEF IInv, TypeOK, Errors
    <2>2. FlowInv' /\ AbandonedRunsAlone'
      BY <1>1, <1>2, <1>7 DEF FlowInv, AbandonedRunsAlone
    <2>3. Over'
      BY <1>1, <1>2, <1>7 DEF Over
    <2> QED
      BY <1>2, <2>1, <2>2, <2>3, OverSuffices DEF IInv
  <1>8. CASE /\ s \notin done /\ pc' = "waiting" /\ UNCHANGED <<done, failed, row>>
             /\ flow' = [Idle EXCEPT !.seq = s, !.cycle = cycle, !.step = "entry"]
    <2>1. /\ flow' \in Flows /\ flow'.seq = s /\ flow'.cycle = cycle /\ flow'.step = "entry" /\ ~flow'.late
      BY <1>2, <1>8, Sets DEF Idle, Flows, Steps
    <2>2. /\ \A t : Good(t) <=> Good(t)'
          /\ \A t : Shadowed(t) <=> Shadowed(t)'
          /\ Completed(row') = Completed(row)
      BY <1>1, <1>8, SameRows
    <2>3. TypeOK'
      BY <1>4, <1>8, <2>1 DEF IInv, TypeOK, Flows
    <2>4. FlowInv' /\ AbandonedRunsAlone'
      BY <1>1, <1>2, <1>8, <2>1 DEF FlowInv, AbandonedRunsAlone
    <2>5. DoneInv'
      <3>1. \A t \in done' : Good(t)'
        BY <1>3, <1>8, <2>2
      <3>2. \A t \in visited' : t \in done' \/ t = s
        BY <1>1, <1>3, <1>8
      <3>3. cycle > 1 => \A t \in Plan : t \notin visited => Good(t)'
        BY <1>3, <2>2
      <3>4. cycle > 1 /\ s \in Plan => Good(flow.seq)'
        BY <2>1, <2>2, <3>3 DEF Good, Shadowed, Cycles
      <3>5. cycle = 1 => scoped' = {} /\ done' \subseteq cont'.completed \cup visited'
        BY <1>1, <1>2, <1>3, <1>8
      <3> QED
        BY <1>1, <1>8, <2>1, <3>1, <3>2, <3>3, <3>4, <3>5 DEF DoneInv
    <2>6. HeadInv'
      BY <1>8 DEF HeadInv
    <2>7. RowInv'
      BY <1>3, <2>2 DEF RowInv
    <2>8. AskInv'
      <3>1. cycle = 1 /\ cont.seq \notin visited' /\ cont.answer = "text" /\ cont.seq \in cont.completed
                => Shadowed(cont.seq)'
        BY <1>1, <1>2, <1>3, <2>2
      <3> QED
        BY <1>1, <1>2, <1>5, <1>8, <3>1 DEF AskInv
    <2> QED
      BY <2>3, <2>4, <2>5, <2>6, <2>7, <2>8 DEF IInv
  <1>9. CASE s \in done
    <2>1. UNCHANGED <<pc, done, failed, row, flow>>
      BY <1>9 DEF Visit
    <2>2. \A t \in visited' : t \in done'
      BY <1>1, <1>3, <1>9, <2>1
    <2> QED
      BY <1>3, <1>6, <1>9, <2>1, <2>2
  <1>10. CASE s \notin done /\ s \in scoped /\ ~(s \in Plan /\ ~(Deps[s] \subseteq done))
    <2>1. /\ UNCHANGED <<pc, failed, flow>> /\ done' = done \cup {s}
          /\ row' = row \/ Wrote(cycle, s, "completed_no_change")
      BY <1>10 DEF Visit, Wrote
    <2>2. \A t \in visited' : t \in done'
      BY <1>1, <1>3, <2>1
    <2>3. cycle > 1 /\ s \in Plan
      BY <1>2, <1>3, <1>10 DEF IInv, TypeOK
    <2> QED
      BY <1>3, <1>6, <2>1, <2>2, <2>3
  <1>11. CASE s \notin done /\ s \in Plan /\ ~(Deps[s] \subseteq done)
    BY <1>7, <1>11 DEF Visit
  <1>12. CASE s \notin done /\ s \notin scoped /\ ~(s \in Plan /\ ~(Deps[s] \subseteq done))
    BY <1>8, <1>12 DEF Visit
  <1> QED
    BY <1>9, <1>10, <1>11, <1>12

LEMMA ToReviewKeeps ==
  ASSUME IInv, ToReview
  PROVE  IInv'
  <1>1. /\ pc = "pick" /\ failed = "none" /\ Plan \subseteq visited /\ pc' = "review"
        /\ UNCHANGED <<cycle, visited, scoped, done, failed, clarify>> /\ UNCHANGED fixed
        /\ row' = row /\ flow' = flow /\ UNCHANGED ghost
    BY DEF ToReview, local
  <1>2. ~flow.late /\ flow.step = "idle" /\ conflicts = {} /\ clarify = 0 /\ cycle >= 1 /\ Going
    BY <1>1, IdleUnlessWaiting DEF IInv, AbandonedRunsAlone, AskInv, FlowInv, Going
  <1>3. /\ \A s : Good(s) <=> Good(s)'
        /\ Completed(row') = Completed(row)
    BY <1>1, SameRows
  <1>4. TypeOK'
    BY <1>1 DEF IInv, TypeOK, fixed, ghost
  <1>5. FlowInv' /\ AbandonedRunsAlone'
    BY <1>1, <1>2 DEF FlowInv, AbandonedRunsAlone
  <1>6. DoneInv'
    BY <1>1 DEF DoneInv, Going
  <1>7. HeadInv'
    <2>1. \A s \in visited : s \in done /\ Good(s)
      BY <1>1, <1>2 DEF IInv, DoneInv
    <2> QED
      BY <1>1, <1>3, <2>1 DEF HeadInv
  <1>8. RowInv'
    BY <1>1, <1>3 DEF IInv, RowInv, Over
  <1>9. AskInv'
    <2>1. 0 \notin Completed(row')
      BY DEF Completed, Seqs
    <2> QED
      BY <1>1, <1>2, <2>1 DEF AskInv, Going, fixed
  <1> QED
    BY <1>4, <1>5, <1>6, <1>7, <1>8, <1>9 DEF IInv

LEMMA StopKeeps ==
  ASSUME IInv, Stop
  PROVE  IInv'
  <1>1. /\ pc = "pick" /\ failed # "none"
        /\ pc' = (IF clarify # 0 THEN "paused" ELSE "ended")
        /\ UNCHANGED <<cycle, visited, scoped, done, failed, clarify>> /\ UNCHANGED fixed
        /\ row' = row /\ flow' = flow /\ UNCHANGED ghost
    BY DEF Stop, local
  <1>2. /\ conflicts = {} /\ cycle >= 1
        /\ clarify # 0 => ~flow.late /\ flow.step = "idle" /\ ~Over
    BY <1>1, IdleUnlessWaiting DEF IInv, AbandonedRunsAlone, AskInv, FlowInv, Over
  <1>3. /\ \A s : Good(s) <=> Good(s)'
        /\ \A s : Shadowed(s) <=> Shadowed(s)'
        /\ Completed(row') = Completed(row)
    BY <1>1, SameRows
  <1>4. TypeOK'
    BY <1>1 DEF IInv, TypeOK, fixed, ghost
  <1>5. FlowInv' /\ AbandonedRunsAlone'
    <2>1. flow.step # "idle" => flow.late
      BY <1>1 DEF IInv, FlowInv
    <2>2. flow.step = "idle" => ~flow.late
      BY DEF IInv, FlowInv
    <2> QED
      BY <1>1, <1>2, <2>1, <2>2 DEF FlowInv, AbandonedRunsAlone
  <1>6. CASE clarify = 0
    <2>1. Over' /\ conflicts' = {}
      BY <1>1, <1>2, <1>6 DEF Over, fixed
    <2> QED
      BY <1>4, <1>5, <2>1, OverSuffices DEF IInv
  <1>7. CASE clarify # 0
    <2>1. DoneInv' /\ HeadInv'
      BY <1>1, <1>7 DEF DoneInv, HeadInv, Going
    <2>2. RowInv'
      BY <1>1, <1>2, <1>3, <1>7 DEF IInv, RowInv
    <2>3. AskInv'
      <3>1. clarify \in Completed(row) => Shadowed(clarify)
        BY <1>2, <1>7 DEF IInv, AskInv
      <3>2. clarify' \in Completed(row') => Shadowed(clarify)'
        BY <1>1, <1>3, <3>1 DEF Shadowed, Cycles, ghost
      <3> QED
        BY <1>1, <1>2, <1>7, <3>2 DEF AskInv, Going, fixed
    <2> QED
      BY <1>4, <1>5, <2>1, <2>2, <2>3 DEF IInv
  <1> QED
    BY <1>6, <1>7

LEMMA ReviewedKeeps ==
  ASSUME IInv, Reviewed
  PROVE  IInv'
  <1>1. /\ pc = "review" /\ pc' \in {"ended", "head"}
        /\ UNCHANGED <<cycle, visited, scoped, done, failed, clarify>> /\ UNCHANGED fixed
        /\ row' = row /\ flow' = flow /\ UNCHANGED ghost
    BY DEF Reviewed, local
  <1>2. ~flow.late /\ flow.step = "idle" /\ conflicts = {} /\ cycle >= 1 /\ cycle \in Nat
    BY <1>1, IdleUnlessWaiting, Sets DEF IInv, AbandonedRunsAlone, AskInv, FlowInv, TypeOK
  <1>3. /\ \A s : Good(s) <=> Good(s)'
        /\ \A s : Shadowed(s) <=> Shadowed(s)'
        /\ Completed(row') = Completed(row)
    BY <1>1, SameRows
  <1>4. TypeOK'
    BY <1>1 DEF IInv, TypeOK, fixed, ghost
  <1>5. FlowInv' /\ AbandonedRunsAlone'
    BY <1>1, <1>2 DEF FlowInv, AbandonedRunsAlone
  <1>6. DoneInv'
    BY <1>1 DEF DoneInv, Going
  <1>7. HeadInv'
    BY <1>1, <1>2, <1>3 DEF IInv, HeadInv
  <1>8. RowInv'
    BY <1>1, <1>3 DEF IInv, RowInv, Over
  <1>9. AskInv'
    <2>1. ~Over /\ (clarify \in Completed(row) => Shadowed(clarify))
      BY <1>1 DEF IInv, AskInv, Over
    <2>2. clarify' \in Completed(row') => Shadowed(clarify)'
      BY <1>1, <1>3, <2>1 DEF Shadowed, Cycles, ghost
    <2> QED
      BY <1>1, <1>2, <2>2 DEF AskInv, Going, fixed
  <1> QED
    BY <1>4, <1>5, <1>6, <1>7, <1>8, <1>9 DEF IInv

LEMMA DeadlineKeeps ==
  ASSUME IInv, Deadline
  PROVE  IInv'
  <1>1. /\ pc = "waiting" /\ pc' = "pick" /\ flow' = [flow EXCEPT !.late = TRUE]
        /\ sound' = sound \ {flow.seq} /\ failed' = (IF failed = "none" THEN "deadline" ELSE failed)
        /\ UNCHANGED <<cycle, visited, scoped, done, clarify, skipped, ran>> /\ UNCHANGED fixed
    BY DEF Deadline
  <1>2. /\ flow \in Flows /\ flow.seq \in Seqs /\ row \in Rows /\ flow.cycle \in 1..MaxCycles
        /\ clarify = 0 /\ conflicts = {} /\ cycle >= 1 /\ flow.step # "idle"
    BY <1>1, WaitFacts DEF IInv, FlowInv
  <1>3. row' \in Rows
    <2>1. row' = row \/ SetRow("failed")
      BY DEF Deadline, SetRow, Seq
    <2>2. "failed" \in Statuses \ {"none"}
      BY DEF Statuses, Accepted
    <2> QED
      BY <1>2, <2>1, <2>2, SetRowFacts
  <1>4. flow' \in Flows /\ flow'.late /\ flow'.step = flow.step
    BY <1>1, <1>2 DEF Flows
  <1>5. failed' # "none" /\ failed' \in Errors
    BY <1>1 DEF IInv, TypeOK, Errors
  <1>6. TypeOK'
    BY <1>1, <1>3, <1>4, <1>5 DEF IInv, TypeOK, Flows, Rows, fixed
  <1>7. FlowInv' /\ AbandonedRunsAlone'
    BY <1>1, <1>2, <1>4, <1>5 DEF FlowInv, AbandonedRunsAlone
  <1>8. Over' /\ conflicts' = {}
    BY <1>1, <1>2, <1>5 DEF Over, fixed
  <1> QED
    BY <1>6, <1>7, <1>8, OverSuffices DEF IInv

LEMMA CrashKeeps ==
  ASSUME IInv, Crash
  PROVE  IInv'
  <1>1. /\ pc \in {"head", "pick", "waiting"} /\ pc' = "ended" /\ flow' = Idle
        /\ UNCHANGED <<cycle, visited, scoped, done, failed, clarify>> /\ UNCHANGED fixed /\ UNCHANGED ghost
        /\ row' = [c \in 1..MaxCycles |-> [s \in Seqs |->
                      IF row[c][s] = "running" THEN "failed" ELSE row[c][s]]]
    BY DEF Crash, local
  <1>2. row \in Rows /\ conflicts = {}
    BY <1>1, TypeFacts DEF IInv, AskInv
  <1>3. row' \in Rows
    BY <1>1, <1>2 DEF Rows, Statuses
  <1>4. flow' \in Flows /\ flow'.step = "idle" /\ ~flow'.late
    BY <1>1, Sets DEF Idle
  <1>5. TypeOK'
    BY <1>1, <1>3, <1>4 DEF IInv, TypeOK, Flows, Rows, fixed, ghost
  <1>6. FlowInv' /\ AbandonedRunsAlone'
    BY <1>1, <1>4 DEF FlowInv, AbandonedRunsAlone
  <1>7. Over' /\ conflicts' = {}
    BY <1>1, <1>2 DEF Over, fixed
  <1> QED
    BY <1>5, <1>6, <1>7, OverSuffices DEF IInv

-----------------------------------------------------------------------------
(* The answer                                                              *)

\* The row of the highest cycle is marked, if the sub-task has one.
LEMMA MarkedRows ==
  ASSUME row \in Rows, NEW s \in Seqs, NEW st \in Statuses \ {"none"}, row' = Marked(s, st)
  PROVE  /\ row' \in Rows
         /\ \A d \in 1..MaxCycles, t \in Seqs : row[d][t] # "none" => row'[d][t] # "none"
         /\ \A t \in Seqs : t # s => (t \in Completed(row') <=> t \in Completed(row))
         /\ Cycles(s) = {} => row' = row
  <1>1. CASE Cycles(s) = {}
    <2>1. row' = row
      BY <1>1 DEF Marked
    <2> QED
      BY <2>1
  <1>2. CASE Cycles(s) # {}
    <2>1. row' = [row EXCEPT ![Latest(s)][s] = st]
      BY <1>2 DEF Marked
    <2>2. PICK c : c = Latest(s)
      OBVIOUS
    <2>3. CASE c \in 1..MaxCycles
      <3>1. Wrote(c, s, st)
        BY <2>1, <2>2 DEF Wrote
      <3> QED
        BY <1>2, <2>3, <3>1, WriteRow
    <2>4. CASE c \notin 1..MaxCycles
      <3>1. row' = row
        BY <2>1, <2>2, <2>4 DEF Rows
      <3> QED
        BY <1>2, <3>1
    <2> QED
      BY <2>3, <2>4
  <1> QED
    BY <1>1, <1>2

LEMMA ResumeKeeps ==
  ASSUME IInv, Answerable, NEW answer \in Answers, NEW r, Resume(answer, r),
         row' \in Rows, conflicts' \subseteq conflicts,
         sound \subseteq sound', sound' \subseteq Seqs, skipped \subseteq skipped', skipped' \subseteq Seqs,
         ran' = ran,
         \A d \in 1..MaxCycles, t \in Seqs : row[d][t] # "none" => row'[d][t] # "none",
         \A t \in Seqs : t # clarify => (t \in Completed(row') <=> t \in Completed(row)),
         row' = row \/ clarify \in sound' \/ clarify \in skipped',
         answer = "text" => row' = row,
         conflicts' # {} => row' = row
  PROVE  IInv'
  <1>1. /\ pc = "paused" /\ runs < MaxRuns /\ pc' = "planning" /\ cycle' = 0 /\ visited' = {} /\ scoped' = {}
        /\ runs' = runs + 1 /\ done' = {} /\ failed' = "none" /\ clarify' = 0 /\ flow' = flow
        /\ cont' = [on |-> TRUE, completed |-> Completed(row'), seq |-> clarify, answer |-> answer]
    BY DEF Answerable, Resume
  <1>2. /\ ~flow.late /\ flow.step = "idle" /\ row \in Rows /\ ~Over /\ clarify \in 0..(N + 1)
    BY <1>1, IdleUnlessWaiting, TypeFacts DEF IInv, AbandonedRunsAlone, Over, TypeOK
  <1>3. \A t \in Seqs : Good(t) => Good(t)'
    BY GoodStays
  <1>4. \A t \in Seqs : Shadowed(t) => Shadowed(t)'
    BY ShadowStays
  <1>5. \A t \in Completed(row') : t \in Seqs /\ Good(t)'
    <2>1. ASSUME NEW t \in Completed(row') PROVE t \in Seqs /\ Good(t)'
      <3>1. t \in Seqs
        BY DEF Completed
      <3>2. CASE t \in Completed(row)
        BY <1>2, <1>3, <3>1, <3>2 DEF IInv, RowInv
      <3>3. CASE t \notin Completed(row)
        <4>1. t = clarify /\ row' # row
          BY <3>1, <3>3
        <4>2. t \in sound' \/ t \in skipped'
          BY <4>1
        <4> QED
          BY <3>1, <4>2 DEF Good
      <3> QED
        BY <3>2, <3>3
    <2> QED
      BY <2>1
  <1>6. TypeOK'
    <2>1. cont' \in [on : BOOLEAN, completed : SUBSET Seqs, seq : 0..(N + 1), answer : Answers]
      BY <1>1, <1>2, <1>5
    <2>2. runs' \in 1..MaxRuns /\ cycle' \in 0..MaxCycles /\ clarify' \in 0..(N + 1) /\ failed' \in Errors
      BY <1>1, Sets DEF IInv, TypeOK, Errors
    <2> QED
      BY <1>1, <2>1, <2>2 DEF IInv, TypeOK, Rows
  <1>7. FlowInv' /\ AbandonedRunsAlone'
    BY <1>1, <1>2 DEF FlowInv, AbandonedRunsAlone
  <1>8. DoneInv'
    BY <1>1 DEF DoneInv, Going
  <1>9. HeadInv'
    BY <1>1, <1>5 DEF HeadInv
  <1>10. RowInv'
    BY <1>5 DEF RowInv
  <1>11. AskInv'
    <2>1. 0 \notin Completed(row')
      BY DEF Completed, Seqs
    <2>2. ASSUME cont'.answer = "text", cont'.seq \in cont'.completed
          PROVE  Shadowed(cont.seq)'
      <3>1. row' = row /\ clarify \in Completed(row) /\ cont'.seq = clarify
        BY <1>1, <2>2
      <3>2. Shadowed(clarify)
        BY <1>2, <3>1 DEF IInv, AskInv
      <3>3. PICK t \in Seqs : t = clarify
        BY <3>1 DEF Completed
      <3>4. Shadowed(t)'
        BY <1>4, <3>2, <3>3
      <3> QED
        BY <3>1, <3>3, <3>4 DEF Shadowed, Cycles
    <2>3. conflicts' # {} => \A c \in 1..MaxCycles : \A s \in Seqs : row'[c][s] = "none"
      BY DEF IInv, AskInv
    <2> QED
      BY <1>1, <1>2, <2>1, <2>2, <2>3 DEF AskInv, Going
  <1> QED
    BY <1>6, <1>7, <1>8, <1>9, <1>10, <1>11 DEF IInv

LEMMA HumanKeeps ==
  ASSUME IInv, Human
  PROVE  IInv'
  <1>1. /\ pc = "paused" /\ ~flow.late /\ flow.step = "idle" /\ row \in Rows /\ clarify \in Seqs /\ ~Over
    <2>1. pc = "paused"
      BY DEF Human, AnswerText, AnswerSkip, AnswerAccept, AnswerAbort, Exempt, Answerable
    <2>2. clarify \in Seqs
      BY <2>1, Sets DEF IInv, FlowInv, TypeOK, Seqs
    <2> QED
      BY <2>1, <2>2, IdleUnlessWaiting, TypeFacts DEF IInv, AbandonedRunsAlone, Over
  <1>2. sound \subseteq Seqs /\ skipped \subseteq Seqs
    BY DEF IInv, TypeOK
  <1>3. \A st \in Accepted : st \in Statuses \ {"none"}
    BY DEF Accepted, Statuses
  <1>4. CASE AnswerText
    <2>1. /\ Answerable /\ Resume("text", row) /\ row' = row /\ conflicts' \subseteq conflicts
          /\ sound' = sound /\ skipped' = skipped /\ ran' = ran /\ "text" \in Answers
      BY <1>4 DEF AnswerText, Resume, ghost, Answers
    <2> QED
      BY <1>1, <1>2, <2>1, ResumeKeeps
  <1>5. CASE AnswerSkip
    <2>1. /\ Answerable /\ Resume("skip", Marked(clarify, "completed_no_change"))
          /\ row' = Marked(clarify, "completed_no_change") /\ conflicts' = conflicts
          /\ sound' = sound /\ skipped' = skipped \cup {clarify} /\ ran' = ran
          /\ "skip" \in Answers /\ "skip" # "text" /\ "completed_no_change" \in Accepted
      BY <1>5 DEF AnswerSkip, Resume, Answers, Accepted
    <2>2. /\ row' \in Rows
          /\ \A d \in 1..MaxCycles, t \in Seqs : row[d][t] # "none" => row'[d][t] # "none"
          /\ \A t \in Seqs : t # clarify => (t \in Completed(row') <=> t \in Completed(row))
          /\ Cycles(clarify) = {} => row' = row
      BY <1>1, <1>3, <2>1, MarkedRows
    <2>3. conflicts # {} => Cycles(clarify) = {}
      BY <1>1 DEF IInv, AskInv, Cycles
    <2> QED
      BY <1>1, <1>2, <2>1, <2>2, <2>3, ResumeKeeps
  <1>6. CASE AnswerAccept
    <2>1. /\ Answerable /\ Resume("accept", Marked(clarify, "completed")) /\ Cycles(clarify) # {}
          /\ row' = Marked(clarify, "completed") /\ conflicts' = conflicts
          /\ sound' = sound \cup {clarify} /\ skipped' = skipped /\ ran' = ran
          /\ "accept" \in Answers /\ "accept" # "text" /\ "completed" \in Accepted
      BY <1>6 DEF AnswerAccept, Resume, Answers, Accepted
    <2>2. /\ row' \in Rows
          /\ \A d \in 1..MaxCycles, t \in Seqs : row[d][t] # "none" => row'[d][t] # "none"
          /\ \A t \in Seqs : t # clarify => (t \in Completed(row') <=> t \in Completed(row))
      BY <1>1, <1>3, <2>1, MarkedRows
    <2>3. conflicts # {} => Cycles(clarify) = {}
      BY <1>1 DEF IInv, AskInv, Cycles
    <2> QED
      BY <1>1, <1>2, <2>1, <2>2, <2>3, ResumeKeeps
  <1>7. CASE AnswerAbort \/ Exempt
    <2>1. /\ pc' \in {"paused", "ended"} /\ UNCHANGED <<cycle, visited, scoped, done, failed, clarify>>
          /\ row' = row /\ flow' = flow /\ UNCHANGED ghost /\ cont' = cont /\ runs' = runs
          /\ conflicts' \subseteq conflicts
      BY <1>1, <1>7 DEF AnswerAbort, Exempt, driver, local, fixed
    <2>2. /\ \A s : Good(s) <=> Good(s)'
          /\ \A s : Shadowed(s) <=> Shadowed(s)'
          /\ Completed(row') = Completed(row)
      BY <2>1, SameRows
    <2>3. TypeOK'
      BY <2>1 DEF IInv, TypeOK, ghost
    <2>4. FlowInv' /\ AbandonedRunsAlone'
      <3>1. clarify # 0
        BY <1>1 DEF Seqs
      <3> QED
        BY <1>1, <2>1, <3>1 DEF FlowInv, AbandonedRunsAlone
    <2>5. DoneInv' /\ HeadInv'
      BY <2>1 DEF DoneInv, HeadInv, Going
    <2>6. RowInv'
      BY <1>1, <2>1, <2>2 DEF IInv, RowInv
    <2>7. AskInv'
      <3>1. clarify' \in Completed(row') => Shadowed(clarify)'
        BY <1>1, <2>1, <2>2 DEF IInv, AskInv, Shadowed, Cycles, ghost
      <3>2. conflicts' # {} => \A c \in 1..MaxCycles : \A s \in Seqs : row'[c][s] = "none"
        BY <2>1 DEF IInv, AskInv
      <3> QED
        BY <1>1, <2>1, <3>1, <3>2 DEF AskInv, Going
    <2> QED
      BY <2>3, <2>4, <2>5, <2>6, <2>7 DEF IInv
  <1> QED
    BY <1>4, <1>5, <1>6, <1>7 DEF Human

-----------------------------------------------------------------------------
(* Every step                                                              *)

LEMMA Stutters ==
  ASSUME IInv, UNCHANGED vars
  PROVE  IInv'
  <1>1. /\ UNCHANGED <<pc, cycle, visited, scoped, done, failed, clarify, cont, conflicts, runs, row, flow>>
        /\ UNCHANGED ghost
    BY DEF vars, driver, local, fixed
  <1>2. /\ \A s : Good(s) <=> Good(s)'
        /\ \A s : Shadowed(s) <=> Shadowed(s)'
        /\ Completed(row') = Completed(row)
    BY <1>1, SameRows
  <1>3. TypeOK' /\ FlowInv' /\ AbandonedRunsAlone' /\ HeadInv' /\ RowInv'
    BY <1>1, <1>2 DEF IInv, TypeOK, FlowInv, AbandonedRunsAlone, HeadInv, RowInv, Over, ghost
  <1>4. DoneInv' /\ AskInv'
    BY <1>1 DEF IInv, DoneInv, AskInv, Going, Over, Good, Shadowed, Cycles, Completed, ghost
  <1> QED
    BY <1>3, <1>4 DEF IInv

LEMMA PickVisits ==
  ASSUME IInv, Pick \/ AppendGeneration
  PROVE  \E s \in Seqs : s \notin visited /\ Visit(s) /\ pc = "pick" /\ failed = "none"
                         /\ (s \in Plan => Deps[s] \subseteq visited)
  <1>1. CASE Pick
    <2>1. NextSeq \in Ready
      BY <1>1, NextIsReady DEF Pick
    <2> QED
      BY <1>1, <2>1, Sets DEF Pick, Ready
  <1>2. CASE AppendGeneration
    BY <1>2, Sets DEF AppendGeneration
  <1> QED
    BY <1>1, <1>2

LEMMA StepInv == IInv /\ [Next]_vars => IInv'
  <1> SUFFICES ASSUME IInv, [Next]_vars PROVE IInv'
    OBVIOUS
  <1>1. CASE Flow
    BY <1>1, LateKeeps, WaitedKeeps
  <1>2. CASE Pick \/ AppendGeneration
    BY <1>2, PickVisits, VisitKeeps
  <1>3. CASE Planned \/ CycleHead \/ ToReview \/ Stop \/ Reviewed
    BY <1>3, PlannedKeeps, CycleHeadKeeps, ToReviewKeeps, StopKeeps, ReviewedKeeps
  <1>4. CASE Deadline \/ Crash
    BY <1>4, DeadlineKeeps, CrashKeeps
  <1>5. CASE Human
    BY <1>5, HumanKeeps
  <1>6. CASE UNCHANGED vars
    BY <1>6, Stutters
  <1> QED
    BY <1>1, <1>2, <1>3, <1>4, <1>5, <1>6 DEF Next, Driver

\* The invariant holds of every behaviour, fair or not.
THEOREM InvHolds == Spec => []IInv
  BY InitInv, StepInv, PTL DEF Spec

\* Type correctness: the rows, the promise and the continuation are what they are declared
\* to be, the least ready sub-task exists and the counters stay within their limits.
THEOREM TypeHolds == Spec => []TypeOK
  <1>1. IInv => TypeOK
    BY DEF IInv
  <1> QED
    BY InvHolds, <1>1, PTL

\* What is put before the reviewer is whole: no deadline, retraction, retry, crash or
\* continuation lets a failed sub-task through (runSubTasks and loadAcceptedContinuation).
THEOREM ReviewedHolds == Spec => []ReviewedIsSound
  <1>1. IInv => ReviewedIsSound
    BY DEF IInv, HeadInv, ReviewedIsSound, Good
  <1> QED
    BY InvHolds, <1>1, PTL

\* A promise the deadline gave up is alone: nothing is dispatched beside it, in this run
\* or a later one (subtask_deadline_seconds).
THEOREM AloneHolds == Spec => []AbandonedRunsAlone
  <1>1. IInv => AbandonedRunsAlone
    BY DEF IInv
  <1> QED
    BY InvHolds, <1>1, PTL

\* An operator's decision reaches the sub-task that asked for it: the first cycle of the
\* continuation dispatches it, unless an earlier run's row stands in for it.
THEOREM LandsHolds == Spec => AnswerLands
  <1>1. ASSUME IInv, [Next]_vars
        PROVE  [(pc = "pick" /\ cycle = 1 /\ cont.answer = "text" /\ visited' = visited \cup {cont.seq}
          /\ cont.seq \notin visited /\ ~Shadowed(cont.seq)) => flow'.seq = cont.seq /\ pc' = "waiting"]_vars
    <2> SUFFICES ASSUME pc = "pick", cycle = 1, cont.answer = "text", visited' = visited \cup {cont.seq},
                        cont.seq \notin visited, ~Shadowed(cont.seq)
                 PROVE  flow'.seq = cont.seq /\ pc' = "waiting"
      OBVIOUS
    <2>1. visited' # visited
      OBVIOUS
    <2>2. CASE Pick \/ AppendGeneration
      <3>1. PICK s \in Seqs : /\ s \notin visited /\ Visit(s) /\ failed = "none"
                              /\ s \in Plan => Deps[s] \subseteq visited
        BY <1>1, <2>2, PickVisits
      <3>2. s = cont.seq
        BY <3>1 DEF Visit
      <3>3. Going
        BY <3>1 DEF Going
      <3>4. scoped = {} /\ done \subseteq cont.completed \cup visited /\ visited \subseteq done
        BY <1>1, <3>1, <3>3 DEF IInv, DoneInv
      <3>5. s \notin done
        BY <1>1, <3>2, <3>3, <3>4 DEF IInv, AskInv
      <3>6. flow' = [Idle EXCEPT !.seq = s, !.cycle = cycle, !.step = "entry"] /\ pc' = "waiting"
        BY <3>1, <3>4, <3>5 DEF Visit
      <3> QED
        BY <3>2, <3>6 DEF Idle
    <2>3. CASE Flow
      <3>1. visited' = visited
        BY <1>1, <2>3, FlowMoves DEF IInv, driver, Return
      <3> QED
        BY <2>1, <3>1
    <2>4. CASE Planned \/ CycleHead \/ Reviewed \/ Human
      BY <2>4 DEF Planned, CycleHead, Reviewed, Human, AnswerText, AnswerSkip, AnswerAccept, AnswerAbort,
                  Exempt, Answerable
    <2>5. CASE ToReview \/ Stop \/ Deadline \/ Crash \/ UNCHANGED vars
      BY <2>1, <2>5 DEF ToReview, Stop, Deadline, Crash, vars, driver
    <2> QED
      BY <1>1, <2>2, <2>3, <2>4, <2>5 DEF Next, Driver
  <1> QED
    BY InvHolds, <1>1, PTL DEF Spec, AnswerLands

-----------------------------------------------------------------------------
(* A failure that is recorded stands for a sub-task that is not done         *)

\* Where nothing is dispatched nothing has failed; elsewhere a failure leaves a sub-task
\* that the driver has visited and that is not done.
StandInv ==
    /\ failed # "none" => ~(visited \subseteq done)
    /\ pc \in {"planning", "head", "review"} => failed = "none"

\* What a sub-task that is waited for returns with: it is done and its failure, if there
\* was one, retracted; or it is not done.
LEMMA FlowStands ==
  ASSUME IInv, Flow, ~flow.late
  PROVE  visited' = visited /\ pc' \in {"pick", "waiting"} /\ (done' = done \/ failed' = "none")
  <1>1. pc = "waiting"
    BY FlowActive DEF IInv, FlowInv
  <1>2. failed # "none" <=> flow.step \in {"rescuing", "retracting"}
    BY <1>1 DEF IInv, FlowInv
  <1>3. CASE Rescued \/ AutoResolved
    BY <1>1, <1>3 DEF Rescued, AutoResolved, Retract, Return
  <1>4. CASE ReprobeSkipped \/ ScriptedFallback \/ Settled \/ NothingToChange
    BY <1>1, <1>2, <1>4 DEF ReprobeSkipped, ScriptedFallback, Settled, NothingToChange, At, Return
  <1>5. CASE Refused \/ TurnLost \/ BestEffort \/ TurnIncomplete \/ DispatchError
             \/ RetryUnaccounted \/ FailVerification \/ ObserveBlocked \/ Escalated
    BY <1>1, <1>5 DEF Refused, TurnLost, BestEffort, TurnIncomplete, DispatchError,
       RetryUnaccounted, FailVerification, ObserveBlocked, Escalated, Return
  <1>6. CASE Begin \/ FirstTokenRetry \/ TurnOver \/ VerifyPasses \/ ProtocolRetry \/ RetryPasses
             \/ RetryPassesIncomplete \/ RetryJudged \/ PathMismatch \/ RescueVerified
    BY <1>1, <1>6 DEF Begin, FirstTokenRetry, TurnOver, VerifyPasses, ProtocolRetry, RetryPasses,
       RetryPassesIncomplete, RetryJudged, PathMismatch, RescueVerified, Goto, Again, Enter, driver,
       local
  <1> QED
    BY <1>3, <1>4, <1>5, <1>6 DEF Flow

LEMMA LateStands ==
  ASSUME IInv, Flow, flow.late
  PROVE  UNCHANGED <<pc, visited, done, failed>> /\ pc \in {"pick", "ended"}
  <1>1. UNCHANGED <<pc, cycle, visited, scoped, done, failed, clarify, cont, conflicts, runs>>
    BY FlowMoves, FlowTells DEF IInv, Return, Done, Retract, Fail, driver, fixed
  <1> QED
    BY <1>1 DEF IInv, AbandonedRunsAlone

LEMMA StandNext ==
  ASSUME IInv, StandInv, [Next]_vars
  PROVE  StandInv'
  <1>1. CASE Flow /\ flow.late
    BY <1>1, LateStands DEF StandInv
  <1>2. CASE Flow /\ ~flow.late
    <2>1. flow.seq \in visited /\ flow.seq \notin done
      BY <1>2, FlowActive DEF IInv, FlowInv
    <2> QED
      BY <1>2, <2>1, FlowStands DEF StandInv
  <1>3. CASE Pick \/ AppendGeneration
    <2>1. PICK s \in Seqs : s \notin visited /\ Visit(s) /\ failed = "none" /\ pc = "pick"
      BY <1>3, PickVisits DEF Pick, AppendGeneration
    <2>2. /\ visited' = visited \cup {s} /\ pc' \in {"pick", "waiting"}
          /\ failed' # "none" => s \notin done' /\ s \in visited'
      BY <2>1 DEF Visit
    <2> QED
      BY <2>2 DEF StandInv
  <1>4. CASE Planned \/ CycleHead \/ ToReview \/ Stop \/ Reviewed
    BY <1>4 DEF Planned, CycleHead, ToReview, Stop, Reviewed, local, StandInv
  <1>5. CASE Deadline
    BY <1>5 DEF Deadline, StandInv, IInv, FlowInv
  <1>6. CASE Crash
    BY <1>6 DEF Crash, local, StandInv
  <1>7. CASE Human
    BY <1>7 DEF Human, AnswerText, AnswerSkip, AnswerAccept, AnswerAbort, Exempt, Resume, driver,
       local, StandInv
  <1>8. CASE UNCHANGED vars
    BY <1>8 DEF vars, driver, local, StandInv
  <1> QED
    BY <1>1, <1>2, <1>3, <1>4, <1>5, <1>6, <1>7, <1>8 DEF Next, Driver

\* A session ends, or asks, for a sub-task that was not accepted: a failure the rescue or the
\* settlement from the branch made good is retracted before the driver reads it
\* (runOneInner), and a late promise retracts nothing.
THEOREM StandsHolds == Spec => []FailureStands
  <1>1. Init => StandInv
    BY DEF Init, StandInv
  <1>2. StandInv => FailureStands
    BY DEF StandInv, FailureStands
  <1> QED
    BY InvHolds, <1>1, <1>2, StandNext, PTL DEF Spec
=============================================================================
