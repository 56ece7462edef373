---------------------- MODULE SessionOwnership_proofs ----------------------
(* Theorems about SessionOwnership, checked by TLAPS for every set of sessions *)
(* and loops and every value of the bounds.                                    *)
EXTENDS SessionOwnership, TLAPS

\* What SoleLoop needs to know of types: the shape of three functions.
Shape ==
    /\ loop \in [Loops -> [sess : Sessions, pc : Pcs, left : Int] \cup {Gone}]
    /\ holder \in [Sessions -> Loops \cup {None}]
    /\ stray \in [Sessions -> BOOLEAN]
    /\ registry \subseteq Sessions

OwnInv == Shape /\ SoleLoop

own == <<registry, loop, holder, stray>>

\* A loop that is not gone belongs to a session, and Gone is not a live loop.
LEMMA GoneFact ==
    ASSUME Shape
    PROVE  /\ \A l \in Loops : loop[l] = Gone => \A s \in Sessions : l \notin Live(s)
           /\ \A l \in Loops : loop[l] # Gone =>
                /\ loop[l].sess \in Sessions
                /\ l \in Live(loop[l].sess)
  BY NoneAssumption DEF Shape, Gone, Live

\* Moving a loop to another await changes no ownership.
LEMMA GotoOwn ==
    ASSUME OwnInv, NEW l \in Loops, loop[l] # Gone, NEW p \in Pcs, Goto(l, p)
    PROVE  OwnInv'
  <1>1. Shape'
    BY DEF OwnInv, Shape, Goto, Gone
  <1>2. \A s \in Sessions : Live(s)' = Live(s)
    BY DEF OwnInv, Shape, Goto, Live, Gone
  <1>3. SoleLoop'
    BY <1>2 DEF OwnInv, SoleLoop, Goto
  <1> QED BY <1>1, <1>3 DEF OwnInv

\* A loop that ends takes its session's entry with it.
LEMMA ExitOwn ==
    ASSUME OwnInv, NEW l \in Loops, loop[l] # Gone, Exit(l)
    PROVE  OwnInv'
  <1>1. PICK s \in Sessions : s = loop[l].sess /\ l \in Live(s)
    BY GoneFact DEF OwnInv
  <1>2. Shape'
    BY <1>1 DEF OwnInv, Shape, Exit
  <1>3. /\ Live(s)' = Live(s) \ {l}
        /\ \A x \in Sessions : x # s => Live(x)' = Live(x)
    <2>1. \A k \in Loops : loop'[k] = IF k = l THEN Gone ELSE loop[k]
      BY DEF OwnInv, Shape, Exit
    <2>2. Gone.sess = None
      BY DEF Gone
    <2>3. \A x \in Sessions : x # None
      BY NoneAssumption
    <2>4. \A x \in Sessions : Live(x)' = {k \in Loops : k # l /\ loop[k].sess = x}
      BY <2>1, <2>2, <2>3 DEF Live
    <2>5. Live(s)' = Live(s) \ {l}
      BY <2>4, <1>1 DEF Live
    <2>6. ASSUME NEW x \in Sessions, x # s PROVE Live(x)' = Live(x)
      <3>1. \A k \in Loops : loop[k].sess = x => k # l
        BY <2>6, <1>1
      <3> QED BY <3>1, <2>4 DEF Live
    <2> QED BY <2>5, <2>6
  <1>4. stray'[s] = (Live(s) # {l}) /\ s \notin registry'
    BY <1>1 DEF OwnInv, Shape, Exit
  <1>5. \A x \in Sessions : x # s =>
          stray'[x] = stray[x] /\ holder'[x] = holder[x] /\ (x \in registry' <=> x \in registry)
    BY <1>1 DEF OwnInv, Shape, Exit
  <1>6. SoleLoop'
    <2> SUFFICES ASSUME NEW x \in Sessions, ~stray'[x]
                 PROVE  Live(x)' = IF x \in registry' THEN {holder'[x]} ELSE {}
      BY DEF SoleLoop
    <2>1. CASE x = s
      BY <2>1, <1>3, <1>4
    <2>2. CASE x # s
      BY <2>2, <1>3, <1>5 DEF OwnInv, SoleLoop
    <2> QED BY <2>1, <2>2
  <1> QED BY <1>2, <1>6 DEF OwnInv

\* run(), whatever it decides, launches at most one loop, and a second one only
\* by taking an entry away from a loop it presumes dead.
LEMMA RunOwn ==
    ASSUME OwnInv, NEW s \in Sessions, NEW st, NEW age, Run(s, st, age)
    PROVE  OwnInv'
  <1>1. CASE RunSkipped(s, st, age)
    <2>1. \A x \in Sessions : Live(x)' = Live(x)
      BY <1>1 DEF RunSkipped, Live
    <2> QED BY <1>1, <2>1 DEF RunSkipped, OwnInv, Shape, SoleLoop
  <1>2. CASE RunRefused(s, st)
    <2>1. \A x \in Sessions : Live(x)' = Live(x)
      BY <1>2 DEF RunRefused, Live
    <2>2. Shape'
      BY <1>2 DEF RunRefused, OwnInv, Shape
    <2>3. SoleLoop'
      <3> SUFFICES ASSUME NEW x \in Sessions, ~stray'[x]
                   PROVE  Live(x)' = IF x \in registry' THEN {holder'[x]} ELSE {}
        BY DEF SoleLoop
      <3>1. CASE x = s
        BY <3>1, <2>1, <1>2 DEF RunRefused, OwnInv, Shape
      <3>2. CASE x # s
        BY <3>2, <2>1, <1>2 DEF RunRefused, OwnInv, Shape, SoleLoop
      <3> QED BY <3>1, <3>2
    <2> QED BY <2>2, <2>3 DEF OwnInv
  <1>3. CASE RunLaunched(s, st)
    <2>1. PICK l \in Loops :
            /\ loop[l] = Gone
            /\ loop' = [loop EXCEPT ![l] = [sess |-> s, pc |-> "planning", left |-> MaxCycles]]
            /\ holder' = [holder EXCEPT ![s] = l]
      BY <1>3 DEF RunLaunched
    <2>2. Shape'
      BY <1>3, <2>1, BoundsAssumption DEF RunLaunched, OwnInv, Shape, Pcs
    <2>3. /\ Live(s)' = Live(s) \cup {l}
          /\ \A x \in Sessions : x # s => Live(x)' = Live(x)
      <3>1. \A k \in Loops : loop'[k].sess = IF k = l THEN s ELSE loop[k].sess
        BY <2>1 DEF OwnInv, Shape
      <3>2. loop[l].sess = None /\ \A x \in Sessions : x # None
        BY <2>1, NoneAssumption DEF Gone
      <3> QED BY <3>1, <3>2 DEF Live
    <2>4. SoleLoop'
      <3> SUFFICES ASSUME NEW x \in Sessions, ~stray'[x]
                   PROVE  Live(x)' = IF x \in registry' THEN {holder'[x]} ELSE {}
        BY DEF SoleLoop
      <3>1. CASE x = s
        <4>1. ~stray[s] /\ s \notin registry
          BY <3>1, <1>3 DEF RunLaunched, OwnInv, Shape
        <4>2. Live(s) = {}
          BY <4>1 DEF OwnInv, SoleLoop
        <4>3. holder'[s] = l /\ s \in registry'
          BY <2>1, <1>3 DEF RunLaunched, OwnInv, Shape
        <4> QED BY <4>2, <4>3, <2>3, <3>1
      <3>2. CASE x # s
        BY <3>2, <2>1, <2>3, <1>3 DEF RunLaunched, OwnInv, Shape, SoleLoop
      <3> QED BY <3>1, <3>2
    <2> QED BY <2>2, <2>4 DEF OwnInv
  <1> QED BY <1>1, <1>2, <1>3 DEF Run

\* A step that leaves the registry and the loops alone.
LEMMA SameOwn ==
    ASSUME OwnInv, UNCHANGED own
    PROVE  OwnInv'
  <1>1. \A x \in Sessions : Live(x)' = Live(x)
    BY DEF own, Live
  <1> QED BY <1>1 DEF own, OwnInv, Shape, SoleLoop

\* No loop step breaks ownership.
LEMMA LoopOwn ==
    ASSUME OwnInv, NEW l \in Loops, LoopStep(l)
    PROVE  OwnInv'
  <1>1. CASE loop[l] = Gone
    <2>1. loop[l].pc = "gone"
      BY <1>1 DEF Gone
    <2>2. LoopThrow(l)
      BY <2>1 DEF LoopStep, Advance, AccountingLost, LeadDone, PlanStops, CycleStart, Gate,
                  Dispatch, Retry, StopOnAbort, StopOnLimit, WorkDone, ToReview, Decide, Ask, AskEnds, Asks,
                  Publish, CiRepair, Ship, Finalise, Released, at
    <2> QED BY <2>2, <1>1 DEF LoopThrow
  <1>2. CASE loop[l] # Gone
    <2>1. ASSUME NEW p \in Pcs, Goto(l, p) PROVE OwnInv'
      BY <2>1, <1>2, GotoOwn
    <2>2. ASSUME Exit(l) PROVE OwnInv'
      BY <2>2, <1>2, ExitOwn
    <2>3. CASE LeadDone(l)
      BY <2>3, <2>1 DEF LeadDone, Pcs
    <2>4. CASE PlanStops(l)
      BY <2>4, <2>1 DEF PlanStops, Pcs
    <2>5. CASE CycleStart(l)
      <3>1. Shape'
        BY <2>5, <1>2 DEF CycleStart, OwnInv, Shape, Pcs, Gone
      <3>2. \A s \in Sessions : Live(s)' = Live(s)
        BY <2>5, <1>2 DEF CycleStart, OwnInv, Shape, Live, Gone
      <3> QED BY <3>1, <3>2, <2>5 DEF CycleStart, OwnInv, SoleLoop
    <2>6. CASE Gate(l) \/ Dispatch(l)
      BY <2>6, <2>1 DEF Gate, Dispatch, Pcs
    <2>7. CASE StopOnAbort(l)
      BY <2>7, <2>1 DEF StopOnAbort, Pcs
    <2>8. CASE StopOnLimit(l)
      BY <2>8, <2>1 DEF StopOnLimit, Pcs
    <2>9. CASE WorkDone(l)
      BY <2>9, <2>1 DEF WorkDone, Pcs
    <2>10. CASE ToReview(l)
      BY <2>10, <2>1 DEF ToReview, Pcs
    <2>11. CASE Decide(l)
      BY <2>11, <2>1 DEF Decide, Pcs
    <2>12. CASE Ask(l)
      BY <2>12, <2>1 DEF Ask, Pcs, Asks
    <2>13. CASE AskEnds(l)
      <3>1. PICK p \in {"gated", "salvaging", "planned", "shipping", "closing"} : Goto(l, p)
        BY <2>13 DEF AskEnds, Asks, at
      <3> QED BY <3>1, <2>1 DEF Pcs
    <2>14. CASE Publish(l)
      BY <2>14, <2>1 DEF Publish, Pcs
    <2>15. CASE CiRepair(l)
      BY <2>15, <2>1 DEF CiRepair, Pcs
    <2>16. CASE Ship(l)
      BY <2>16, <2>1 DEF Ship, Pcs
    <2>17. CASE Finalise(l)
      BY <2>17, <2>2 DEF Finalise
    <2>18. CASE Released(l)
      BY <2>18, <2>2 DEF Released
    <2>19. CASE AccountingLost(l)
      BY <2>19, <2>2 DEF AccountingLost
    <2>20. CASE LoopThrow(l)
      BY <2>20, <2>2 DEF LoopThrow
    <2>21. CASE Retry(l)
      BY <2>21, SameOwn DEF Retry, own
    <2> QED
      BY <2>3, <2>4, <2>5, <2>6, <2>7, <2>8, <2>9, <2>10, <2>11, <2>12, <2>13, <2>14, <2>15,
         <2>16, <2>17, <2>18, <2>19, <2>20, <2>21 DEF LoopStep, Advance
  <1> QED BY <1>1, <1>2

\* No tool call breaks ownership.
LEMMA ToolOwn ==
    ASSUME OwnInv, NEW s \in Sessions, Tool(s)
    PROVE  OwnInv'
  <1>1. ASSUME Run(s, "planning", 0) PROVE OwnInv'
    BY <1>1, RunOwn
  <1>2. ASSUME UNCHANGED own PROVE OwnInv'
    BY <1>2, SameOwn
  <1>3. CASE Start(s)
    BY <1>3, <1>1, <1>2 DEF Start, own
  <1>4. CASE CancelRequest(s)
    BY <1>4, <1>2 DEF CancelRequest, CancelSession, own
  <1>5. CASE CancelFinish(s)
    BY <1>5, <1>2 DEF CancelFinish, own
  <1>6. CASE ResumeRequest(s)
    BY <1>6, <1>2 DEF ResumeRequest, own
  <1>7. CASE ResumeRefused(s)
    BY <1>7, <1>2 DEF ResumeRefused, own
  <1>8. CASE ResumeRun(s)
    BY <1>8, <1>1 DEF ResumeRun
  <1>9. CASE AnswerRequest(s)
    BY <1>9, <1>2 DEF AnswerRequest, own
  <1>10. CASE AnswerClaim(s)
    BY <1>10, <1>1, <1>2 DEF AnswerClaim, own
  <1>11. CASE ListenerLost(s)
    BY <1>11, <1>2 DEF ListenerLost, own
  <1> QED
    BY <1>3, <1>4, <1>5, <1>6, <1>7, <1>8, <1>9, <1>10, <1>11 DEF Tool

\* No timer or service breaks ownership; the watchdog marks the session it strips.
LEMMA ServiceOwn ==
    ASSUME OwnInv, NEW s \in Sessions, Service(s)
    PROVE  OwnInv'
  <1>2. ASSUME UNCHANGED own PROVE OwnInv'
    BY <1>2, SameOwn
  <1>3. CASE RecoveryLaunch(s)
    BY <1>3, RunOwn DEF RecoveryLaunch
  <1>4. CASE SweepRetick(s)
    BY <1>4, RunOwn DEF SweepRetick
  <1>5. CASE ReapFinish(s)
    BY <1>5, <1>2 DEF ReapFinish, own
  <1>6. CASE PollReactions(s)
    BY <1>6, <1>2 DEF PollReactions, own
  <1>7. CASE WatchdogFires(s)
    <2>1. \A x \in Sessions : Live(x)' = Live(x)
      BY <1>7 DEF WatchdogFires, Live
    <2>2. Shape'
      BY <1>7 DEF WatchdogFires, OwnInv, Shape
    <2>3. SoleLoop'
      <3> SUFFICES ASSUME NEW x \in Sessions, ~stray'[x]
                   PROVE  Live(x)' = IF x \in registry' THEN {holder'[x]} ELSE {}
        BY DEF SoleLoop
      <3>1. CASE x = s /\ s \in registry
        BY <3>1, <2>1, <1>7 DEF WatchdogFires, OwnInv, Shape
      <3>2. CASE ~(x = s /\ s \in registry)
        <4>1. ~stray[x] /\ holder'[x] = holder[x] /\ (x \in registry' <=> x \in registry)
          BY <3>2, <1>7 DEF WatchdogFires, OwnInv, Shape
        <4> QED BY <4>1, <2>1 DEF OwnInv, SoleLoop
      <3> QED BY <3>1, <3>2
    <2> QED BY <2>2, <2>3 DEF OwnInv
  <1> QED BY <1>3, <1>4, <1>5, <1>6, <1>7 DEF Service

\* No session runs before the first one is started.
LEMMA InitOwn == Init => OwnInv
  <1> SUFFICES ASSUME Init PROVE OwnInv
    OBVIOUS
  <1>1. \A s \in Sessions : Live(s) = {}
    BY NoneAssumption DEF Init, Live, Gone
  <1>2. Shape
    BY DEF Init, Shape
  <1> QED BY <1>1, <1>2 DEF Init, OwnInv, SoleLoop

\* Every step keeps ownership.
LEMMA OwnNext == OwnInv /\ [Next]_vars => OwnInv'
  <1> SUFFICES ASSUME OwnInv, [Next]_vars PROVE OwnInv'
    OBVIOUS
  <1>1. ASSUME NEW l \in Loops, LoopStep(l) PROVE OwnInv'
    BY <1>1, LoopOwn
  <1>2. ASSUME NEW s \in Sessions, Tool(s) \/ Service(s) PROVE OwnInv'
    BY <1>2, ToolOwn, ServiceOwn
  <1>3. CASE Recovery
    BY <1>3, SameOwn DEF Recovery, RecoveryWalk, own
  <1>4. CASE Sweep
    BY <1>4, SameOwn DEF Sweep, SweepWalk, Reap, CancelSession, own
  <1>5. CASE Restart
    <2>1. \A s \in Sessions : Live(s)' = {}
      BY <1>5, NoneAssumption DEF Restart, Live, Gone
    <2>2. Shape'
      BY <1>5 DEF Restart, Shape
    <2> QED BY <2>1, <2>2, <1>5 DEF Restart, OwnInv, SoleLoop
  <1>6. CASE Tick
    BY <1>6, SameOwn DEF Tick, own
  <1>7. CASE UNCHANGED vars
    BY <1>7, SameOwn DEF vars, own
  <1> QED BY <1>1, <1>2, <1>3, <1>4, <1>5, <1>6, <1>7 DEF Next

\* Outside a declared wedge, a session is driven by the loop that registered and
\* by no other: whatever tools, recovery, sweep, poller and crashes interleave.
THEOREM SoleLoopHolds == Spec => []SoleLoop
  <1>1. OwnInv => SoleLoop
    BY DEF OwnInv
  <1> QED BY InitOwn, OwnNext, <1>1, PTL DEF Spec

-----------------------------------------------------------------------------
(* Cancellation.                                                            *)

\* The flag every gate reads stands for each cancel that was accepted.
CancelInv ==
    /\ abort \in [Sessions -> BOOLEAN] /\ cancelled \in [Sessions -> BOOLEAN]
    /\ \A s \in Sessions : cancelled[s] => abort[s]

\* Only the poller lowers the flag, and it takes the cancel with it.
LEMMA CancelKept ==
    ASSUME CancelInv, [Next]_vars
    PROVE  CancelInv'
  <1>1. ASSUME UNCHANGED <<abort, cancelled>> PROVE CancelInv'
    BY <1>1 DEF CancelInv
  <1>2. ASSUME NEW s \in Sessions, abort' = [abort EXCEPT ![s] = TRUE],
               UNCHANGED cancelled \/ cancelled' = [cancelled EXCEPT ![s] = TRUE]
        PROVE  CancelInv'
    BY <1>2 DEF CancelInv
  <1>3. ASSUME NEW l \in Loops, LoopStep(l) PROVE UNCHANGED <<abort, cancelled>>
    BY <1>3 DEF LoopStep, Advance, AccountingLost, LoopThrow, LeadDone, PlanStops, CycleStart,
                Gate, Dispatch, Retry, StopOnAbort, StopOnLimit, WorkDone, ToReview, Decide, Ask, AskEnds,
                Publish, CiRepair, Ship, Finalise, Released, row
  <1>4. ASSUME NEW s \in Sessions, Tool(s) PROVE CancelInv'
    <2>1. CASE CancelRequest(s)
      BY <2>1, <1>2 DEF CancelRequest, CancelSession
    <2>2. CASE ~CancelRequest(s)
      BY <2>2, <1>1, <1>4 DEF Tool, Start, CancelFinish, ResumeRequest, ResumeRefused, ResumeRun,
                              AnswerRequest, AnswerClaim, ListenerLost, row
    <2> QED BY <2>1, <2>2
  <1>5. ASSUME NEW s \in Sessions, Service(s) PROVE CancelInv'
    <2>1. CASE PollReactions(s)
      <3>1. PICK seen \in BOOLEAN : /\ abort' = [abort EXCEPT ![s] = seen]
                                    /\ cancelled' = [cancelled EXCEPT ![s] = @ /\ seen]
        BY <2>1 DEF PollReactions
      <3>2. cancelled[s] \in BOOLEAN /\ (cancelled[s] /\ seen) \in BOOLEAN
        BY DEF CancelInv
      <3>3. abort' \in [Sessions -> BOOLEAN] /\ cancelled' \in [Sessions -> BOOLEAN]
        BY <3>1, <3>2 DEF CancelInv
      <3>4. ASSUME NEW x \in Sessions, cancelled'[x] PROVE abort'[x]
        <4>1. CASE x = s
          BY <3>1, <3>4, <4>1 DEF CancelInv
        <4>2. CASE x # s
          BY <3>1, <3>4, <4>2 DEF CancelInv
        <4> QED BY <4>1, <4>2
      <3> QED BY <3>3, <3>4 DEF CancelInv
    <2>2. CASE ~PollReactions(s)
      BY <2>2, <1>1, <1>5 DEF Service, RecoveryLaunch, SweepRetick, ReapFinish, WatchdogFires, row
    <2> QED BY <2>1, <2>2
  <1>6. CASE Recovery
    BY <1>6, <1>1 DEF Recovery, RecoveryWalk
  <1>7. CASE Sweep
    <2>1. PICK todo : SweepWalk(todo)
      BY <1>7 DEF Sweep
    <2>2. PICK x \in todo : Reap(x) /\ UNCHANGED cancelled
      BY <2>1 DEF SweepWalk
    <2>3. CASE UNCHANGED row
      BY <2>2, <2>3, <1>1 DEF row
    <2>4. CASE CancelSession(x.sess) /\ Cancellable(x.sess)
      <3>1. abort' = [abort EXCEPT ![x.sess] = TRUE]
        BY <2>4 DEF CancelSession
      <3>2. CASE x.sess \in Sessions
        BY <1>2, <2>2, <3>1, <3>2
      <3>3. CASE x.sess \notin Sessions
        BY <1>1, <2>2, <3>1, <3>3 DEF CancelInv
      <3> QED BY <3>2, <3>3
    <2> QED BY <2>2, <2>3, <2>4 DEF Reap
  <1>8. CASE Restart \/ Tick \/ UNCHANGED vars
    BY <1>8, <1>1 DEF Restart, Tick, vars, row
  <1> QED BY <1>3, <1>1, <1>4, <1>5, <1>6, <1>7, <1>8 DEF Next

\* A loop comes past a gate with the flag down, and is put to work from behind it.
LEMMA OnlyGated ==
    ASSUME Shape, Next, NEW l \in Loops, loop'[l] # loop[l],
           loop'[l].pc \in {"askDispatch", "gated", "working"}
    PROVE  /\ loop[l].sess \in Sessions /\ loop'[l].sess = loop[l].sess
           /\ \/ loop[l].pc \in {"askDispatch", "gated"}
              \/ ~abort[loop[l].sess] /\ loop'[l].pc # "working"
  <1>0. /\ loop' # loop /\ Gone.pc = "gone" /\ loop'[l] # Gone
        /\ loop[l].pc \in Pcs => loop[l].sess \in Sessions
    BY DEF Gone, Shape, Pcs, Asks
  <1> DEFINE Past == /\ loop[l].sess \in Sessions /\ loop'[l].sess = loop[l].sess
                     /\ \/ loop[l].pc \in {"askDispatch", "gated"}
                        \/ ~abort[loop[l].sess] /\ loop'[l].pc # "working"
  <1>2. ASSUME NEW k \in Loops, NEW p, Goto(k, p)
        PROVE  k = l /\ p = loop'[l].pc /\ loop'[l].sess = loop[l].sess
    BY <1>2, <1>0 DEF Goto, Shape, Gone
  <1>3. ASSUME NEW k \in Loops, Exit(k) PROVE FALSE
    BY <1>3, <1>0 DEF Exit, Shape
  <1>4. ASSUME NEW s, NEW st, NEW age, Run(s, st, age) PROVE FALSE
    <2>1. RunLaunched(s, st)
      BY <1>0, <1>4 DEF Run, RunSkipped, RunRefused
    <2> QED BY <2>1, <1>0 DEF RunLaunched, Shape
  <1>5. ASSUME NEW k \in Loops, LoopStep(k) PROVE Past
    <2>1. CASE CycleStart(k)
      BY <2>1, <1>0 DEF CycleStart, Shape, Gone
    <2>2. CASE Gate(k) \/ Dispatch(k) \/ Ask(k)
      <3>1. k = l /\ loop'[l].sess = loop[l].sess /\ loop[l].pc \in Pcs
        BY <2>2, <1>2 DEF Gate, Dispatch, Ask, at, Pcs
      <3>2. CASE Gate(l)
        BY <3>2, <3>1, <1>0, <1>2 DEF Gate, at
      <3>3. CASE Dispatch(l)
        BY <3>3, <3>1, <1>0 DEF Dispatch, at
      <3>4. CASE Ask(l)
        BY <3>4, <3>1, <1>0, <1>2 DEF Ask, at
      <3> QED BY <2>2, <3>1, <3>2, <3>3, <3>4
    <2>3. CASE LeadDone(k) \/ PlanStops(k) \/ StopOnAbort(k) \/ StopOnLimit(k) \/ ToReview(k)
      BY <2>3, <1>2 DEF LeadDone, PlanStops, StopOnAbort, StopOnLimit, ToReview
    <2>4. CASE WorkDone(k) \/ Decide(k)
      BY <2>4, <1>2 DEF WorkDone, Decide
    <2>5. CASE AskEnds(k)
      <3>1. PICK p \in {"gated", "salvaging", "planned", "shipping", "closing"} :
              Goto(k, p) /\ (p = "gated" => at(k, "askDispatch"))
        BY <2>5 DEF AskEnds, Asks, at
      <3>2. p = "gated" /\ k = l /\ loop'[l].sess = loop[l].sess
        BY <3>1, <1>2
      <3> QED BY <3>1, <3>2, <1>0 DEF at, Pcs, Asks
    <2>6. CASE Publish(k) \/ CiRepair(k) \/ Ship(k)
      BY <2>6, <1>2 DEF Publish, CiRepair, Ship
    <2>7. CASE Finalise(k) \/ Released(k) \/ AccountingLost(k) \/ LoopThrow(k)
      BY <2>7, <1>3 DEF Finalise, Released, AccountingLost, LoopThrow
    <2>8. CASE Retry(k)
      BY <2>8, <1>0 DEF Retry
    <2> QED
      BY <1>5, <2>1, <2>2, <2>3, <2>4, <2>5, <2>6, <2>7, <2>8 DEF LoopStep, Advance
  <1>6. ASSUME NEW s \in Sessions, Tool(s) PROVE FALSE
    BY <1>0, <1>4, <1>6 DEF Tool, Start, CancelRequest, CancelSession, CancelFinish, ResumeRequest,
       ResumeRefused, ResumeRun, AnswerRequest, AnswerClaim, ListenerLost
  <1>7. ASSUME NEW s \in Sessions, Service(s) PROVE FALSE
    BY <1>0, <1>4, <1>7 DEF Service, RecoveryLaunch, SweepRetick, ReapFinish, WatchdogFires,
       PollReactions
  <1>8. ~Recovery /\ ~Sweep /\ ~Tick
    BY <1>0 DEF Recovery, RecoveryWalk, Sweep, SweepWalk, Reap, CancelSession, Tick
  <1>9. ~Restart
    BY <1>0 DEF Restart
  <1> QED BY <1>5, <1>6, <1>7, <1>8, <1>9 DEF Next

\* Once a cancel has been accepted, what its session's loops may still start is what
\* was past the gate at that moment, and a loop starts nothing else.
THEOREM CancelBoundsHolds == Spec => CancelBoundsOverrun
  <1>1. Init => OwnInv /\ CancelInv
    BY InitOwn DEF Init, CancelInv
  <1>2. OwnInv /\ CancelInv /\ [Next]_vars => (OwnInv /\ CancelInv)'
    BY OwnNext, CancelKept
  <1>3. OwnInv /\ CancelInv /\ [Next]_vars =>
        [/\ \A s \in Sessions : cancelled[s] => Owed(s)' \subseteq Owed(s)
         /\ \A l \in Loops : loop[l].pc # "working" /\ loop'[l].pc = "working" =>
                l \in Owed(loop[l].sess)]_vars
    <2> SUFFICES ASSUME OwnInv, CancelInv, Next
                 PROVE  /\ \A s \in Sessions : cancelled[s] => Owed(s)' \subseteq Owed(s)
                        /\ \A l \in Loops : loop[l].pc # "working" /\ loop'[l].pc = "working" =>
                               l \in Owed(loop[l].sess)
      OBVIOUS
    <2>1. Shape
      BY DEF OwnInv
    <2>2. ASSUME NEW s \in Sessions, cancelled[s], NEW l \in Owed(s)'
          PROVE  l \in Owed(s)
      <3>1. /\ l \in Loops /\ loop'[l].sess = s
            /\ loop'[l].pc \in {"askDispatch", "gated"}
        BY <2>2 DEF Owed, Live
      <3>2. CASE loop'[l] = loop[l]
        BY <3>1, <3>2 DEF Owed, Live
      <3>3. CASE loop'[l] # loop[l]
        <4>1. /\ loop[l].sess = s
              /\ loop[l].pc \in {"askDispatch", "gated"} \/ ~abort[s]
          BY <3>1, <3>3, <2>1, OnlyGated
        <4>2. abort[s]
          BY <2>2 DEF CancelInv
        <4> QED BY <4>1, <4>2, <3>1 DEF Owed, Live
      <3> QED BY <3>2, <3>3
    <2>3. ASSUME NEW l \in Loops, loop[l].pc # "working", loop'[l].pc = "working"
          PROVE  l \in Owed(loop[l].sess)
      <3>1. loop[l].pc \in {"askDispatch", "gated"}
        BY <2>3, <2>1, OnlyGated
      <3> QED BY <3>1 DEF Owed, Live
    <2> QED BY <2>2, <2>3
  <1> QED BY <1>1, <1>2, <1>3, PTL DEF Spec, CancelBoundsOverrun
=============================================================================
