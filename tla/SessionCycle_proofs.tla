------------------------ MODULE SessionCycle_proofs ------------------------
(***************************************************************************)
(* SessionCycle for every value of its constants.  IInv is inductive; each *)
(* of its parts says what being at a place in runInner entails: that a     *)
(* granted cycle is still to begin, that an adversary has judged, that the *)
(* last review has seen every commit, that a required check was green.     *)
(***************************************************************************)
EXTENDS SessionCycle, TLAPS

Reviewed == {"deciding", "shipping", "published", "polled"}

Counters == cycle \in Nat /\ ext \in Nat /\ timeExt \in Nat /\ repairs \in Nat

\* No cycle is begun beyond the bound, and at `while` there is one to begin.
RoomInv == Counters /\ cycle <= Bound /\ GrantIsACycle

\* A review that was recorded was made; whoever ships has one.
JudgedInv ==
    /\ review # NoReview => judged
    /\ pc \in Reviewed => review # NoReview
    /\ pc = "previewing" => judged
    /\ UnreviewedStaysHome

\* Only a cycle in flight, and what it is salvaged into, can be unseen.
SeenInv ==
    /\ pc \in Reviewed \cup {"bound"} => seen
    /\ (pc = "gate" /\ ~changed) => seen
    /\ (pc = "executing" /\ ~changed) => seen
    /\ pc # "ended" => result = Going
    /\ UnseenIsMarked

\* A required check turns green at most once, and then only the end follows.
VerifiedInv ==
    /\ (required /\ verified) => (pc \in {"polled", "ended"} /\ ci = "green")
    /\ MergeIsVouchedFor

IInv == RoomInv /\ JudgedInv /\ SeenInv /\ VerifiedInv

-----------------------------------------------------------------------------
(* Endings that are not Finish: none recommends a merge, and what is pushed *)
(* was vouched for by a review.                                             *)

Over ==
    /\ pc' = "ended" /\ result'.rec # "merge"
    /\ result'.status = "done" => result'.rec = "needs_human_review"
    /\ pushed' => (pushed \/ review # NoReview)

LEMMA QuietOver ==
    ASSUME NEW s, NEW why, s # "done", EndedAs(s, "none", why), UNCHANGED pushed PROVE Over
  BY DEF Over, EndedAs

LEMMA PublishedOver ==
    ASSUME NEW s, NEW why, s # "done", review # NoReview,
           Unpublished(s, why) \/ PublishedForHumans(why)
    PROVE  Over
  <1>1. CASE Unpublished(s, why)
    BY <1>1 DEF Over, EndedAs, Unpublished
  <1>2. CASE PublishedForHumans(why)
    BY <1>2 DEF Over, EndedAs, PublishedForHumans
  <1> QED
    BY <1>1, <1>2

LEMMA SalvageOver == ASSUME NEW why, Salvage(why) PROVE Over
  BY QuietOver, PublishedOver DEF Salvage

LEMMA RescueOver == Rescue => Over
  BY QuietOver, PublishedOver DEF Rescue, Failed

LEMMA FailedOver == Failed => Over
  BY DEF Failed, Over, EndedAs

-----------------------------------------------------------------------------

LEMMA InitInv == Init => IInv
  <1> SUFFICES ASSUME Init PROVE IInv
    OBVIOUS
  <1> USE DEF Init
  <1>1. RoomInv
    BY CyclesAssumption DEF RoomInv, Counters, GrantIsACycle, Bound
  <1>2. JudgedInv
    BY DEF JudgedInv, UnreviewedStaysHome, Reviewed
  <1>3. SeenInv
    BY DEF SeenInv, UnseenIsMarked, Going
  <1>4. VerifiedInv
    BY DEF VerifiedInv, MergeIsVouchedFor, Going
  <1> QED
    BY <1>1, <1>2, <1>3, <1>4 DEF IInv

\* advance() extends, and goes on, only within its limits.
LEMMA AgainBound ==
    ASSUME NEW exhausted, NEW headroom, NEW ship, Advance(exhausted, headroom, ship) = "again"
    PROVE  cycle < MaxCycles + ext
  BY DEF Advance

\* What the steps that end or stay within a cycle do to the counters.
LEMMA DecideCounts ==
    ASSUME Decide
    PROVE  \/ pc' \notin {"bound"} /\ UNCHANGED <<cycle, grants>>
           \/ pc' = "bound" /\ UNCHANGED <<cycle, grants>> /\ cycle < MaxCycles + ext
           \/ pc' = "bound" /\ ext' = ext + 1 /\ UNCHANGED <<cycle, timeExt, repairs>>
           \/ pc' = "bound" /\ timeExt' = timeExt + 1 /\ UNCHANGED <<cycle, ext, repairs>>
  <1> USE DEF grants
  <1>1. UNCHANGED cycle
    BY DEF Decide
  <1>2. CASE Salvage("user_abort_reaction") /\ UNCHANGED <<grants, asks, clock>>
    BY <1>1, <1>2, SalvageOver DEF Over
  <1>3. ASSUME NEW d, NEW room, Act(d, room), d = "again" => cycle < MaxCycles + ext
        PROVE  \/ pc' \notin {"bound"} /\ UNCHANGED <<cycle, grants>>
               \/ pc' = "bound" /\ UNCHANGED <<cycle, grants>> /\ cycle < MaxCycles + ext
               \/ pc' = "bound" /\ ext' = ext + 1 /\ UNCHANGED <<cycle, timeExt, repairs>>
               \/ pc' = "bound" /\ timeExt' = timeExt + 1 /\ UNCHANGED <<cycle, ext, repairs>>
    BY <1>1, <1>3, SalvageOver, FailedOver DEF Act, Over
  <1>4. CASE \E exhausted, headroom, ship \in BOOLEAN :
               \/ Act(Advance(exhausted, funded \/ headroom, ship), funded \/ headroom)
               \/ Act(Advance(FALSE, TRUE, ship), TRUE)
    BY <1>3, <1>4, AgainBound
  <1> QED
    BY <1>2, <1>4 DEF Decide

\* Decide salvages, fails, goes on or ships.
LEMMA DecidePlaces ==
    Decide => Over \/ (pc' \in {"bound", "shipping"} /\ UNCHANGED <<result, pushed>>)
  <1>1. ASSUME NEW d, NEW room, Act(d, room)
        PROVE  Over \/ (pc' \in {"bound", "shipping"} /\ UNCHANGED <<result, pushed>>)
    BY <1>1, SalvageOver, FailedOver DEF Act
  <1> QED
    BY <1>1, SalvageOver DEF Decide

LEMMA RecordedReview == ASSUME NEW r \in Reports, Recorded(r) PROVE review' = r /\ review' # NoReview
  BY DEF Recorded, Reports, Verdicts, NoReview

LEMMA UnpublishedRec ==
    ASSUME NEW s, NEW why, Unpublished(s, why) PROVE pc' = "ended" /\ result'.rec = "none"
  BY DEF Unpublished, EndedAs

LEMMA RoomNext == RoomInv /\ [Next]_vars => RoomInv'
  <1> SUFFICES ASSUME RoomInv, [Next]_vars PROVE RoomInv'
    OBVIOUS
  <1> USE CyclesAssumption DEF RoomInv, Counters, GrantIsACycle, Bound, grants
  <1>1. CASE CycleHead
    BY <1>1 DEF CycleHead
  <1>2. CASE Decide
    BY <1>2, DecideCounts
  <1>3. CASE CiRepair
    BY <1>3 DEF CiRepair
  <1>4. CASE UNCHANGED <<cycle, grants>> /\ pc' # "bound"
    BY <1>4
  <1>5. CASE UNCHANGED <<cycle, grants, pc>>
    BY <1>5
  <1>6. CASE Commit \/ TimePasses \/ UNCHANGED vars
    BY <1>5, <1>6 DEF Commit, TimePasses, vars
  <1>7. CASE SubTasksDone \/ Poll \/ Finish
    BY <1>4, <1>7 DEF SubTasksDone, Poll, Finish, Keep, EndedAs
  <1>8. CASE SubTaskStops
    BY <1>4, <1>8, RescueOver, QuietOver, SalvageOver DEF SubTaskStops, Keep, Over
  <1>9. CASE DailyCap
    BY <1>4, <1>5, <1>9, SalvageOver DEF DailyCap, Keep, Over
  <1>10. CASE LedgerUnreachable \/ PreviewUnavailable \/ NoChange
    BY <1>4, <1>10, FailedOver DEF LedgerUnreachable, PreviewUnavailable, NoChange, Keep, Over
  <1>11. CASE ReviewCrash
    BY <1>4, <1>11, RescueOver, QuietOver DEF ReviewCrash, Keep, Over
  <1>12. CASE ReviewDiscarded
    BY <1>4, <1>12, SalvageOver DEF ReviewDiscarded, Over
  <1>13. CASE Review \/ RuntimeReview
    BY <1>4, <1>13 DEF Review, RuntimeReview, Recorded, Unpublished, EndedAs
  <1>14. CASE Ship
    BY <1>4, <1>14 DEF Ship, Unpublished, EndedAs
  <1> QED
    BY <1>1, <1>2, <1>3, <1>6, <1>7, <1>8, <1>9, <1>10, <1>11, <1>12, <1>13, <1>14 DEF Next, Step

-----------------------------------------------------------------------------

LEMMA JudgedNext == RoomInv /\ JudgedInv /\ [Next]_vars => JudgedInv'
  <1> SUFFICES ASSUME RoomInv, JudgedInv, [Next]_vars PROVE JudgedInv'
    OBVIOUS
  <1> USE DEF JudgedInv, UnreviewedStaysHome, Reviewed, code
  <1>1. CASE CycleHead
    BY <1>1 DEF CycleHead, RoomInv, GrantIsACycle
  <1>2. CASE UNCHANGED <<review, judged>> /\ (Over \/ UNCHANGED <<pc, pushed>>)
    BY <1>2 DEF Over
  <1>3. CASE Commit \/ TimePasses \/ UNCHANGED vars
    BY <1>2, <1>3 DEF Commit, TimePasses, vars
  <1>4. CASE SubTasksDone \/ Poll
    <2>1. UNCHANGED <<review, judged, pushed>>
      BY <1>4 DEF SubTasksDone, Poll, Keep
    <2>2. pc' = "gate" \/ (pc \in Reviewed /\ pc' = "polled")
      BY <1>4 DEF SubTasksDone, Poll
    <2> QED
      BY <2>1, <2>2
  <1>5. CASE SubTaskStops
    BY <1>2, <1>5, RescueOver, QuietOver, SalvageOver DEF SubTaskStops, Keep
  <1>6. CASE DailyCap
    BY <1>2, <1>6, SalvageOver DEF DailyCap, Keep
  <1>7. CASE LedgerUnreachable \/ PreviewUnavailable
    BY <1>2, <1>7, FailedOver DEF LedgerUnreachable, PreviewUnavailable, Keep
  <1>8. CASE NoChange
    BY <1>8, FailedOver DEF NoChange, Keep, Over
  <1>9. CASE ReviewCrash
    BY <1>2, <1>9, RescueOver, QuietOver DEF ReviewCrash, Keep
  <1>10. CASE ReviewDiscarded
    BY <1>10, SalvageOver DEF ReviewDiscarded, Over
  <1>11. CASE Review
    BY <1>11, RecordedReview DEF Review, Recorded, Unpublished, EndedAs
  <1>12. CASE RuntimeReview
    BY <1>12, RecordedReview DEF RuntimeReview, Recorded
  <1>13. CASE Decide
    BY <1>13, DecidePlaces DEF Decide, Over
  <1>14. CASE Ship
    BY <1>14 DEF Ship, Unpublished, EndedAs
  <1>15. CASE CiRepair
    BY <1>15 DEF CiRepair
  <1>16. CASE Finish
    BY <1>16 DEF Finish, Keep, EndedAs
  <1> QED
    BY <1>1, <1>3, <1>4, <1>5, <1>6, <1>7, <1>8, <1>9, <1>10, <1>11, <1>12, <1>13, <1>14, <1>15,
       <1>16 DEF Next, Step

LEMMA SeenNext == RoomInv /\ SeenInv /\ [Next]_vars => SeenInv'
  <1> SUFFICES ASSUME RoomInv, SeenInv, [Next]_vars PROVE SeenInv'
    OBVIOUS
  <1> USE DEF SeenInv, UnseenIsMarked, Reviewed, code
  <1>1. CASE CycleHead
    BY <1>1 DEF CycleHead, RoomInv, GrantIsACycle
  <1>2. CASE UNCHANGED code /\ (Over \/ UNCHANGED <<pc, result>>)
    BY <1>2 DEF Over
  <1>3. CASE TimePasses \/ UNCHANGED vars
    BY <1>2, <1>3 DEF TimePasses, vars
  <1>4. CASE Commit
    BY <1>4 DEF Commit, Going
  <1>5. CASE SubTasksDone \/ Poll
    BY <1>5 DEF SubTasksDone, Poll, Keep
  <1>6. CASE SubTaskStops
    BY <1>2, <1>6, RescueOver, QuietOver, SalvageOver DEF SubTaskStops, Keep
  <1>7. CASE DailyCap
    BY <1>2, <1>7, SalvageOver DEF DailyCap, Keep
  <1>8. CASE LedgerUnreachable \/ PreviewUnavailable
    BY <1>2, <1>8, FailedOver DEF LedgerUnreachable, PreviewUnavailable, Keep
  <1>9. CASE NoChange
    BY <1>2, <1>9, FailedOver DEF NoChange, Keep
  <1>10. CASE ReviewCrash
    BY <1>2, <1>10, RescueOver, QuietOver DEF ReviewCrash, Keep
  <1>11. CASE ReviewDiscarded
    BY <1>2, <1>11, SalvageOver DEF ReviewDiscarded
  <1>12. CASE Review
    <2>1. CASE pc' = "deciding" /\ seen' = TRUE /\ result' = result
      BY <1>12, <2>1 DEF Review, Going
    <2>2. CASE pc' = "previewing" /\ UNCHANGED <<seen, result>>
      BY <1>12, <2>2 DEF Review, Going
    <2>3. CASE pc' = "ended" /\ result'.status = "failed"
      BY <2>3
    <2>4. ASSUME NEW r \in Reports, Recorded(r)
          PROVE  pc' = "deciding" /\ seen' = TRUE /\ result' = result
      BY <2>4 DEF Recorded
    <2>5. ASSUME Unpublished("failed", "other")
          PROVE  pc' = "ended" /\ result'.status = "failed"
      BY <2>5 DEF Unpublished, EndedAs
    <2> QED
      BY <1>12, <2>1, <2>2, <2>3, <2>4, <2>5 DEF Review
  <1>13. CASE RuntimeReview
    BY <1>13 DEF RuntimeReview, Recorded
  <1>14. CASE Decide
    BY <1>2, <1>14, DecidePlaces DEF Decide
  <1>15. CASE Ship
    BY <1>15 DEF Ship, Unpublished, EndedAs
  <1>16. CASE CiRepair
    BY <1>16 DEF CiRepair
  <1>17. CASE Finish
    BY <1>17 DEF Finish, Keep, EndedAs
  <1> QED
    BY <1>1, <1>3, <1>4, <1>5, <1>6, <1>7, <1>8, <1>9, <1>10, <1>11, <1>12, <1>13, <1>14, <1>15,
       <1>16, <1>17 DEF Next, Step

LEMMA VerifiedNext == SeenInv /\ VerifiedInv /\ [Next]_vars => VerifiedInv'
  <1> SUFFICES ASSUME SeenInv, VerifiedInv, [Next]_vars PROVE VerifiedInv'
    OBVIOUS
  <1> USE DEF VerifiedInv, MergeIsVouchedFor, Going
  <1>1. CASE UNCHANGED <<required, verified, ci>> /\ pc \notin {"polled", "ended"}
             /\ (Over \/ result' = result)
    BY <1>1 DEF Over, SeenInv
  <1>2. CASE CycleHead \/ Commit
    BY <1>1, <1>2 DEF CycleHead, Commit
  <1>3. CASE TimePasses \/ UNCHANGED vars
    BY <1>3 DEF TimePasses, vars, code
  <1>4. CASE SubTasksDone \/ SubTaskStops
    BY <1>1, <1>4, RescueOver, QuietOver, SalvageOver DEF SubTasksDone, SubTaskStops, Keep
  <1>5. CASE DailyCap
    BY <1>1, <1>5, SalvageOver DEF DailyCap, Keep
  <1>6. CASE LedgerUnreachable \/ PreviewUnavailable \/ NoChange
    BY <1>1, <1>6, FailedOver DEF LedgerUnreachable, PreviewUnavailable, NoChange, Keep
  <1>7. CASE ReviewCrash
    BY <1>1, <1>7, RescueOver, QuietOver DEF ReviewCrash, Keep
  <1>8. CASE ReviewDiscarded
    BY <1>1, <1>8, SalvageOver DEF ReviewDiscarded
  <1>9. CASE Review \/ RuntimeReview
    BY <1>1, <1>9, UnpublishedRec DEF Review, RuntimeReview, Recorded
  <1>10. CASE Decide
    BY <1>1, <1>10, DecidePlaces DEF Decide
  <1>11. CASE Ship
    BY <1>11, UnpublishedRec DEF Ship, SeenInv
  <1>12. CASE Poll
    BY <1>12 DEF Poll, SeenInv
  <1>13. CASE CiRepair
    BY <1>13 DEF CiRepair, Repairable, SeenInv
  <1>14. CASE Finish
    <2>1. /\ pc' = "ended" /\ result'.rec \in {Recommendation, "none"}
          /\ UNCHANGED <<review, seen, ci, required, verified>>
      BY <1>14 DEF Finish, Keep, EndedAs, code
    <2>2. result'.rec = "merge" => verified
      BY <1>14 DEF Finish, EndedAs
    <2>3. pc = "polled" /\ seen
      BY <1>14 DEF Finish, SeenInv, Reviewed
    <2>4. Recommendation = "merge" =>
             review.verdict # "block" /\ review.blocking = 0 /\ ci \notin Override
      BY DEF Recommendation
    <2>5. MergeIsVouchedFor'
      BY <2>1, <2>2, <2>3, <2>4
    <2> QED
      BY <2>1, <2>5
  <1> QED
    BY <1>2, <1>3, <1>4, <1>5, <1>6, <1>7, <1>8, <1>9, <1>10, <1>11, <1>12, <1>13, <1>14
    DEF Next, Step

-----------------------------------------------------------------------------

LEMMA IInvHolds == Spec => []IInv
  <1>1. IInv /\ [Next]_vars => IInv'
    BY RoomNext, JudgedNext, SeenNext, VerifiedNext DEF IInv
  <1> QED
    BY InitInv, <1>1, PTL DEF Spec

\* For any ceilings: what was granted -- an extension, time, a repair -- is a
\* cycle that begins, for the bound of runInner's `while` has grown with it.
THEOREM GrantHolds == Spec => []GrantIsACycle
  BY IInvHolds, PTL DEF IInv, RoomInv

\* For any session: nothing is pushed that no adversary ever reviewed, on any of
\* runInner's endings.
THEOREM UnreviewedHolds == Spec => []UnreviewedStaysHome
  BY IInvHolds, PTL DEF IInv, JudgedInv

\* For any session: commits the last review did not see are shipped only with
\* needs_human_review.
THEOREM UnseenHolds == Spec => []UnseenIsMarked
  BY IInvHolds, PTL DEF IInv, SeenInv

\* For any session: finalisation recommends a merge only of what the last review
\* saw and CI, the required checks included, did not hold against it.
THEOREM MergeHolds == Spec => []MergeIsVouchedFor
  BY IInvHolds, PTL DEF IInv, VerifiedInv

-----------------------------------------------------------------------------
(* The refinement                                                          *)

LEMMA RunStep == IInv /\ IInv' /\ [Next]_vars => [Run!Next]_(Run!vars)
  <1> SUFFICES ASSUME IInv, IInv', [Next]_vars PROVE Run!Next \/ UNCHANGED Run!vars
    BY DEF Run!vars
  <1> USE DEF Run!vars, Run!Next, Run!Begin, Run!Again, Run!Grant, Run!Publish, Run!End, IInv,
              RoomInv, Counters, GrantIsACycle, Bound, grants
  <1> USE CyclesAssumption
  <1>1. CASE CycleHead
    BY <1>1 DEF CycleHead
  <1>2. CASE Decide
    <2> cycle \in Nat /\ cycle <= Bound /\ MaxCycles \in Nat /\ pc = "deciding"
      BY <1>2 DEF Decide
    <2>1. CASE pc' = "bound" /\ UNCHANGED <<cycle, grants>> /\ cycle < MaxCycles + ext
      <3>1. Bound - cycle > 0 /\ Bound' = Bound
        BY <2>1
      <3> QED
        BY <2>1, <3>1
    <2>3. CASE pc' = "bound" /\ ext' = ext + 1 /\ UNCHANGED <<cycle, timeExt, repairs>>
      <3>1. Bound' - cycle' = (Bound - cycle) + 1
        BY <2>3
      <3> QED
        BY <2>3, <3>1
    <2>4. CASE pc' = "bound" /\ timeExt' = timeExt + 1 /\ UNCHANGED <<cycle, ext, repairs>>
      <3>1. Bound' - cycle' = (Bound - cycle) + 1
        BY <2>4
      <3> QED
        BY <2>4, <3>1
    <2>2. CASE pc' # "bound" /\ UNCHANGED <<cycle, grants>>
      BY <1>2, <2>2, DecidePlaces DEF Decide, Over
    <2> QED
      BY <1>2, <2>1, <2>2, <2>3, <2>4, DecideCounts
  <1>3. CASE CiRepair
    BY <1>3 DEF CiRepair
  <1>4. CASE UNCHANGED <<cycle, grants, pc>>
    BY <1>4
  <1>5. CASE /\ UNCHANGED <<cycle, grants>>
             /\ pc \in {"executing", "gate", "previewing", "deciding"}
             /\ pc' \in {"executing", "gate", "previewing", "deciding", "shipping", "ended"}
    BY <1>5
  <1>6. CASE /\ UNCHANGED <<cycle, grants>> /\ pc \in {"shipping", "published", "polled"}
             /\ pc' \in {"published", "polled", "ended"}
    BY <1>6
  <1>7. CASE Commit \/ TimePasses \/ UNCHANGED vars
    BY <1>4, <1>7 DEF Commit, TimePasses, vars
  <1>8. CASE SubTasksDone \/ SubTaskStops
    BY <1>5, <1>8, RescueOver, QuietOver, SalvageOver DEF SubTasksDone, SubTaskStops, Keep, Over
  <1>9. CASE DailyCap
    BY <1>4, <1>5, <1>9, SalvageOver DEF DailyCap, Keep, Over
  <1>10. CASE LedgerUnreachable \/ PreviewUnavailable \/ NoChange
    BY <1>5, <1>10, FailedOver DEF LedgerUnreachable, PreviewUnavailable, NoChange, Keep, Over
  <1>11. CASE ReviewCrash
    BY <1>5, <1>11, RescueOver, QuietOver DEF ReviewCrash, Keep, Over
  <1>12. CASE ReviewDiscarded
    BY <1>5, <1>12, SalvageOver DEF ReviewDiscarded, Over
  <1>13. CASE Review \/ RuntimeReview
    BY <1>5, <1>13 DEF Review, RuntimeReview, Recorded, Unpublished, EndedAs
  <1>14. CASE Ship \/ Poll \/ Finish
    BY <1>6, <1>14 DEF Ship, Poll, Finish, Keep, Unpublished, EndedAs
  <1> QED
    BY <1>1, <1>2, <1>3, <1>7, <1>8, <1>9, <1>10, <1>11, <1>12, <1>13, <1>14 DEF Next, Step

\* For any ceilings: runInner begins cycles only against an allowance that
\* nothing but a grant raises, and never comes back to `while` without one.
THEOREM Refines == Spec => CyclesAreGranted
  <1>1. Init => Run!Init
    BY CyclesAssumption DEF Init, Run!Init, Bound
  <1> QED
    BY <1>1, IInvHolds, RunStep, PTL DEF Spec, CyclesAreGranted, Run!Spec
=============================================================================
