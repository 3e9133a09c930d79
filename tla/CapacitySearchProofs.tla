------------------------ MODULE CapacitySearchProofs ------------------------
(***************************************************************************)
(* Proofs about CapacitySearch: what its answers mean, for every oracle,   *)
(* every request and every bound.  All of them follow from one inductive   *)
(* invariant, TypeOK /\ Bracket.                                           *)
(***************************************************************************)
EXTENDS CapacitySearch, TLAPS

Inv == TypeOK /\ Bracket

\* A midpoint of a bracket wider than one unit or less lies between its ends.
LEMMA MidpointBetween ==
  ASSUME NEW low \in Int, NEW high \in Int, low < high,
         NEW mw \in {(low + high) \div 2, (low + high + 1) \div 2}
  PROVE  mw \in Int /\ low <= mw /\ mw <= high
  OBVIOUS

\* The search starts in the invariant.
LEMMA InitInv == Init => Inv
  BY SearchAssumption
     DEF Init, Inv, TypeOK, Bracket, Request, Result, NoResult, MW

\* A search that finishes keeps its types, whichever answer it gives.
LEMMA FinishInv ==
  ASSUME Inv, NEW status \in {"min_bound_rejected", "max_bound_approved", "bounded",
                              "iteration_limit", "monotonicity_fallback"},
         NEW best \in MW \cup {None}, NEW rejected \in MW \cup {None},
         Finish(status, best, rejected), samples' \subseteq MW
  PROVE  Inv'
  BY DEF Inv, TypeOK, Bracket, Finish, Result, Request, MW

\* While it bisects, no midpoint contradicts the samples before it.
LEMMA BisectionNeverContradicts ==
  ASSUME Inv, pc = "bisect", NEW mw \in Midpoints
  PROVE  /\ mw \in MW
         /\ lower_mw <= mw /\ mw <= upper_mw
         /\ ~Contradictory(samples \cup {mw})
  <1>1. /\ lower_mw \in Int /\ upper_mw \in Int /\ lower_mw < upper_mw
        /\ 0 <= lower_mw /\ upper_mw <= Top
    BY SearchAssumption DEF Inv, TypeOK, Bracket, MW
  <1>2. mw \in Int /\ lower_mw <= mw /\ mw <= upper_mw
    BY <1>1, MidpointBetween DEF Midpoints
  <1>3. mw \in MW
    BY <1>1, <1>2, SearchAssumption DEF MW
  <1>4. ASSUME NEW low \in samples \cup {mw}, NEW high \in samples \cup {mw},
               low < high, ~accepts[low], accepts[high]
        PROVE  FALSE
    <2>1. low \in Int /\ high \in Int
      BY <1>2 DEF Inv, TypeOK, MW
    <2>2. low = mw \/ upper_mw <= low
      BY <1>4 DEF Inv, Bracket
    <2>3. high = mw \/ high <= lower_mw
      BY <1>4 DEF Inv, Bracket
    <2> QED  BY <1>1, <1>2, <1>4, <2>1, <2>2, <2>3
  <1> QED  BY <1>2, <1>3, <1>4 DEF Contradictory

\* Every step of the search preserves the invariant.
LEMMA StepInv == Inv /\ [Next]_vars => Inv'
  <1> SUFFICES ASSUME Inv, [Next]_vars PROVE Inv'
    OBVIOUS
  <1>a. /\ request.min \in MW /\ request.max \in MW /\ request.min <= request.max
        /\ request.min \in Int /\ request.max \in Int
    BY SearchAssumption DEF Inv, TypeOK, Request, MW
  <1>1. CASE EvaluateBounds
    BY <1>1, <1>a DEF EvaluateBounds, Inv, TypeOK, Bracket
  <1>2. CASE BoundsContradict
    <2>1. /\ samples = {request.min, request.max} /\ iterations = 0
          /\ Contradictory({request.min, request.max})
      BY <1>2 DEF BoundsContradict, Inv, Bracket
    <2>2. Contradictory({request.min, request.max})'
      BY <1>2, <2>1 DEF BoundsContradict, Contradictory
    <2> QED  BY <1>2, <2>1, <2>2 DEF BoundsContradict, Inv, TypeOK, Bracket
  <1>3. CASE MinimumRejected
    BY <1>3, <1>a, FinishInv DEF MinimumRejected, Inv, TypeOK
  <1>4. CASE MaximumApproved
    BY <1>4, <1>a, FinishInv DEF MaximumApproved, Inv, TypeOK
  <1>5. CASE StartBisection
    <2>1. samples = {request.min, request.max} /\ lower_mw = request.min
          /\ upper_mw = request.max
      BY <1>5 DEF StartBisection, Inv, Bracket
    <2>2. request.min < request.max
      BY <1>5, <1>a DEF StartBisection
    <2> QED  BY <1>5, <1>a, <2>1, <2>2 DEF StartBisection, Inv, TypeOK, Bracket
  <1>6. CASE Bisect
    <2>1. PICK mw \in Midpoints :
            /\ samples' = samples \cup {mw}
            /\ lower_mw' = (IF accepts[mw] THEN mw ELSE lower_mw)
            /\ upper_mw' = (IF accepts[mw] THEN upper_mw ELSE mw)
            /\ iterations' = iterations + 1
            /\ pc' = pc
      BY <1>6, BisectionNeverContradicts DEF Bisect
    <2>2. mw \in MW /\ mw \in Int /\ lower_mw <= mw /\ mw <= upper_mw
      <3>1. mw \in MW /\ lower_mw <= mw /\ mw <= upper_mw
        BY <1>6, BisectionNeverContradicts DEF Bisect
      <3> QED  BY <3>1 DEF MW
    <2>3. lower_mw \in Int /\ upper_mw \in Int /\ lower_mw < upper_mw
      BY <1>6, SearchAssumption DEF Bisect, Inv, TypeOK, Bracket, MW
    <2>4. TypeOK'
      BY <1>6, <2>1, <2>2 DEF Bisect, Inv, TypeOK, Request, MW
    <2>5. lower_mw' < upper_mw'
      <3>1. accepts[lower_mw] /\ ~accepts[upper_mw]
        BY <1>6, <2>3 DEF Bisect, Inv, Bracket
      <3> QED  BY <2>1, <2>2, <2>3, <3>1
    <2>6. ASSUME NEW m \in samples'
          PROVE  IF accepts[m] THEN m <= lower_mw' ELSE upper_mw' <= m
      <3>1. m \in Int
        BY <2>1, <2>2 DEF Inv, TypeOK, MW
      <3>2. CASE m = mw
        BY <2>1, <2>2, <3>2
      <3>3. CASE m \in samples
        BY <1>6, <2>1, <2>2, <2>3, <3>1, <3>3 DEF Bisect, Inv, Bracket
      <3> QED  BY <2>1, <3>2, <3>3
    <2> QED
      BY <1>6, <1>a, <2>1, <2>2, <2>3, <2>4, <2>5, <2>6 DEF Bisect, Inv, Bracket
  <1>7. CASE Stop
    BY <1>7, FinishInv DEF Stop, Inv, TypeOK
  <1>8. CASE CoarseScan
    <2>1. ScanPoints \subseteq request.min..request.max
      BY Zenon DEF ScanPoints
    <2>2. request.min..request.max \subseteq MW
      BY <1>a, SearchAssumption DEF MW
    <2>3. samples' \subseteq MW
      BY <1>8, <2>1, <2>2 DEF CoarseScan, Inv, TypeOK
    <2> QED  BY <1>8, <2>3, FinishInv DEF CoarseScan
  <1>9. CASE UNCHANGED vars
    BY <1>9 DEF vars, Inv, TypeOK, Bracket, Contradictory
  <1> QED
    BY <1>1, <1>2, <1>3, <1>4, <1>5, <1>6, <1>7, <1>8, <1>9 DEF Next

\* The invariant of every search, for every oracle and request.
THEOREM SearchInvariant == Spec => []Inv
  BY InitInv, StepInv, PTL DEF Spec

\* The search is type-correct: in particular the loop never makes more than
\* max_iterations passes.
THEOREM TypeCorrect == Spec => []TypeOK
  BY SearchInvariant, PTL DEF Inv

\* A bisecting search always holds a bracket.
THEOREM BracketHolds == Spec => []Bracket
  BY SearchInvariant, PTL DEF Inv

-----------------------------------------------------------------------------
(* The answers: each is right when it is given, and is not changed after.   *)

Answers == BoundaryIsReported /\ MonotoneIsExact /\ ContradictionFallsBack
             /\ FallbackIsMaximum

\* The request's bounds, and the one accepted or rejected below the other.
LEMMA RequestBounds ==
  ASSUME Inv
  PROVE  /\ request.min \in Int /\ request.max \in Int /\ request.min <= request.max
         /\ request.min \in MW /\ request.max \in MW
         /\ request.tolerance \in Int /\ request.iterations \in Int
         /\ None \notin Int
  BY SearchAssumption DEF Inv, TypeOK, Request, MW

\* An answer other than a fallback that leaves the samples without contradiction
\* has only its boundary to show, and "bounded" its precision.
LEMMA PlainAnswer ==
  ASSUME NEW status \in {"min_bound_rejected", "max_bound_approved", "bounded",
                         "iteration_limit"},
         NEW best, NEW rejected, Finish(status, best, rejected), samples' = samples,
         ~Contradictory(samples), Boundary(samples, best, rejected),
         status = "bounded" => MonotoneIsExact'
  PROVE  Answers'
  <1>1. accepts' = accepts /\ result'.status = status
        /\ result'.best_approved = best /\ result'.first_rejected = rejected
    BY DEF Finish
  <1>2. BoundaryIsReported'
    BY <1>1 DEF BoundaryIsReported, Boundary, IsHighest, IsLowest
  <1>3. ContradictionFallsBack'
    BY <1>1 DEF ContradictionFallsBack, Contradictory
  <1>4. FallbackIsMaximum'
    BY <1>1 DEF FallbackIsMaximum
  <1>5. MonotoneIsExact'
    BY <1>1 DEF MonotoneIsExact
  <1> QED  BY <1>2, <1>3, <1>4, <1>5 DEF Answers

\* Nothing accepted: the highest accepted sample does not exist.
LEMMA MinimumRejectedAnswers == Inv /\ MinimumRejected => Answers'
  <1> SUFFICES ASSUME Inv, MinimumRejected PROVE Answers'
    OBVIOUS
  <1>1. samples = {request.min, request.max} /\ ~Contradictory(samples)
        /\ ~accepts[request.min]
    BY DEF MinimumRejected, Inv, Bracket
  <1>2. ~accepts[request.max]
    BY <1>1, RequestBounds DEF Contradictory
  <1>3. Boundary(samples, None, request.min)
    BY <1>1, <1>2, RequestBounds DEF Boundary, IsLowest
  <1> QED  BY <1>1, <1>3, PlainAnswer DEF MinimumRejected

\* Both bounds accepted: nothing is rejected.
LEMMA MaximumApprovedAnswers == Inv /\ MaximumApproved => Answers'
  <1> SUFFICES ASSUME Inv, MaximumApproved PROVE Answers'
    OBVIOUS
  <1>1. samples = {request.min, request.max} /\ accepts[request.min]
        /\ accepts[request.max]
    BY DEF MaximumApproved, Inv, Bracket
  <1>2. ~Contradictory(samples)
    BY <1>1 DEF Contradictory
  <1>3. Boundary(samples, request.max, None)
    BY <1>1, RequestBounds DEF Boundary, IsHighest
  <1> QED  BY <1>1, <1>2, <1>3, PlainAnswer DEF MaximumApproved

\* The bracket is the boundary of the samples, and bounds what a monotone oracle
\* accepts.
LEMMA StopAnswers == Inv /\ Stop => Answers'
  <1> SUFFICES ASSUME Inv, Stop PROVE Answers'
    OBVIOUS
  <1> DEFINE status == IF Wide THEN "iteration_limit" ELSE "bounded"
  <1>1. /\ lower_mw \in Int /\ upper_mw \in Int /\ lower_mw < upper_mw
        /\ lower_mw \in samples /\ upper_mw \in samples
        /\ request.min <= lower_mw /\ upper_mw <= request.max
        /\ \A mw \in samples : mw \in Int
        /\ \A mw \in samples : IF accepts[mw] THEN mw <= lower_mw ELSE upper_mw <= mw
    BY SearchAssumption DEF Stop, Inv, TypeOK, Bracket, MW
  <1>2. accepts[lower_mw] /\ ~accepts[upper_mw]
    BY <1>1
  <1>3. ~Contradictory(samples)
    <2> SUFFICES ASSUME NEW low \in samples, NEW high \in samples, low < high,
                        ~accepts[low], accepts[high]
                 PROVE  FALSE
      BY DEF Contradictory
    <2> QED  BY <1>1
  <1>4. Boundary(samples, lower_mw, upper_mw)
    <2>1. IsHighest(lower_mw, {mw \in samples : accepts[mw]})
      BY <1>1, <1>2 DEF IsHighest
    <2>2. IsLowest(upper_mw, {mw \in samples : ~accepts[mw] /\ (lower_mw # None => lower_mw < mw)})
      BY <1>1, <1>2 DEF IsLowest
    <2> QED  BY <2>1, <2>2 DEF Boundary, IsHighest, IsLowest
  <1>5. status = "bounded" => MonotoneIsExact'
    <2> SUFFICES ASSUME status = "bounded", Monotone',
                        NEW mw \in request.min..request.max, accepts[mw]
                 PROVE  mw - lower_mw < request.tolerance
      BY DEF MonotoneIsExact, Stop, Finish
    <2>1. ~Wide
      OBVIOUS
    <2>2. upper_mw - lower_mw <= request.tolerance
      BY <1>1, <2>1, RequestBounds DEF Wide
    <2>3. ASSUME upper_mw < mw PROVE FALSE
      <3>1. upper_mw \in request.min..request.max
        BY <1>1, RequestBounds
      <3> QED  BY <1>2, <2>3, <3>1 DEF Monotone, Stop, Finish
    <2>4. mw < upper_mw
      BY <1>1, <1>2, <2>3, RequestBounds
    <2> QED  BY <1>1, <2>2, <2>4, RequestBounds
  <1> QED
    <2>1. /\ Finish(status, lower_mw, upper_mw) /\ samples' = samples
          /\ status \in {"bounded", "iteration_limit"}
      BY DEF Stop
    <2> HIDE DEF status
    <2> QED  BY <1>3, <1>4, <1>5, <2>1, PlainAnswer

\* The two bounds decide the answer after a scan.
LEMMA CoarseScanAnswers == Inv /\ CoarseScan => Answers'
  <1> SUFFICES ASSUME Inv, CoarseScan PROVE Answers'
    OBVIOUS
  <1>1. /\ samples = {request.min, request.max} /\ iterations = 0
        /\ Contradictory({request.min, request.max})
    BY DEF CoarseScan, Inv, Bracket
  <1>2. accepts[request.max]
    BY <1>1, RequestBounds DEF Contradictory
  <1>3. PICK best \in MW \cup {None}, rejected \in MW \cup {None} :
          /\ Boundary(samples', best, rejected)
          /\ Finish("monotonicity_fallback", best, rejected)
    BY DEF CoarseScan
  <1>4. /\ accepts' = accepts /\ request' = request /\ iterations' = 0
        /\ result'.status = "monotonicity_fallback"
        /\ result'.best_approved = best /\ result'.first_rejected = rejected
    BY <1>1, <1>3 DEF Finish
  <1>5. /\ request.max \in samples' /\ request.min \in samples'
        /\ \A mw \in samples' : mw \in Int /\ mw <= request.max
    <2>1. ScanPoints \subseteq request.min..request.max
      BY Zenon DEF ScanPoints
    <2>2. samples' = {request.min, request.max} \cup ScanPoints
      BY <1>1 DEF CoarseScan
    <2>3. ASSUME NEW mw \in samples' PROVE mw \in Int /\ mw <= request.max
      <3>1. mw \in request.min..request.max \/ mw \in {request.min, request.max}
        BY <2>1, <2>2
      <3> QED  BY <3>1, RequestBounds
    <2> QED  BY <2>2, <2>3
  <1>6. BoundaryIsReported'
    BY <1>3, <1>4 DEF BoundaryIsReported, Boundary, IsHighest, IsLowest
  <1>7. ContradictionFallsBack'
    BY <1>1, <1>4, <1>5 DEF ContradictionFallsBack, Contradictory
  <1>8. best = request.max
    <2>1. IsHighest(best, {mw \in samples' : accepts[mw]})
      BY <1>2, <1>3, <1>5 DEF Boundary, IsHighest
    <2>2. best \in samples' /\ request.max <= best
      BY <1>2, <1>5, <2>1 DEF IsHighest
    <2> QED  BY <1>5, <2>2, RequestBounds
  <1>9. rejected = None
    <2>1. {mw \in samples' : ~accepts[mw] /\ (best # None => best < mw)} = {}
      BY <1>5, <1>8, RequestBounds
    <2> QED  BY <1>3, <2>1 DEF Boundary
  <1>10. FallbackIsMaximum' /\ MonotoneIsExact'
    BY <1>4, <1>8, <1>9 DEF FallbackIsMaximum, MonotoneIsExact
  <1> QED  BY <1>6, <1>7, <1>10 DEF Answers

\* An answer is the end of the search.
LEMMA AnswersStay == pc = "done" /\ [Next]_vars => UNCHANGED vars
  BY DEF Next, EvaluateBounds, BoundsContradict, MinimumRejected, MaximumApproved,
         StartBisection, Bisect, Stop, CoarseScan

\* Every step keeps the answers right.
LEMMA StepAnswers == Inv /\ Answers /\ [Next]_vars => Answers'
  <1> SUFFICES ASSUME Inv, Answers, [Next]_vars PROVE Answers'
    OBVIOUS
  <1>1. CASE UNCHANGED vars
    BY <1>1 DEF vars, Answers, BoundaryIsReported, Boundary, MonotoneIsExact, Monotone,
                ContradictionFallsBack, Contradictory, FallbackIsMaximum
  <1>2. CASE pc' # "done"
    BY <1>2 DEF Answers, BoundaryIsReported, MonotoneIsExact, ContradictionFallsBack,
                FallbackIsMaximum
  <1>3. CASE EvaluateBounds \/ BoundsContradict \/ StartBisection \/ Bisect
    <2>1. pc' # "done"
      BY <1>3 DEF EvaluateBounds, BoundsContradict, StartBisection, Bisect
    <2> QED  BY <1>2, <2>1
  <1> QED
    BY <1>1, <1>3, MinimumRejectedAnswers, MaximumApprovedAnswers, StopAnswers,
       CoarseScanAnswers DEF Next

\* Every answer of every search is right.
THEOREM AnswersRight == Spec => []Answers
  <1>1. Init => Answers
    BY DEF Init, Answers, BoundaryIsReported, MonotoneIsExact, ContradictionFallsBack,
           FallbackIsMaximum
  <1> QED  BY <1>1, StepAnswers, SearchInvariant, PTL DEF Spec

\* best_approved and first_rejected are the boundary of the samples.
THEOREM BoundaryReported == Spec => []BoundaryIsReported
  BY AnswersRight, PTL DEF Answers

\* With a monotone oracle a bounded answer is exact to the tolerance.
THEOREM MonotoneExact == Spec => []MonotoneIsExact
  BY AnswersRight, PTL DEF Answers

\* Contradictory samples and the fallback go together.
THEOREM ContradictionsFallBack == Spec => []ContradictionFallsBack
  BY AnswersRight, PTL DEF Answers

\* A fallback answers max_mw, and is never reached from the loop.
THEOREM FallbackMaximum == Spec => []FallbackIsMaximum
  BY AnswersRight, PTL DEF Answers
-----------------------------------------------------------------------------
(* The way to the end: fairness and ENABLED apart, what SearchEnds rests on. *)

\* The guards of the actions of Next; the scan needs an answer to give.
Goes ==
  \/ pc = "bounds"
  \/ pc = "decide" /\ \/ Contradictory(samples)
                      \/ ~Contradictory(samples) /\ ~accepts[request.min]
                      \/ accepts[request.min]
  \/ pc = "bisect" /\ \/ Wide /\ iterations < request.iterations
                      \/ ~Wide \/ iterations >= request.iterations
  \/ pc = "scan" /\ \E best, rejected \in MW \cup {None} :
                      Boundary(samples \cup ScanPoints, best, rejected)

\* Until it has its answer, the search can go on.
GoesOn == pc # "done" => Goes

\* A search that bisects has a next midpoint or ends, and the scan after a
\* contradiction always finds a boundary to report, whatever the oracle says.
THEOREM SearchGoesOn == Spec => []GoesOn
  <1>1. ASSUME Inv, pc = "scan"
        PROVE  Boundary(samples \cup ScanPoints, request.max, None) /\ request.max \in MW
    <2> DEFINE evaluated == samples \cup ScanPoints
    <2>1. /\ samples = {request.min, request.max}
          /\ Contradictory({request.min, request.max})
      BY <1>1 DEF Inv, Bracket
    <2>2. accepts[request.max]
      BY <1>1, <2>1, RequestBounds DEF Contradictory
    <2>3. ScanPoints \subseteq request.min..request.max
      BY Zenon DEF ScanPoints
    <2>4. request.max \in evaluated
      BY <2>1
    <2>5. ASSUME NEW mw \in evaluated PROVE mw \in Int /\ mw <= request.max
      <3>1. mw \in request.min..request.max \/ mw \in {request.min, request.max}
        BY <2>1, <2>3
      <3> QED  BY <1>1, <3>1, RequestBounds
    <2> HIDE DEF evaluated
    <2>6. IsHighest(request.max, {mw \in evaluated : accepts[mw]})
      BY <2>2, <2>4, <2>5 DEF IsHighest
    <2>7. {mw \in evaluated : ~accepts[mw] /\ (request.max # None => request.max < mw)} = {}
      BY <1>1, <2>5, RequestBounds, SearchAssumption
    <2>8. Boundary(evaluated, request.max, None)
      BY <2>2, <2>4, <2>6, <2>7 DEF Boundary
    <2> QED  BY <1>1, <2>8 DEF evaluated, Inv, TypeOK, Request
  <1>2. ASSUME Inv, pc # "done" PROVE Goes
    <2>1. CASE pc \in {"bounds", "decide"}
      BY <2>1 DEF Goes
    <2>2. CASE pc = "bisect"
      <3>1. iterations \in Nat /\ request.iterations \in Nat
        BY <1>2, SearchAssumption DEF Inv, TypeOK, Request
      <3>2. iterations < request.iterations \/ iterations >= request.iterations
        BY <3>1
      <3> QED  BY <2>2, <3>2 DEF Goes
    <2>3. CASE pc = "scan"
      BY <1>1, <1>2, <2>3 DEF Goes
    <2> QED  BY <1>2, <2>1, <2>2, <2>3 DEF Inv, TypeOK
  <1>3. Inv => GoesOn
    BY <1>2 DEF GoesOn
  <1> QED  BY <1>3, SearchInvariant, PTL

\* How many steps are left at most.
StepsLeft ==
  IF pc = "bounds" THEN request.iterations + 3
  ELSE IF pc = "decide" THEN request.iterations + 2
  ELSE IF pc = "bisect" THEN request.iterations - iterations + 1
  ELSE IF pc = "scan" THEN 1 ELSE 0

\* Every step of every search brings it nearer to its end, also one whose
\* midpoint no longer moves: it takes at most max_iterations and three more.
THEOREM SearchShortens ==
  Spec => /\ [](StepsLeft \in 0..(MaxIterations + 3))
          /\ [][StepsLeft' < StepsLeft]_vars
  <1>1. ASSUME Inv PROVE StepsLeft \in 0..(MaxIterations + 3)
    <2>1. /\ request.iterations \in 1..MaxIterations /\ MaxIterations \in Nat
          /\ iterations \in 0..request.iterations
      BY <1>1, SearchAssumption DEF Inv, TypeOK, Request
    <2> QED  BY <2>1 DEF StepsLeft
  <1>2. ASSUME Inv, Next PROVE StepsLeft' < StepsLeft
    <2>1. /\ request.iterations \in Nat /\ request.iterations > 0 /\ iterations \in Nat
          /\ iterations <= request.iterations
      BY <1>2, SearchAssumption DEF Inv, TypeOK, Request
    <2>2. CASE EvaluateBounds \/ BoundsContradict \/ StartBisection
      BY <2>1, <2>2 DEF EvaluateBounds, BoundsContradict, StartBisection, StepsLeft
    <2>3. CASE MinimumRejected \/ MaximumApproved \/ Stop
      BY <2>1, <2>3 DEF MinimumRejected, MaximumApproved, Stop, Finish, StepsLeft
    <2>4. CASE Bisect
      BY <2>1, <2>4 DEF Bisect, StepsLeft
    <2>5. CASE CoarseScan
      BY <2>5 DEF CoarseScan, Finish, StepsLeft
    <2> QED  BY <1>2, <2>2, <2>3, <2>4, <2>5 DEF Next
  <1>3. Inv /\ [Next]_vars => [StepsLeft' < StepsLeft]_vars
    BY <1>2
  <1> QED  BY <1>1, <1>3, SearchInvariant, PTL DEF Spec

=============================================================================
