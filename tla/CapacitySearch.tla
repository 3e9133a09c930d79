--------------------------- MODULE CapacitySearch ---------------------------
(***************************************************************************)
(* The hosting-capacity search: bisection over [min_mw, max_mw] with the   *)
(* CIA pipeline as its oracle, and the coarse scan it falls back to when   *)
(* the oracle's answers are not monotone.                                  *)
(*                                                                         *)
(* Source: CapacitySearchRunner of src/Code/gridmind_mini/capacity.py.     *)
(*                                                                         *)
(* MW values are counted in units of the search's own resolution: evaluate *)
(* rounds a value to 9 decimals and never runs the CIA twice for one key,  *)
(* so a midpoint of two neighbours is one of the two, and a tolerance of 0 *)
(* stands for a positive one below the resolution.                         *)
(*                                                                         *)
(* Abstracted: the CIA of a fresh solver is a function of the MW value,    *)
(* and of its report only "ok and recommendation is approve" is kept.  An  *)
(* exception of the CIA ends the search without a result.                  *)
(***************************************************************************)
EXTENDS Integers

CONSTANTS
  Top,            \* bound: the largest MW value
  MaxTolerance,   \* bound: the largest tolerance_mw
  MaxIterations,  \* bound: the largest max_iterations
  MaxScan,        \* bound: the largest coarse_scan_points
  None            \* no such MW value

ASSUME SearchAssumption ==
  /\ Top \in Nat /\ MaxTolerance \in Nat /\ MaxIterations \in Nat /\ MaxScan \in Nat
  /\ None \notin Int

VARIABLES
  accepts,        \* the oracle: is the connection of that size approved
  request,        \* the arguments of the call
  pc,
  samples,        \* samples_by_key: the MW values evaluated
  lower_mw, upper_mw, iterations,
  result

vars == <<accepts, request, pc, samples, lower_mw, upper_mw, iterations, result>>

MW == 0..Top

\* The arguments _validate_search_bounds lets through.
Request ==
  {r \in [min : MW, max : MW, tolerance : 0..MaxTolerance,
          iterations : 1..MaxIterations, scan : 2..MaxScan] : r.min <= r.max}

Result == [status : {"none", "min_bound_rejected", "max_bound_approved", "bounded",
                     "iteration_limit", "monotonicity_fallback"},
           best_approved : MW \cup {None}, first_rejected : MW \cup {None}]
NoResult == [status |-> "none", best_approved |-> None, first_rejected |-> None]

TypeOK ==
  /\ accepts \in [MW -> BOOLEAN]
  /\ request \in Request
  /\ pc \in {"bounds", "decide", "bisect", "scan", "done"}
  /\ samples \subseteq MW
  /\ lower_mw \in MW
  /\ upper_mw \in MW
  /\ iterations \in 0..request.iterations
  /\ result \in Result

Init ==
  /\ accepts \in [MW -> BOOLEAN]
  /\ request \in Request
  /\ pc = "bounds"
  /\ samples = {}
  /\ lower_mw = request.min
  /\ upper_mw = request.max
  /\ iterations = 0
  /\ result = NoResult

-----------------------------------------------------------------------------
\* _monotonicity_contradictions: a rejected value below an accepted one.
Contradictory(evaluated) ==
  \E low, high \in evaluated : low < high /\ ~accepts[low] /\ accepts[high]

Finish(status, best, rejected) ==
  /\ pc' = "done"
  /\ result' = [status |-> status, best_approved |-> best, first_rejected |-> rejected]
  /\ UNCHANGED <<accepts, request, lower_mw, upper_mw, iterations>>

EvaluateBounds ==
  /\ pc = "bounds"
  /\ pc' = "decide"
  /\ samples' = {request.min, request.max}
  /\ UNCHANGED <<accepts, request, lower_mw, upper_mw, iterations, result>>

BoundsContradict ==
  /\ pc = "decide"
  /\ Contradictory(samples)
  /\ pc' = "scan"
  /\ UNCHANGED <<accepts, request, samples, lower_mw, upper_mw, iterations, result>>

MinimumRejected ==
  /\ pc = "decide"
  /\ ~Contradictory(samples)
  /\ ~accepts[request.min]
  /\ Finish("min_bound_rejected", None, request.min)
  /\ UNCHANGED samples

MaximumApproved ==
  /\ pc = "decide"
  /\ accepts[request.min]
  /\ accepts[request.max]
  /\ Finish("max_bound_approved", request.max, None)
  /\ UNCHANGED samples

StartBisection ==
  /\ pc = "decide"
  /\ accepts[request.min]
  /\ ~accepts[request.max]
  /\ pc' = "bisect"
  /\ UNCHANGED <<accepts, request, samples, lower_mw, upper_mw, iterations, result>>

\* (lower_mw + upper_mw) / 2.0 falls on one of these keys.
Midpoints == {(lower_mw + upper_mw) \div 2, (lower_mw + upper_mw + 1) \div 2}

Wide == upper_mw - lower_mw > request.tolerance

\* Mutant of Bisect: the passes of the loop are not counted.
BisectUncounted ==
  /\ pc = "bisect"
  /\ Wide
  /\ \E mw \in Midpoints :
       /\ samples' = samples \cup {mw}
       /\ lower_mw' = IF accepts[mw] THEN mw ELSE lower_mw
       /\ upper_mw' = IF accepts[mw] THEN upper_mw ELSE mw
  /\ UNCHANGED <<accepts, request, pc, iterations, result>>

\* Mutant of Bisect: a midpoint moves the end it disagrees with.
BisectSwapped ==
  /\ pc = "bisect"
  /\ Wide
  /\ iterations < request.iterations
  /\ \E mw \in Midpoints :
       /\ samples' = samples \cup {mw}
       /\ IF Contradictory(samples \cup {mw})
          THEN pc' = "scan" /\ UNCHANGED <<lower_mw, upper_mw, iterations>>
          ELSE /\ lower_mw' = IF accepts[mw] THEN lower_mw ELSE mw
               /\ upper_mw' = IF accepts[mw] THEN mw ELSE upper_mw
               /\ iterations' = iterations + 1
               /\ pc' = pc
  /\ UNCHANGED <<accepts, request, result>>

\* One pass of the loop: a contradiction leaves it before the pass is counted,
\* otherwise the midpoint replaces the end it agrees with.
Bisect ==
  /\ pc = "bisect"
  /\ Wide
  /\ iterations < request.iterations
  /\ \E mw \in Midpoints :
       /\ samples' = samples \cup {mw}
       /\ IF Contradictory(samples \cup {mw})
          THEN pc' = "scan" /\ UNCHANGED <<lower_mw, upper_mw, iterations>>
          ELSE /\ lower_mw' = IF accepts[mw] THEN mw ELSE lower_mw
               /\ upper_mw' = IF accepts[mw] THEN upper_mw ELSE mw
               /\ iterations' = iterations + 1
               /\ pc' = pc
  /\ UNCHANGED <<accepts, request, result>>

\* Mutant of Stop: the iteration limit is not told apart.
StopBounded ==
  /\ pc = "bisect"
  /\ ~Wide \/ iterations >= request.iterations
  /\ Finish("bounded", lower_mw, upper_mw)
  /\ UNCHANGED samples

\* Mutant of Stop: first_rejected stays the sample of the upper bound.
StopReportsMaximum ==
  /\ pc = "bisect"
  /\ ~Wide \/ iterations >= request.iterations
  /\ Finish(IF Wide THEN "iteration_limit" ELSE "bounded", lower_mw, request.max)
  /\ UNCHANGED samples

Stop ==
  /\ pc = "bisect"
  /\ ~Wide \/ iterations >= request.iterations
  /\ Finish(IF Wide THEN "iteration_limit" ELSE "bounded", lower_mw, upper_mw)
  /\ UNCHANGED samples

\* min_mw + (max_mw - min_mw) * index / (coarse_scan_points - 1), rounded.
ScanPoints ==
  {mw \in request.min..request.max :
     \E index \in 0..(request.scan - 1) :
       LET gaps == request.scan - 1
           error == gaps * (mw - request.min) - index * (request.max - request.min)
       IN -gaps < 2 * error /\ 2 * error <= gaps}

IsHighest(mw, S) == mw \in S /\ \A other \in S : other <= mw
IsLowest(mw, S) == mw \in S /\ \A other \in S : mw <= other

\* The highest accepted sample, and the lowest rejected one above it.
Boundary(evaluated, best, rejected) ==
  LET approved == {mw \in evaluated : accepts[mw]}
      above == {mw \in evaluated : ~accepts[mw] /\ (best # None => best < mw)}
  IN
  /\ IF approved = {} THEN best = None ELSE IsHighest(best, approved)
  /\ IF above = {} THEN rejected = None ELSE IsLowest(rejected, above)

CoarseScan ==
  /\ pc = "scan"
  /\ samples' = samples \cup ScanPoints
  /\ \E best, rejected \in MW \cup {None} :
       /\ Boundary(samples \cup ScanPoints, best, rejected)
       /\ Finish("monotonicity_fallback", best, rejected)

Next ==
  \/ EvaluateBounds
  \/ BoundsContradict
  \/ MinimumRejected
  \/ MaximumApproved
  \/ StartBisection
  \/ Bisect
  \/ Stop
  \/ CoarseScan

Spec == Init /\ [][Next]_vars
FairSpec == Spec /\ WF_vars(Next)

-----------------------------------------------------------------------------
(* Properties *)

\* While it bisects the search holds a bracket: every sample up to lower_mw is
\* accepted, every sample from upper_mw on is rejected, and there is none in
\* between.  This is what makes the results below true of any oracle.
Bracket ==
  /\ pc \in {"bounds", "decide"} =>
       lower_mw = request.min /\ upper_mw = request.max /\ iterations = 0
  /\ pc = "decide" => samples = {request.min, request.max}
  /\ pc = "bisect" =>
       /\ {lower_mw, upper_mw} \subseteq samples
       /\ request.min <= lower_mw /\ lower_mw < upper_mw /\ upper_mw <= request.max
       /\ \A mw \in samples : IF accepts[mw] THEN mw <= lower_mw ELSE upper_mw <= mw
  /\ pc = "scan" => /\ Contradictory({request.min, request.max})
                    /\ samples = {request.min, request.max}
                    /\ iterations = 0

\* The answer is the one the README promises for any set of samples:
\* best_approved is the highest accepted sample and first_rejected the nearest
\* rejected one above it, however the search came to its end.
BoundaryIsReported ==
  pc = "done" => Boundary(samples, result.best_approved, result.first_rejected)

\* With a monotone oracle a bounded answer is right: no size of the range that
\* would be approved exceeds best_approved by tolerance_mw or more.
Monotone ==
  \A low, high \in request.min..request.max : low < high /\ accepts[high] => accepts[low]

MonotoneIsExact ==
  pc = "done" /\ result.status = "bounded" /\ Monotone =>
    \A mw \in request.min..request.max :
      accepts[mw] => mw - result.best_approved < request.tolerance

\* The search falls back exactly when its samples contradict monotonicity.
ContradictionFallsBack ==
  pc = "done" => (Contradictory(samples) <=> result.status = "monotonicity_fallback")

\* Only the two bounds can contradict each other, never a midpoint; the answer
\* after the coarse scan is then max_mw with nothing rejected above it, whatever
\* the scan found.
FallbackIsMaximum ==
  pc = "done" /\ result.status = "monotonicity_fallback" =>
    /\ iterations = 0
    /\ result.best_approved = request.max
    /\ result.first_rejected = None

\* The search ends, also when the tolerance is below the resolution and the
\* midpoint no longer moves: max_iterations ends it.
SearchEnds == <>(pc = "done")
=============================================================================
