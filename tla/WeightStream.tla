---------------------------- MODULE WeightStream ----------------------------
(* What the transfer of the weights promises to an inference worker: it     *)
(* loads the weights as the trainer has them, each one whole and in order.  *)
(* The units of all weights are numbered through, 1..Total; Ends holds the  *)
(* number of the last unit of each weight.                                  *)
EXTENDS Naturals, Sequences

CONSTANTS Workers, Total, Ends

VARIABLE loaded   \* the units each worker has put into its model

Init == loaded = [r \in Workers |-> <<>>]

\* The weights up to the end of another one.
Load(r) ==
  \E e \in Ends :
    /\ e > Len(loaded[r])
    /\ loaded' = [loaded EXCEPT ![r] = [u \in 1..e |-> u]]

Next == \E r \in Workers : Load(r)

Spec == Init /\ [][Next]_loaded
=============================================================================
