--------------------------- MODULE MCMooncakeRelay --------------------------
(* Two receivers and a weight for each of their buckets.                    *)
EXTENDS MooncakeRelay

MCEnds == {2, 4, 6}
=============================================================================
