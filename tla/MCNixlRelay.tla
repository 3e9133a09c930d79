----------------------------- MODULE MCNixlRelay ----------------------------
(* Three receivers and buckets of two units: two weights in one bucket, one *)
(* in three chunks, whose last shares its bucket with a small weight, and   *)
(* one that does not fit behind it.                                         *)
EXTENDS NixlRelay

MCEnds == {1, 2, 7, 8, 10}
=============================================================================
