--------------------------- MODULE MCPsseSession ---------------------------
(* PsseSession for TLC. Jobs, episodes and request ids are interchangeable  *)
(* model values; the runs use no symmetry, since one of them checks         *)
(* liveness and the others are small.                                       *)
EXTENDS PsseSession
=============================================================================
