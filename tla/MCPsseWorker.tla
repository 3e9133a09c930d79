---------------------------- MODULE MCPsseWorker ----------------------------
(* PsseWorker for TLC. Job ids and handler threads are model values; they   *)
(* are symmetric, but the runs check action properties, a refinement and    *)
(* liveness, for which TLC's symmetry reduction is not sound.               *)
EXTENDS PsseWorker, TLC
=============================================================================
