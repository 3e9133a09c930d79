--------------------------- MODULE MCAsyncPipeline ---------------------------
(* AsyncPipeline for TLC: the configuration gives every size a number.       *)
EXTENDS AsyncPipeline
=============================================================================
