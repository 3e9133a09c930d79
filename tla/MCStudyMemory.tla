--------------------------- MODULE MCStudyMemory ---------------------------
(* StudyMemory for TLC: one process, or two that share the directory.        *)
EXTENDS StudyMemory
=============================================================================
