--------------------------- MODULE MCLinearMemory ---------------------------
(* A word of six values and pages of two bytes: three pages are the four   *)
(* gigabytes, and initial_size, which counts to five, can name more.       *)
EXTENDS LinearMemory
=============================================================================
