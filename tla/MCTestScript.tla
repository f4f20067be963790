---------------------------- MODULE MCTestScript ----------------------------
(* Four open parentheses reach an argument of an invoke of an assertion and *)
(* one more inside a module; two values tell a result from an expectation.  *)
EXTENDS TestScript
=============================================================================
