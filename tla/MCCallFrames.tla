---------------------------- MODULE MCCallFrames ----------------------------
(* Two functions that call each other, themselves and an import: one with   *)
(* a parameter, a local and a result, one with a local and no result.  The  *)
(* builtin reads one parameter more than its import declares.               *)
EXTENDS CallFrames, TLC

CONSTANTS fn1, fn2, imp1

MCFn == {fn1, fn2}
MCImport == {imp1}
MCCparams == (fn1 :> 1) @@ (fn2 :> 0) @@ (imp1 :> 2)
MCClocals == (fn1 :> 2) @@ (fn2 :> 1)
MCReturns == (fn1 :> TRUE) @@ (fn2 :> FALSE) @@ (imp1 :> TRUE)
MCReads == imp1 :> 3
=============================================================================
