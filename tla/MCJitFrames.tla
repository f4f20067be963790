----------------------------- MODULE MCJitFrames -----------------------------
(* Three operands and a computation that tells every operand of up to three*)
(* from the others and from any other order.                               *)
EXTENDS JitFrames

MCApply(s) ==
  LET weight == <<1, 2, 1, 2>>
      sum[k \in 0 .. Len(s)] == IF k = 0 THEN 1 ELSE sum[k - 1] + weight[k] * s[k]
  IN sum[Len(s)] % 3
=============================================================================
