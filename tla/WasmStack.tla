------------------------------ MODULE WasmStack ------------------------------
(***************************************************************************)
(* What one activation of a wasm function does, as the bytecode means it:  *)
(* a stack of blocks, each with operands of its own that the blocks inside *)
(* it cannot reach, and branches to the end of a block or the head of a    *)
(* loop.  It knows nothing of registers.  JitFrames implements it.         *)
(*                                                                         *)
(* The bytecode is not fixed: each step decodes one more instruction, any  *)
(* that a validated function may have next.  After a branch the            *)
(* instructions up to its target are decoded but not executed.             *)
(***************************************************************************)
EXTENDS Integers, Sequences

CONSTANTS
  Values,       \* operands; 0 is the false one
  NoValue,      \* the answer of a function that has none (yet)
  Apply(_)      \* the result an operation computes from its operands

VARIABLES
  blocks,   \* the blocks that enclose the instruction being decoded
  jump,     \* <<level, place>> the path is jumping to; NoJump if it is not
  frames,   \* operands of each block the path is in, innermost last
  effect,   \* what the last instruction handed to the outside world
  answer,   \* the function's result, once the path has left its body
  status    \* "running", "returned" or "killed"

wvars == <<blocks, jump, frames, effect, answer, status>>

NoJump == <<0, "end">>
Top(s)   == s[Len(s)]
Below(s) == SubSeq(s, 1, Len(s) - 1)

Level  == Len(blocks)
Active == status = "running"
Live   == Active /\ jump = NoJump

(* The values a branch to a block carries: a loop is re-entered with none. *)
Arity(b)  == IF b.yields /\ b.kind # "loop" THEN 1 ELSE 0
Yield(b)  == IF b.yields THEN 1 ELSE 0
Body(r)   == [kind |-> "fn", type |-> "none", yields |-> r]
Block(k, r) == [kind |-> k, type |-> IF r THEN "value" ELSE "empty", yields |-> r]

Here    == Top(frames)
Take(k) == SubSeq(Here, Len(Here) - k + 1, Len(Here))
Rest(k) == SubSeq(Here, 1, Len(Here) - k)
WithTop(fs, s) == Append(Below(fs), s)

-----------------------------------------------------------------------------

WInit ==
  /\ \E r \in BOOLEAN : blocks = <<Body(r)>>
  /\ jump = NoJump /\ frames = << <<>> >>
  /\ effect = <<>> /\ answer = NoValue /\ status = "running"

(* An instruction that takes k operands, leaves some, and shows some. *)
Operate(k, left, shown) ==
  /\ Live /\ Len(Here) >= k
  /\ frames' = WithTop(frames, Rest(k) \o left)
  /\ effect' = shown
  /\ UNCHANGED <<blocks, jump, answer, status>>

Const(v)   == Operate(0, <<v>>, <<>>)
Compute(k) == Operate(k, <<Apply(Take(k))>>, <<>>)
Drop       == Operate(1, <<>>, <<>>)
Set        == Operate(1, <<>>, Take(1))
Tee        == Operate(1, Take(1), Take(1))
Store      == Operate(2, <<>>, Take(2))
Call(k, r) == Operate(k, IF r THEN <<Apply(Take(k))>> ELSE <<>>, Take(k))
Select     == /\ Live /\ Len(Here) >= 3
              /\ Operate(3, <<Take(3)[IF Take(3)[3] # 0 THEN 1 ELSE 2]>>, <<>>)

(* Blocks decoded while the path jumps over them leave no trace in frames. *)
Enter(k, r) ==
  /\ Active
  /\ blocks' = Append(blocks, Block(k, r))
  /\ frames' = IF Live THEN Append(frames, <<>>) ELSE frames
  /\ effect' = <<>>
  /\ UNCHANGED <<jump, answer, status>>

If(r) ==
  /\ Active
  /\ Live => Len(Here) >= 1
  /\ blocks' = Append(blocks, Block("if", r))
  /\ \/ ~Live /\ UNCHANGED <<frames, jump>>
     \/ LET popped == WithTop(frames, Rest(1))
        IN /\ Live
           /\ \/ Top(Here) # 0 /\ frames' = Append(popped, <<>>) /\ UNCHANGED jump
              \/ Top(Here) = 0 /\ frames' = popped /\ jump' = <<Level + 1, "else">>
  /\ effect' = <<>>
  /\ UNCHANGED <<answer, status>>

(* The path leaves the block at a level with its last v operands. *)
LeaveTo(level, v) ==
  LET outer == SubSeq(frames, 1, level - 1)
  IN /\ frames' = IF level = 1 THEN <<>> ELSE WithTop(outer, Top(outer) \o Take(v))
     /\ answer' = IF level = 1 /\ v = 1 THEN Top(Here) ELSE NoValue

Else ==
  /\ Active /\ Top(blocks).kind = "if"
  /\ blocks' = [blocks EXCEPT ![Level].kind = "else"]
  /\ \/ Live /\ Len(Here) = Yield(Top(blocks))
        /\ LeaveTo(Level, Yield(Top(blocks))) /\ jump' = <<Level, "end">>
     \/ jump = <<Level, "else">>
        /\ frames' = Append(frames, <<>>) /\ jump' = NoJump /\ UNCHANGED answer
     \/ ~Live /\ jump # <<Level, "else">> /\ UNCHANGED <<frames, jump, answer>>
  /\ effect' = <<>>
  /\ UNCHANGED status

End ==
  /\ Active
  /\ Top(blocks).kind = "if" => ~Top(blocks).yields
  /\ blocks' = Below(blocks)
  /\ \/ Live /\ Len(Here) = Yield(Top(blocks))
        /\ LeaveTo(Level, Yield(Top(blocks))) /\ UNCHANGED jump
     \/ jump[1] = Level /\ jump' = NoJump /\ UNCHANGED <<frames, answer>>
     \/ jump[1] \in 1 .. Level - 1 /\ UNCHANGED <<frames, jump, answer>>
  /\ status' = IF Level = 1 THEN "returned" ELSE status
  /\ effect' = <<>>

(* A branch with c operands (a condition, a table index) above the values  *)
(* it carries.  A loop starts again, with no operands.                     *)
Branch(level, c) ==
  LET b == blocks[level]
      v == Arity(b)
      carried == SubSeq(Here, Len(Here) - c - v + 1, Len(Here) - c)
      outer   == SubSeq(frames, 1, level - 1)
  IN /\ Live /\ Len(Here) >= c + v
     /\ \/ /\ b.kind = "loop"
           /\ frames' = Append(outer, <<>>) /\ blocks' = SubSeq(blocks, 1, level)
           /\ UNCHANGED <<jump, answer>>
        \/ /\ b.kind # "loop"
           /\ frames' = IF level = 1 THEN <<>>
                        ELSE WithTop(outer, Top(outer) \o carried)
           /\ answer' = IF level = 1 /\ v = 1 THEN Top(carried) ELSE NoValue
           /\ jump' = <<level, "end">>
           /\ UNCHANGED blocks
     /\ effect' = <<>>
     /\ UNCHANGED status

Br(level) == Branch(level, 0)

BrIf(level) ==
  /\ Live /\ Len(Here) >= 1 + Arity(blocks[level])
  /\ \/ Top(Here) # 0 /\ Branch(level, 1)
     \/ Top(Here) = 0 /\ Operate(1, <<>>, <<>>)

(* Every target of a br_table carries the same values; any may be chosen. *)
BrTable(level) == Branch(level, 1)

Ret ==
  /\ Live /\ Len(Here) >= Yield(blocks[1])
  /\ frames' = <<>> /\ status' = "returned"
  /\ answer' = IF blocks[1].yields THEN Top(Here) ELSE NoValue
  /\ effect' = <<>>
  /\ UNCHANGED <<blocks, jump>>

Unreachable ==
  /\ Live /\ status' = "killed"
  /\ effect' = <<>>
  /\ UNCHANGED <<blocks, jump, frames, answer>>

WNext ==
  \/ \E v \in Values : Const(v)
  \/ \E k \in 1 .. 2 : Compute(k)
  \/ Drop \/ Set \/ Tee \/ Store \/ Select
  \/ Live /\ \E k \in 0 .. Len(Here), r \in BOOLEAN : Call(k, r)
  \/ \E k \in {"block", "loop"}, r \in BOOLEAN : Enter(k, r)
  \/ \E r \in BOOLEAN : If(r)
  \/ Else \/ End
  \/ \E level \in 1 .. Level : Br(level) \/ BrIf(level) \/ BrTable(level)
  \/ Ret \/ Unreachable

WSpec == WInit /\ [][WNext]_wvars
=============================================================================
