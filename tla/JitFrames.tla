------------------------------ MODULE JitFrames ------------------------------
(***************************************************************************)
(* The operand stack and the block frames of generated code, as            *)
(* src/lib/JitWriter.cpp emits it: one activation of one function.         *)
(*                                                                         *)
(* The top operand is in rax and the others in memory below rdi.  Entering *)
(* a block stores rax below rdi and pushes rdi on the native stack; a      *)
(* branch out of it pops rdi back.  Nothing checks that the code on one    *)
(* path leaves rdi where the code on another path expects it: CompileFn    *)
(* emits instruction by instruction and never knows the operand depth.     *)
(*                                                                         *)
(* A step decodes one instruction that validated bytecode may have next    *)
(* and, unless the path is jumping over it, runs the code emitted for it.  *)
(* An instruction is what its code does to the machine: computations are   *)
(* left to Apply, locals, globals and linear memory to the variable effect.*)
(* WasmStack says what the bytecode means; refinement compares the two.    *)
(*                                                                         *)
(* For five constructs the code does not do what the bytecode means.       *)
(* Constructs names those the bytecode may contain.                        *)
(***************************************************************************)
EXTENDS Integers, Sequences

CONSTANTS
  Values, NoValue, Apply(_),  \* as in WasmStack
  Junk,        \* what a register or a memory cell holds when nothing says
  Constructs,  \* which of the five constructs the bytecode uses
  MaxArgs,     \* bound on the parameters of a callee
  MaxCells,    \* bound of the model on the cells below rdi
  MaxBlocks    \* bound of the model on nested blocks

ASSUME FramesAssumption ==
  /\ Values \subseteq Nat /\ 0 \in Values
  /\ NoValue \notin Values /\ Junk \notin Values
  /\ MaxArgs \in Nat /\ MaxCells \in Nat \ {0} /\ MaxBlocks \in Nat \ {0}
  /\ \A k \in 0 .. MaxArgs + 2 : \A s \in [1 .. k -> Values \cup {Junk}] : Apply(s) \in Values \cup {Junk}
  /\ \A k \in 0 .. MaxArgs + 2 : \A s \in [1 .. k -> Values] : Apply(s) \in Values
  /\ Constructs \subseteq {"store", "void_else", "value_loop", "mixed_table", "f64_compare"}

VARIABLES
  blocks,  \* stackBlockTypeAddr, and what the bytecode says of each block
  jump,    \* the fixup the path is waiting for; NoJump if it executes
  m,       \* the machine: [rax, rcx, stk, msp]
  effect,  \* operands the last instruction handed to locals, memory, callees
  returns, \* fHasReturnValue of the function's type
  status   \* "running", "returned" or "killed"

vars == <<blocks, jump, m, effect, returns, status>>

NoJump == <<0, "end">>
Top(s)   == s[Len(s)]
Below(s) == SubSeq(s, 1, Len(s) - 1)

Level  == Len(blocks)
Active == status = "running"
Live   == Active /\ jump = NoJump

Arity(b) == IF b.yields /\ b.kind # "loop" THEN 1 ELSE 0
Yield(b) == IF b.yields THEN 1 ELSE 0
Body(r)  == [kind |-> "fn", type |-> "none", yields |-> r]
Block(k, r) == [kind |-> k, type |-> IF r THEN "value" ELSE "empty", yields |-> r]

(* fHasReturn, as CompileFn and BranchTableParse work it out for LeaveBlock*)
HasReturn(b) == b.type # "empty"

-----------------------------------------------------------------------------
(* Code sequences.  stk is memory from the function's first cell up to rdi,*)
(* so its length is rdi; what is above is not kept, since no instruction   *)
(* reads there what another one left.  msp is the native stack above the   *)
(* return address: the rdi each open frame saved.                          *)

PushExpandStack(s) == [s EXCEPT !.stk = Append(@, s.rax)]
PopContractStack(s) == [s EXCEPT !.rax = Top(s.stk), !.stk = Below(@)]

(* The mutant loads the second operand as if it were the first.            *)
PopSecondParamUnswapped(s, fSwapParams) == [s EXCEPT !.rcx = Top(s.stk), !.stk = Below(@)]
PopSecondParam(s, fSwapParams) ==
  IF fSwapParams
    THEN [s EXCEPT !.rcx = s.rax, !.rax = Top(s.stk), !.stk = Below(@)]
    ELSE [s EXCEPT !.rcx = Top(s.stk), !.stk = Below(@)]

PushRdi(s) == [s EXCEPT !.msp = Append(@, Len(s.stk))]

(* pop rdi, d frames up: memory between the two positions is unknown.      *)
PopRdi(s, d) ==
  LET at == Len(s.msp) - d + 1
  IN [s EXCEPT !.stk = [a \in 1 .. s.msp[at] |-> IF a <= Len(s.stk) THEN s.stk[a] ELSE Junk],
               !.msp = SubSeq(@, 1, at - 1)]

EnterBlock(s) == PushRdi(PushExpandStack(s))

LeaveBlock(s, fHasReturn) ==
  IF fHasReturn THEN PopRdi(s, 1) ELSE PopContractStack(PopRdi(s, 1))

(* A branch leaves d blocks "with a result", then the target's.  The mutant*)
(* is off by one in the depth.                                             *)
LeaveBlocksButOne(s, d, fHasReturn) == LeaveBlock(s, fHasReturn)
LeaveBlocks(s, d, fHasReturn) ==
  LeaveBlock(IF d = 0 THEN s ELSE PopRdi(s, d), fHasReturn)

FnPrologue(s) == EnterBlock(s)

(* Results that do not come from the operand stack. *)
PushC(s, v)     == [PushExpandStack(s) EXCEPT !.rax = v]
GetLocal(s, v)  == [PushExpandStack(s) EXCEPT !.rax = v]
GetGlobal(s, v) == [PushExpandStack(s) EXCEPT !.rax = v]

SetLocal(s, fPop) == IF fPop THEN PopContractStack(s) ELSE s
SetGlobal(s)      == PopContractStack(s)

(* Code that computes rax from rax: loads, eqz, popcnt (which uses the     *)
(* cell above rdi), clz, ctz, neg, conversions, the assembly helpers.      *)
InRax(s)     == [s EXCEPT !.rax = Apply(<<@>>)]
LoadMem(s)   == InRax(s)
Convert(s)   == InRax(s)
CallAsmOp(s) == InRax(s)

(* Code on rcx and rax: the first operand is in rcx or, for sub, shifts    *)
(* and rotates, in rax.                                                    *)
InOrder(s) == LET p == PopSecondParam(s, FALSE) IN [p EXCEPT !.rax = Apply(<<p.rcx, p.rax>>)]
Swapped(s) == LET p == PopSecondParam(s, TRUE)  IN [p EXCEPT !.rax = Apply(<<p.rax, p.rcx>>)]
Add(s)     == InOrder(s)
Sub(s)     == Swapped(s)
Compare(s) == InOrder(s)
LogicOp(s, fSwapParams) == IF fSwapParams THEN Swapped(s) ELSE InOrder(s)

(* Code that moves rdi down and takes the operand there from memory. *)
FromMemory(s)      == [s EXCEPT !.rax = Apply(<<Top(s.stk), s.rax>>), !.stk = Below(@)]
Mul(s)             == FromMemory(s)
Div(s)             == FromMemory(s)
FloatArithmetic(s) == FromMemory(s)
FloatCompare(s)    == FromMemory(s)

(* DoubleCompare takes the operand rdi points to, then moves rdi.          *)
DoubleCompare(s) == [s EXCEPT !.rax = Junk, !.stk = Below(@)]

Selected(s) ==
  LET rdi == Len(s.stk) - 2
  IN [s EXCEPT !.rax = s.stk[IF s.rax # 0 THEN rdi + 1 ELSE rdi + 2],
               !.stk = SubSeq(@, 1, rdi)]

(* StoreMem pops the address from memory and leaves the value in rax.      *)
StoreMem(s) == PopSecondParam(s, FALSE)

JumpNIf(s) == PopContractStack(s)

(* The operand stack as the bytecode means it, read off the machine: one   *)
(* sequence per saved rdi, each without the cell EnterBlock pushed.        *)
Frames(s) ==
  LET cells == Append(s.stk, s.rax)
      n     == Len(s.msp)
      end   == [k \in 1 .. n |-> IF k = n THEN Len(cells) ELSE s.msp[k + 1]]
  IN [k \in 1 .. n |-> SubSeq(cells, s.msp[k] + 2, end[k])]

(* How many operands the innermost block has, and the last k of them. *)
Depth   == Len(m.stk) - Top(m.msp)
Take(k) == SubSeq(Append(m.stk, m.rax), Len(m.stk) - k + 2, Len(m.stk) + 1)

-----------------------------------------------------------------------------

(* The caller has put the arguments in locals; FnPrologue is EnterBlock.   *)
Start == [rax |-> Junk, rcx |-> Junk, stk |-> <<>>, msp |-> <<>>]

Init ==
  /\ returns \in BOOLEAN /\ blocks = <<Body(returns)>>
  /\ jump = NoJump /\ m = FnPrologue(Start)
  /\ effect = <<>> /\ status = "running"

(* Straight-line code for an instruction that takes k operands. *)
Operate(k, s, shown) ==
  /\ Live /\ Depth >= k
  /\ Len(s.stk) <= MaxCells
  /\ m' = s
  /\ effect' = shown
  /\ UNCHANGED <<blocks, jump, returns, status>>

(* The value of a local, of a global and the size of memory may be any. *)
Const(v)      == Operate(0, PushC(m, v), <<>>)
ReadLocal(v)  == Operate(0, GetLocal(m, v), <<>>)
ReadGlobal(v) == Operate(0, GetGlobal(m, v), <<>>)
CurrentMemory == Operate(0, CallAsmOp(PushC(m, 0)), <<>>)

Load         == Operate(1, LoadMem(m), <<>>)
Conversion   == Operate(1, Convert(m), <<>>)
GrowMemory   == Operate(1, CallAsmOp(m), <<>>)
IntCompare   == Operate(2, Compare(m), <<>>)
Compare32    == Operate(2, FloatCompare(m), <<>>)
Arithmetic   == /\ Live /\ Depth >= 2
                /\ \E s \in {Add(m), Sub(m), Mul(m), Div(m), LogicOp(m, FALSE), LogicOp(m, TRUE)} :
                     Operate(2, s, <<>>)
FloatOp      == Operate(2, FloatArithmetic(m), <<>>)
Drop         == Operate(1, PopContractStack(m), <<>>)
WriteLocal   == Operate(1, SetLocal(m, TRUE), <<m.rax>>)
TeeLocal     == Operate(1, SetLocal(m, FALSE), <<m.rax>>)
WriteGlobal  == Operate(1, SetGlobal(m), <<m.rax>>)
Select       == Live /\ Depth >= 3 /\ Operate(3, Selected(m), <<>>)

(* f64.lt has no break and runs into f64.gt: two comparisons.              *)
Compare64 ==
  /\ "f64_compare" \in Constructs
  /\ \/ Operate(2, DoubleCompare(m), <<>>)
     \/ Operate(2, DoubleCompare(DoubleCompare(m)), <<>>)

Store ==
  /\ "store" \in Constructs
  /\ Live /\ Depth >= 2
  /\ LET s == StoreMem(m) IN Operate(2, s, <<s.rcx, s.rax>>)

(* call and call_indirect.  SetLocal(.., true) stores the arguments from   *)
(* the last to the first; an indirect call first moves its operand to rcx. *)
(* The callee starts at the saved rdi and comes back with its result in    *)
(* rax, or anything in rax if it has none.                                 *)
CallIfn(args, fReturnValue, fIndirect) ==
  LET c      == args + IF fIndirect THEN 1 ELSE 0
      popped == [m EXCEPT !.rax = Append(m.stk, m.rax)[Len(m.stk) + 1 - c],
                          !.stk = SubSeq(@, 1, Len(@) - c)]
      saved  == EnterBlock(popped)
      back   == [saved EXCEPT !.rax = IF fReturnValue THEN Apply(Take(c)) ELSE Junk,
                              !.rcx = Junk]
  IN /\ Live /\ Depth >= c
     /\ Operate(c, LeaveBlock(back, fReturnValue), Take(c))

(* An opcode that opens a block pushes its type whether or not the path    *)
(* executes it.                                                            *)
Enter(k, r) ==
  /\ Active /\ Level < MaxBlocks
  /\ Live => Len(m.stk) < MaxCells
  /\ blocks' = Append(blocks, Block(k, r))
  /\ m' = IF Live THEN EnterBlock(m) ELSE m
  /\ effect' = <<>>
  /\ UNCHANGED <<jump, returns, status>>

(* EnterIF contracts the stack, and enters the block unless rax was zero.  *)
EnterIF(r) ==
  /\ Active /\ Level < MaxBlocks
  /\ Live => Depth >= 1
  /\ blocks' = Append(blocks, Block("if", r))
  /\ \/ ~Live /\ UNCHANGED <<m, jump>>
     \/ Live /\ m.rax # 0 /\ m' = EnterBlock(PopContractStack(m)) /\ UNCHANGED jump
     \/ Live /\ m.rax = 0 /\ m' = PopContractStack(m) /\ jump' = <<Level + 1, "else">>
  /\ effect' = <<>>
  /\ UNCHANGED <<returns, status>>

(* The path that falls into ELSE leaves the block "with a result" and jumps*)
(* to its end; the path that jumped here enters the block.                 *)
Else ==
  /\ Active /\ Top(blocks).kind = "if"
  /\ blocks' = [blocks EXCEPT ![Level].kind = "else"]
  /\ \/ /\ Live /\ Depth = Yield(Top(blocks))
        /\ Top(blocks).yields \/ "void_else" \in Constructs
        /\ m' = LeaveBlock(m, TRUE) /\ jump' = <<Level, "end">>
     \/ jump = <<Level, "else">> /\ m' = EnterBlock(m) /\ jump' = NoJump
     \/ ~Live /\ jump # <<Level, "else">> /\ UNCHANGED <<m, jump>>
  /\ effect' = <<>>
  /\ UNCHANGED <<returns, status>>

(* The fixups of a block are resolved after its LeaveBlock.  The function's*)
(* own end is followed by FnEpilogue.  The mutant resolves them one block  *)
(* too early.                                                              *)
LandsInside(level) == jump[1] + 1 = level
LandsAt(level)     == jump[1] = level

End ==
  /\ Active
  /\ Top(blocks).kind = "if" => ~Top(blocks).yields
  /\ blocks' = Below(blocks)
  /\ \/ /\ Live /\ Depth = Yield(Top(blocks))
        /\ m' = LeaveBlock(m, HasReturn(Top(blocks))) /\ UNCHANGED jump
     \/ ~Live /\ LandsAt(Level) /\ jump' = NoJump /\ UNCHANGED m
     \/ ~Live /\ ~LandsAt(Level) /\ UNCHANGED <<m, jump>>
  /\ status' = IF Level = 1 THEN "returned" ELSE status
  /\ effect' = <<>>
  /\ UNCHANGED returns

(* Leave the blocks up to the target and jump: to a fixup or, for a loop,  *)
(* back to its first instruction, which is the code of EnterBlock.         *)
BranchTo(level, s, fHasReturn) ==
  LET left == LeaveBlocks(s, Level - level, fHasReturn)
  IN /\ IF blocks[level].kind = "loop"
          THEN /\ Len(left.stk) < MaxCells
               /\ m' = EnterBlock(left) /\ blocks' = SubSeq(blocks, 1, level) /\ UNCHANGED jump
          ELSE m' = left /\ jump' = <<level, "end">> /\ UNCHANGED blocks
     /\ effect' = <<>>
     /\ UNCHANGED <<returns, status>>

Allowed(b) == b.kind = "loop" /\ b.yields => "value_loop" \in Constructs

Br(level) ==
  /\ Live /\ Depth >= Arity(blocks[level])
  /\ Allowed(blocks[level])
  /\ BranchTo(level, m, HasReturn(blocks[level]))

BrIf(level) ==
  /\ Live /\ Depth >= 1 + Arity(blocks[level])
  /\ Allowed(blocks[level])
  /\ \/ m.rax # 0 /\ BranchTo(level, JumpNIf(m), HasReturn(blocks[level]))
     \/ m.rax = 0 /\ Operate(1, JumpNIf(m), <<>>)

(* BranchTable drops the frames between, moves the value below the index to*)
(* rax and, by the *default* target's type, contracts the stack.           *)
SameReturn(b, dflt) == b.kind = "fn" \/ (HasReturn(dflt) <=> Arity(b) = 1)
BrTable(level, dflt) ==
  /\ Live /\ Depth >= 1 + Arity(blocks[level])
  /\ Arity(blocks[level]) = Arity(blocks[dflt])
  /\ \/ SameReturn(blocks[level], blocks[dflt])
     \/ (IF blocks[dflt].kind = "fn" THEN "mixed_table" ELSE "value_loop") \in Constructs
  /\ BranchTo(level, [m EXCEPT !.rax = Top(m.stk)], HasReturn(blocks[dflt]))

(* add rsp by one word per open block, then FnEpilogue.  The mutant leaves *)
(* the function's own word behind.                                         *)
PopInnerBlocks(s) == [s EXCEPT !.msp = SubSeq(@, 1, Len(@) - Level + 1)]
PopBlocks(s)      == [s EXCEPT !.msp = SubSeq(@, 1, Len(@) - Level)]
Ret ==
  /\ Live /\ Depth >= Yield(blocks[1])
  /\ m' = PopBlocks(m) /\ status' = "returned"
  /\ effect' = <<>>
  /\ UNCHANGED <<blocks, jump, returns>>

(* ud2 *)
Unreachable ==
  /\ Live /\ status' = "killed"
  /\ effect' = <<>>
  /\ UNCHANGED <<blocks, jump, m, returns>>

Next ==
  \/ \E v \in Values : Const(v) \/ ReadLocal(v) \/ ReadGlobal(v)
  \/ CurrentMemory \/ Load \/ Conversion \/ GrowMemory
  \/ IntCompare \/ Compare32 \/ Compare64 \/ Arithmetic \/ FloatOp
  \/ Drop \/ WriteLocal \/ TeeLocal \/ WriteGlobal \/ Select \/ Store
  \/ \E c \in 0 .. MaxArgs, r, i \in BOOLEAN : CallIfn(c, r, i)
  \/ \E k \in {"block", "loop"}, r \in BOOLEAN : Enter(k, r)
  \/ \E r \in BOOLEAN : EnterIF(r)
  \/ Else \/ End
  \/ \E level \in 1 .. Level : Br(level) \/ BrIf(level)
  \/ \E level, dflt \in 1 .. Level : BrTable(level, dflt)
  \/ Ret \/ Unreachable

Spec == Init /\ [][Next]_vars

-----------------------------------------------------------------------------

Kinds   == {"fn", "block", "loop", "if", "else"}
Blocks  == [kind : Kinds, type : {"none", "empty", "value"}, yields : BOOLEAN]
Cells   == Values \cup {Junk}
Machine == [rax : Cells, rcx : Cells, stk : Seq(Cells), msp : Seq(Nat)]

TypeOK ==
  /\ blocks \in Seq(Blocks)
  /\ Level <= MaxBlocks
  /\ Active => Level > 0
  /\ jump \in {NoJump} \cup ((1 .. Level) \X {"end", "else"})
  /\ m \in Machine
  /\ effect \in Seq(Cells)
  /\ returns \in BOOLEAN
  /\ status \in {"running", "returned", "killed"}

(* Each saved position lies above the operands of the blocks around it. *)
Nested(s) ==
  \A k \in 1 .. Len(s.msp) :
    /\ 0 < s.msp[k] /\ s.msp[k] <= Len(s.stk)
    /\ \A j \in 1 .. k - 1 : s.msp[j] < s.msp[k]

(* The native stack holds one rdi for each block the path is in, whatever  *)
(* branches, skipped blocks and calls it went through, so that every pop   *)
(* rdi (lines 398-405) gets the value its own block pushed; and no block   *)
(* reaches down into the operands of the blocks around it.                 *)
FramesNest ==
  /\ Active => Len(m.msp) = IF jump = NoJump THEN Level ELSE jump[1] - 1
  /\ Nested(m)

(* Each way out of a function (end, a branch to its label, return with     *)
(* blocks still open, lines 1648-1660) leaves the native stack exactly at  *)
(* the return address its epilogue's ret will pop.                         *)
ReturnIsBalanced == status = "returned" => m.msp = <<>>

Wasm == INSTANCE WasmStack WITH
  frames <- Frames(m),
  answer <- IF m.msp = <<>> /\ returns THEN m.rax ELSE NoValue

(* The generated code does what the bytecode means: every operation gets   *)
(* its operands in order, blocks keep the operands around them, paths that *)
(* join at the end of a block agree on the stack.                          *)
ImplementsWasm == Wasm!WSpec

(* "common operations (does leave machine in valid state)", JitWriter.h    *)
(* line 85: after the code of one instruction, the machine holds what the  *)
(* instruction means.                                                      *)
LeavesMachineValid ==
  [][\/ Load \/ Conversion \/ IntCompare \/ Compare32 \/ Compare64
     \/ Arithmetic \/ FloatOp \/ WriteLocal \/ TeeLocal \/ Select \/ Store
     => Wasm!WNext]_vars
=============================================================================
