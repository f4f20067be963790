------------------------------ MODULE CallFrames ------------------------------
(***************************************************************************)
(* Calls between compiled functions: the locals at rbx and the operands at *)
(* rdi, which all activations keep in two vectors of JitWriter, as         *)
(* src/lib/JitWriter.cpp and layer/posix/optemplates.asm move them.        *)
(*                                                                         *)
(* The code emitted for a function knows how many locals the function and  *)
(* its callees have and nothing of who calls it.  A caller moves rbx past  *)
(* its own locals, stores the arguments there, and must find rbx, rdi and  *)
(* the cells below them as they were.  Nothing clears a cell when it is    *)
(* left, by a return or by a trap, and no call clears the vectors.         *)
(*                                                                         *)
(* Blocks and all that happens inside one activation are JitFrames'; here  *)
(* an instruction is one of the few that touch operands and locals, and    *)
(* bytecode may have any that is valid next.                               *)
(***************************************************************************)
EXTENDS Integers, Sequences

CONSTANTS
  Fn, Import, Value, Cparams, Clocals, Returns, Reads,  \* as in WasmActivations
  Junk,          \* what is in rax when a function is entered from the host
  OperandCells,  \* size of m_vecoperand
  LocalCells,    \* size of m_veclocals
  MaxArgs,       \* bound on the arguments a host passes
  MaxDepth       \* bound on activations

ASSUME CallFramesAssumption ==
  /\ Value \subseteq Nat /\ 0 \in Value /\ Junk \notin Value
  /\ Fn \cap Import = {}
  /\ Cparams \in [Fn \cup Import -> Nat] /\ Clocals \in [Fn -> Nat]
  /\ \A f \in Fn : Cparams[f] <= Clocals[f]
  /\ Returns \in [Fn \cup Import -> BOOLEAN] /\ Reads \in [Import -> Nat]
  /\ OperandCells \in Nat \ {0} /\ LocalCells \in Nat /\ MaxDepth \in Nat \ {0}
  /\ MaxArgs \in 0 .. LocalCells

VARIABLES
  pc,     \* "host", "running", or "overrun" when a cell beyond a vector was used
  m,      \* the machine: [rax, rdi, rbx, op, loc]
  stack,  \* the native stack: what each activation has pushed on it
  seen    \* what left the module: a result, or what a builtin read

vars == <<pc, m, stack, seen>>

Init ==
  /\ pc = "host" /\ stack = <<>> /\ seen = <<>>
  /\ m = [rax |-> Junk, rdi |-> 0, rbx |-> 0,
          op |-> [c \in 0 .. OperandCells - 1 |-> 0], loc |-> [c \in 0 .. LocalCells - 1 |-> 0]]

-----------------------------------------------------------------------------
(* Code sequences. *)

PushExpandStack(s) == [s EXCEPT !.op[s.rdi] = s.rax, !.rdi = s.rdi + 1]
PopContractStack(s) == [s EXCEPT !.rax = s.op[s.rdi - 1], !.rdi = s.rdi - 1]

PushC(s, v) == [PushExpandStack(s) EXCEPT !.rax = v]
GetLocal(s, idx) == [PushExpandStack(s) EXCEPT !.rax = s.loc[s.rbx + idx]]
SetLocal(s, idx, fPop) ==
  LET t == [s EXCEPT !.loc[s.rbx + idx] = s.rax]
  IN IF fPop THEN PopContractStack(t) ELSE t

(* rbx moves past the locals of the caller. *)
AllocLocals(s, clocalsCaller) == [s EXCEPT !.rbx = @ + clocalsCaller]

(* SetLocal(k - 1, true), ..., SetLocal(0, true): the last argument is in  *)
(* rax and the others below rdi.                                           *)
Argument(s, k, j) == IF j = k - 1 THEN s.rax ELSE s.op[s.rdi - (k - 1 - j)]
StoreArguments(s, k) ==
  [s EXCEPT !.loc = [c \in DOMAIN s.loc |->
                       IF c \in s.rbx .. s.rbx + k - 1 THEN Argument(s, k, c - s.rbx) ELSE s.loc[c]],
            !.rdi = s.rdi - k,
            !.rax = IF k = 0 THEN s.rax ELSE s.op[s.rdi - k]]

FirstZeroedLate(f) == Cparams[f] + 1
FirstZeroed(f) == Cparams[f]

(* The locals that are no parameters are zeroed and rax with them.         *)
FnPrologue(s, f) ==
  PushExpandStack(
    IF Clocals[f] = Cparams[f] THEN s
    ELSE [s EXCEPT !.rax = 0,
                   !.loc = [c \in DOMAIN s.loc |->
                              IF c \in s.rbx + FirstZeroed(f) .. s.rbx + Clocals[f] - 1 THEN 0 ELSE s.loc[c]]])

(* Stages 3 and 4 of a call, in the caller. *)
CleanupOfCallee(s, saved, clocalsCaller, clocalsCallee) == [s EXCEPT !.rdi = saved, !.rbx = @ - clocalsCallee]
Cleanup(s, saved, clocalsCaller, clocalsCallee) == [s EXCEPT !.rdi = saved, !.rbx = @ - clocalsCaller]
AfterCall(s, frame, fReturnValue) ==
  LET t == Cleanup(s, frame.saved, frame.cb, Clocals[frame.fn])
  IN IF fReturnValue THEN t ELSE PopContractStack(t)

-----------------------------------------------------------------------------

Live == pc = "running"
Top == stack[Len(stack)]
Height == m.rdi - Top.rdi   \* operands of the running activation
Yield(f) == IF Returns[f] THEN 1 ELSE 0

(* A frame is the rdi its caller pushed, the locals the caller gives back, *)
(* and the rdi its own prologue pushed.  base is history: rbx at entry.    *)
Frame(s, f, cb) == [fn |-> f, saved |-> s.rdi, cb |-> cb, rdi |-> s.rdi + 1, base |-> s.rbx]

HasCellsButOne(operands, locals) == operands <= OperandCells + 1 /\ locals <= LocalCells
HasCells(operands, locals) == operands <= OperandCells /\ locals <= LocalCells
Overrun == pc' = "overrun" /\ UNCHANGED <<m, stack, seen>>

(* The function is entered with its arguments at rbx. *)
EnterFn(s, f, cb) ==
  IF HasCells(s.rdi + 1, s.rbx + Clocals[f])
  THEN /\ m' = FnPrologue(s, f) /\ stack' = Append(stack, Frame(s, f, cb)) /\ pc' = "running"
       /\ UNCHANGED seen
  ELSE Overrun

(* ExternCallFn with any number of arguments, and ExternCallFnASM. *)
HostCall(f, args) ==
  /\ pc = "host"
  /\ EnterFn([m EXCEPT !.rax = Junk, !.rdi = 0, !.rbx = 0,
                       !.loc = [c \in DOMAIN m.loc |-> IF c < Len(args) THEN args[c + 1] ELSE m.loc[c]]], f, 0)

Operate(operands, s) ==
  /\ Live
  /\ IF HasCells(operands, 0) THEN m' = s /\ UNCHANGED <<pc, stack, seen>> ELSE Overrun

Const(v) == Operate(m.rdi + 1, PushC(m, v))
ReadLocal(idx) == Operate(m.rdi + 1, GetLocal(m, idx))
WriteLocal(idx, fPop) == Height >= 1 /\ Operate(m.rdi, SetLocal(m, idx, fPop))
Drop == Height >= 1 /\ Operate(m.rdi, PopContractStack(m))

(* CallIfn up to the call.  An indirect call takes the index first. *)
Passed(k, fIndirect) ==
  LET s == AllocLocals(m, Clocals[Top.fn])
      t == IF fIndirect THEN PopContractStack(s) ELSE s
  IN PushExpandStack(StoreArguments(t, k))

Calls(k, fIndirect) ==
  Live /\ Height >= IF fIndirect THEN k + 1 ELSE k
CellsToPass(k, fIndirect) ==
  HasCells((IF fIndirect THEN m.rdi - 1 ELSE m.rdi) - k + 1, m.rbx + Clocals[Top.fn] + k)

Call(f, fIndirect) ==
  /\ Calls(Cparams[f], fIndirect) /\ Len(stack) < MaxDepth
  /\ IF CellsToPass(Cparams[f], fIndirect)
     THEN EnterFn(Passed(Cparams[f], fIndirect), f, Clocals[Top.fn]) ELSE Overrun

(* WasmToC and CReentryFn: a builtin reads what it will from rbx on, and   *)
(* zero is returned in place of its result.                                *)
CallImport(b, fIndirect) ==
  LET s == Passed(Cparams[b], fIndirect)
  IN /\ Calls(Cparams[b], fIndirect)
     /\ IF CellsToPass(Cparams[b], fIndirect)
        THEN /\ \E read \in [1 .. Reads[b] -> Value] :
                  /\ \A i \in 1 .. Reads[b] : s.rbx + i <= LocalCells => read[i] = s.loc[s.rbx + i - 1]
                  /\ seen' = read
             /\ LET t == [s EXCEPT !.rax = 0, !.rbx = @ - Clocals[Top.fn]]
                IN m' = IF Returns[b] THEN t ELSE PopContractStack(t)
             /\ UNCHANGED <<pc, stack>>
        ELSE Overrun

(* Trap: back to ExternCallFnASM, whatever the registers are. *)
Trapped(s) == pc' = "host" /\ m' = s /\ stack' = <<>> /\ seen' = <<>>

Trap == Live /\ Trapped(m)

(* The shim finds no function of the type, when all has been passed. *)
CallIndirectTrap(k) ==
  /\ Calls(k, TRUE)
  /\ IF CellsToPass(k, TRUE) THEN Trapped(Passed(k, TRUE)) ELSE Overrun

Return(s) ==
  LET f == Top.fn
      outer == SubSeq(stack, 1, Len(stack) - 1)
  IN IF Len(stack) = 1
     THEN /\ pc' = "host" /\ m' = s /\ stack' = <<>>
          /\ seen' = IF Returns[f] THEN <<s.rax>> ELSE <<>>
     ELSE /\ m' = AfterCall(s, Top, Returns[f]) /\ stack' = outer
          /\ UNCHANGED <<pc, seen>>

(* The end of the body gives rdi back; a return leaves it where it is. *)
End == Live /\ Height = Yield(Top.fn) /\ Return([m EXCEPT !.rdi = Top.rdi])
Ret == Live /\ Height >= Yield(Top.fn) /\ Return(m)

Next ==
  \/ \E f \in Fn, n \in 0 .. MaxArgs : \E args \in [1 .. n -> Value] : HostCall(f, args)
  \/ \E v \in Value : Const(v)
  \/ Live /\ \E idx \in 0 .. Clocals[Top.fn] - 1 : ReadLocal(idx) \/ WriteLocal(idx, TRUE) \/ WriteLocal(idx, FALSE)
  \/ Live /\ (Drop \/ End \/ Ret)
  \/ \E fIndirect \in BOOLEAN : Live /\ \E f \in Fn : Call(f, fIndirect)
  \/ \E fIndirect \in BOOLEAN : Live /\ \E b \in Import : CallImport(b, fIndirect)
  \/ Live /\ \E k \in 0 .. Height - 1 : CallIndirectTrap(k)
  \/ Trap

Spec == Init /\ [][Next]_vars

-----------------------------------------------------------------------------

FrameType == [fn : Fn, saved : Nat, cb : Nat, rdi : Nat, base : Nat]

TypeOK ==
  /\ pc \in {"host", "running", "overrun"}
  /\ m \in [rax : Value \cup {Junk}, rdi : 0 .. OperandCells, rbx : Nat,
            op : [0 .. OperandCells - 1 -> Value \cup {Junk}], loc : [0 .. LocalCells - 1 -> Value]]
  /\ stack \in Seq(FrameType) /\ Len(stack) <= MaxDepth
  /\ seen \in Seq(Value)

(* Cells of an activation: its locals, and the operands it keeps while     *)
(* another one runs, with the cell that its prologue pushed.               *)
LocalsOf(i) == stack[i].base .. stack[i].base + Clocals[stack[i].fn] - 1
OperandsOf(i) == stack[i].rdi - 1 .. (IF i = Len(stack) THEN m.rdi ELSE stack[i + 1].saved) - 1

(* No two activations share a local or an operand, rbx is where the locals *)
(* of the running one begin, and rdi is above its own operands: what a     *)
(* callee does can reach nothing of its callers.                           *)
FramesAreDisjoint ==
  Live =>
    /\ m.rbx = Top.base /\ Top.rdi <= m.rdi
    /\ \A i, j \in 1 .. Len(stack) :
         i < j => LocalsOf(i) \cap LocalsOf(j) = {} /\ OperandsOf(i) \cap OperandsOf(j) = {}

(* The registers and the two vectors are the activations of wasm. *)
Operands(i) ==
  LET n == IF i = Len(stack) THEN m.rdi - stack[i].rdi ELSE stack[i + 1].saved - stack[i].rdi - 1
  IN [p \in 1 .. n |-> IF i = Len(stack) /\ p = n THEN m.rax ELSE m.op[stack[i].rdi + p]]
Activations ==
  [i \in 1 .. Len(stack) |->
     [fn |-> stack[i].fn,
      locals |-> [x \in 1 .. Clocals[stack[i].fn] |-> m.loc[stack[i].base + x - 1]],
      operands |-> Operands(i)]]

Wasm == INSTANCE WasmActivations
  WITH calls <- Activations, status <- IF pc = "overrun" THEN "dead" ELSE pc

(* Calls, returns, traps and everything between them do to locals and      *)
(* operands what they mean: parameters in order, the other locals zero,    *)
(* what a caller keeps untouched by what runs inside it.                   *)
ImplementsActivations == Wasm!ASpec
=============================================================================
