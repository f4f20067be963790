--------------------------- MODULE WasmActivations ---------------------------
(***************************************************************************)
(* What calls between wasm functions mean: every activation has locals and *)
(* operands of its own, its parameters are the operands its caller gave,   *)
(* its other locals begin at zero, and a result is one more operand of the *)
(* caller.  It knows neither registers nor cells.  CallFrames implements   *)
(* it.                                                                     *)
(*                                                                         *)
(* Four weak points are part of the promise because the code has them: a   *)
(* parameter the host leaves out may be anything, so may what a builtin    *)
(* reads beyond the parameters its import declares, an import returns zero *)
(* whatever its builtin did, and a process that runs out of cells may die. *)
(***************************************************************************)
EXTENDS Integers, Sequences

CONSTANTS
  Fn,       \* the functions of the module
  Import,   \* its imports
  Value,    \* operands and locals, 0 among them
  Cparams,  \* parameters of each of both
  Clocals,  \* locals of each function, the parameters included
  Returns,  \* which of both return a value
  Reads,    \* parameters the builtin of each import reads
  MaxArgs   \* arguments a host may pass

VARIABLES
  calls,   \* the activations, innermost last
  seen,    \* what left the module: a result, or what a builtin read
  status   \* "host", "running" or "dead"

avars == <<calls, seen, status>>

AInit == calls = <<>> /\ seen = <<>> /\ status = "host"

Caller == calls[Len(calls)]
Here   == Caller.operands
Rest(k) == SubSeq(Here, 1, Len(Here) - k)
Outer  == SubSeq(calls, 1, Len(calls) - 1)
WithOperands(s) == Append(Outer, [Caller EXCEPT !.operands = s])
Result(f, v) == IF Returns[f] THEN <<v>> ELSE <<>>

Fresh(f, args, locals) ==
  /\ locals \in [1 .. Clocals[f] -> Value]
  /\ \A i \in 1 .. Clocals[f] :
       /\ i > Cparams[f] => locals[i] = 0
       /\ i <= Cparams[f] /\ i <= Len(args) => locals[i] = args[i]
Activation(f, locals) == [fn |-> f, locals |-> locals, operands |-> <<>>]

AHostCall(f, args) ==
  /\ status = "host" /\ status' = "running"
  /\ \E locals \in [1 .. Clocals[f] -> Value] :
       Fresh(f, args, locals) /\ calls' = <<Activation(f, locals)>>
  /\ UNCHANGED seen

(* Any instruction that takes k operands and leaves some others. *)
Operate(k, left) ==
  /\ status = "running" /\ Len(Here) >= k
  /\ calls' = WithOperands(Rest(k) \o left)
  /\ UNCHANGED <<seen, status>>

AConst(v) == Operate(0, <<v>>)
ADrop     == Operate(1, <<>>)
AGet(i)   == Operate(0, <<Caller.locals[i]>>)
ASet(i, k) ==
  /\ status = "running" /\ Len(Here) >= 1
  /\ calls' = Append(Outer, [fn |-> Caller.fn, operands |-> Rest(k),
                             locals |-> [Caller.locals EXCEPT ![i] = Here[Len(Here)]]])
  /\ UNCHANGED <<seen, status>>

(* With d operands above the arguments: the index of an indirect call. *)
ACall(f, d) ==
  LET k == Cparams[f]
      args == SubSeq(Here, Len(Here) - d - k + 1, Len(Here) - d)
  IN /\ status = "running" /\ Len(Here) >= k + d
     /\ \E locals \in [1 .. Clocals[f] -> Value] :
          /\ Fresh(f, args, locals)
          /\ calls' = Append(WithOperands(Rest(k + d)), Activation(f, locals))
     /\ UNCHANGED <<seen, status>>

ACallImport(b, d) ==
  LET k == Cparams[b]
      args == SubSeq(Here, Len(Here) - d - k + 1, Len(Here) - d)
  IN /\ status = "running" /\ Len(Here) >= k + d
     /\ calls' = WithOperands(Rest(k + d) \o Result(b, 0))
     /\ seen' \in [1 .. Reads[b] -> Value]
     /\ \A i \in 1 .. Reads[b] : i <= k => seen'[i] = args[i]
     /\ UNCHANGED status

AReturn ==
  LET f == Caller.fn
      v == Here[Len(Here)]
      n == Len(calls) - 1
  IN /\ status = "running" /\ (Returns[f] => Len(Here) >= 1)
     /\ \/ /\ Len(calls) = 1
           /\ calls' = <<>> /\ seen' = Result(f, v) /\ status' = "host"
        \/ /\ Len(calls) > 1
           /\ calls' = Append(SubSeq(calls, 1, n - 1), [calls[n] EXCEPT !.operands = @ \o Result(f, v)])
           /\ UNCHANGED <<seen, status>>

ATrap ==
  /\ status = "running" /\ status' = "host"
  /\ calls' = <<>> /\ seen' = <<>>

ADie == status # "dead" /\ status' = "dead" /\ UNCHANGED <<calls, seen>>

ANext ==
  \/ \E f \in Fn, n \in 0 .. MaxArgs : \E args \in [1 .. n -> Value] : AHostCall(f, args)
  \/ status = "running" /\ \E v \in Value : AConst(v)
  \/ status = "running" /\ ADrop
  \/ status = "running" /\ \E i \in 1 .. Clocals[Caller.fn] : AGet(i) \/ ASet(i, 0) \/ ASet(i, 1)
  \/ status = "running" /\ \E d \in 0 .. 1 : (\E f \in Fn : ACall(f, d)) \/ (\E b \in Import : ACallImport(b, d))
  \/ status = "running" /\ AReturn
  \/ ATrap \/ ADie

ASpec == AInit /\ [][ANext]_avars
=============================================================================
