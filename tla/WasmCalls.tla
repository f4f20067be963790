------------------------------ MODULE WasmCalls ------------------------------
(***************************************************************************)
(* What a caller of WasmContext is promised, with no trace of the compiler *)
(* behind it: a call enters the function it names, an indirect call enters *)
(* the function its table entry names or traps, a return goes back to the  *)
(* caller, a trap abandons every frame at once.  JitLifecycle, which       *)
(* compiles functions the first time they are reached, implements it.      *)
(*                                                                         *)
(* The promise has two exceptions.  Once a body failed to compile,         *)
(* half-emitted code is reachable and anything may happen.  And an import  *)
(* the host calls directly may take the process down: nothing tells it     *)
(* which builtin it is.                                                    *)
(***************************************************************************)
EXTENDS Integers, Sequences

CONSTANTS
  NImports,  \* m_vecimports.size(): functions 0 .. NImports-1 are builtins
  NFn,       \* m_cfn, the size of the function index space
  TypeOf,    \* m_vecfn_entries after canonicalisation: function -> type
  Table,     \* m_vecIndirectFnTable: 0 .. size-1 -> function index
  Types,     \* canonical type indices
  Indices,   \* operands an indirect call may have
  Bodies,    \* what the bytecode of a function may be
  Exports,   \* function indices the host may call
  MaxDepth   \* bound of the model on the native call depth

Fn     == 0 .. NFn - 1
Import == 0 .. NImports - 1
Local  == NImports .. NFn - 1

VARIABLES
  body,    \* function -> what its bytecode calls; fixed when the module loads
  status,  \* "idle", "running", "returned", "trapped", "over" or "wrong"
  stack,   \* functions being executed, innermost last
  tainted  \* a body has failed to compile

cvars == <<body, status, stack, tainted>>

CalleesOf(f) == {body[f].callees[k] : k \in 1 .. Len(body[f].callees)}

(* What CallIndirectShim checks: the table bound, the function bound and   *)
(* the equality of canonical types.                                        *)
Accepts(t, i) ==
  /\ i \in DOMAIN Table
  /\ Table[i] \in Fn
  /\ TypeOf[Table[i]] = t

Running  == status = "running" /\ stack # <<>>
TopFn    == stack[Len(stack)]
InBody   == Running /\ TopFn \in Local
Popped   == SubSeq(stack, 1, Len(stack) - 1)

CInit ==
  /\ body \in [Local -> Bodies]
  /\ status = "idle" /\ stack = <<>> /\ tainted = FALSE

(* A body that cannot be compiled turns the call into an exception.        *)
Refuse ==
  /\ status = "idle"
  /\ status' \in {"idle", "over"} /\ tainted' = TRUE
  /\ UNCHANGED <<body, stack>>

Invoke(f) ==
  /\ status = "idle"
  /\ status' = "running" /\ stack' = <<f>>
  /\ UNCHANGED <<body, tainted>>

Call(g) ==
  /\ InBody /\ g \in CalleesOf(TopFn)
  /\ Len(stack) < MaxDepth
  /\ stack' = Append(stack, g)
  /\ UNCHANGED <<body, status, tainted>>

CallIndirect(t, i) ==
  /\ InBody /\ t \in body[TopFn].sites
  /\ \/ /\ Accepts(t, i) /\ Len(stack) < MaxDepth
        /\ stack' = Append(stack, Table[i]) /\ UNCHANGED status
     \/ /\ ~Accepts(t, i)
        /\ stack' = <<>> /\ status' = "trapped"
  /\ UNCHANGED <<body, tainted>>

Return ==
  /\ Running
  /\ stack' = Popped
  /\ status' = IF Popped = <<>> THEN "returned" ELSE "running"
  /\ UNCHANGED <<body, tainted>>

Answer ==
  /\ status \in {"returned", "trapped"}
  /\ status' = "idle"
  /\ UNCHANGED <<body, stack, tainted>>

(* No exception can cross frames of generated code: the process ends.      *)
Die ==
  /\ Running
  /\ \/ tainted' = TRUE
     \/ TopFn \in Import /\ Len(stack) = 1 /\ UNCHANGED tainted
  /\ status' = "over" /\ stack' = <<>>
  /\ UNCHANGED body

GoWrong ==
  /\ Running /\ tainted
  /\ status' = "wrong"
  /\ UNCHANGED <<body, stack, tainted>>

CNext ==
  \/ Refuse \/ Return \/ Answer \/ Die \/ GoWrong
  \/ \E f \in Exports : Invoke(f)
  \/ \E g \in Fn : Call(g)
  \/ \E t \in Types, i \in Indices : CallIndirect(t, i)

CSpec == CInit /\ [][CNext]_cvars
=============================================================================
