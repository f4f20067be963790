---------------------------- MODULE JitLifecycle ----------------------------
(***************************************************************************)
(* The life of generated code: src/lib/JitWriter.cpp (SafePushCode,        *)
(* CompileFn, ExternCallFn, ProtectForRuntime, UnprotectRuntime) and       *)
(* src/lib/layer/posix/optemplates.asm (ExternCallFnASM, CallIndirectShim, *)
(* Trap, WasmToC).                                                         *)
(*                                                                         *)
(* A function is compiled when a call first reaches its null slot in the   *)
(* function vector: before the host enters it, or in the middle of native  *)
(* execution, from the indirect-call shim.  CompileFn fills the slot,      *)
(* emits the body, then compiles by recursion every direct callee whose    *)
(* slot is null, since a direct call jumps through the slot unchecked.     *)
(* The plane holding the code is made writable around each compilation     *)
(* and executable around each execution.                                   *)
(*                                                                         *)
(* Emission advances in chunks (one SafePushCode call), so that a body may *)
(* fail half way.  What code does between two calls is left out.           *)
(***************************************************************************)
EXTENDS Integers, Sequences

CONSTANTS
  NImports,  \* m_vecimports.size()
  NFn,       \* m_cfn
  TypeOf,    \* m_vecfn_entries, canonical
  Table,     \* m_vecIndirectFnTable
  Types,     \* canonical type indices
  Indices,   \* operands an indirect call may have
  Bodies,    \* possible bodies: [callees, sites, size, bad]
  Exports,   \* function indices among m_vecexports
  PlaneMax,  \* chunks between m_pcodeStart and m_pexecPlaneMax
  Page,      \* chunk -> the page it lies on
  MaxDepth   \* bound of the model on the native call depth

Fn     == 0 .. NFn - 1
Import == 0 .. NImports - 1
Local  == NImports .. NFn - 1

(* callees: vecifnCompile, the targets of call in bytecode order           *)
(* sites:   the canonical types of its call_indirect instructions          *)
(* size:    chunks its code takes                                          *)
(* bad:     CompileFn throws after them (invalid opcode, failed Verify)    *)
ASSUME ModuleAssumption ==
  /\ NImports \in Nat /\ NFn \in Nat /\ NImports <= NFn
  /\ TypeOf \in [Fn -> Types]
  /\ Table \in [DOMAIN Table -> Nat]
  /\ Exports \subseteq Fn
  /\ \A b \in Bodies :
       /\ b.callees \in Seq(Fn) /\ b.sites \subseteq Types
       /\ b.size \in Nat \ {0} /\ b.bad \in BOOLEAN
  /\ PlaneMax \in Nat
  /\ MaxDepth \in Nat \ {0}

Null    == -1   \* nullptr
WasmToC == -2   \* an address outside the plane

VARIABLES
  body,     \* m_vecfn_code; fixed when the module loads
  slot,     \* the function vector at m_pexecPlane: Null, WasmToC or a chunk
  cur,      \* m_pexecPlaneCur - m_pcodeStart
  rx,       \* pages that are read-execute; the others are read-write
  pc,       \* what the thread is doing
  entry,    \* ifn of the ExternCallFn in progress
  cstack,   \* activations of CompileFn: [fn, emitted, next]
  nstack,   \* native call stack, innermost last
  rcx,      \* the function number WasmToC hands to CReentryFn
  retV,     \* result of ExternCallFnASM: FALSE after a trap
  done,     \* functions whose whole body has been emitted
  failed    \* some CompileFn has thrown

vars == <<body, slot, cur, rx, pc, entry, cstack, nstack, rcx, retV, done, failed>>

-----------------------------------------------------------------------------

(* The pages mprotect changes for [m_pcodeStart, m_pexecPlaneCur).         *)
Covered(c) == {Page[a] : a \in 0 .. c - 1}

ProtectForRuntime == rx' = rx \cup Covered(cur)
UnprotectShort    == rx' = rx \ Covered(cur - 1)   \* mutant: leaves out the last page
UnprotectRuntime  == rx' = rx \ Covered(cur)

Size(f)    == body[f].size
Callees(f) == body[f].callees
CalleesOf(f) == {Callees(f)[k] : k \in 1 .. Len(Callees(f))}

Top      == cstack[Len(cstack)]
Below    == SubSeq(cstack, 1, Len(cstack) - 1)
TopFn    == nstack[Len(nstack)]
Popped   == SubSeq(nstack, 1, Len(nstack) - 1)

Compiling == pc = "compile" /\ cstack # <<>>
Native    == pc = "native" /\ nstack # <<>>

(* SafePushCode's test of m_pexecPlaneMax, and a mutant off by one.        *)
HasRoomOrIsFull == cur <= PlaneMax
HasRoom         == cur < PlaneMax

(* A function reached through a null slot must be compiled.  The mutant    *)
(* compiles whatever is not finished, cycles included.                     *)
Finished(f) == f \in Import \cup done
Linked(f)   == slot[f] # Null

Emitted(t) == t.emitted = Size(t.fn)

(* The loop over vecifnCompile comes after the epilogue.  The mutant       *)
(* compiles a callee where its call is met.                                *)
BodyBegun(t) == t.emitted > 0 /\ ~body[t.fn].bad
BodyDone(t)  == Emitted(t) /\ ~body[t.fn].bad

(* Its bound, with a mutant that forgets the last callee, and its advance, *)
(* with one that stands still.                                             *)
CalleesLeftButOne(t) == t.next < Len(Callees(t.fn))
CalleesLeft(t)       == t.next <= Len(Callees(t.fn))
SameCallee(t) == t
NextCallee(t) == [t EXCEPT !.next = @ + 1]

(* CallIndirectShim's tests of the table bound, the function bound and the *)
(* canonical type; the mutant leaves the type out.                         *)
InBounds(t, i) == i \in DOMAIN Table /\ Table[i] \in Fn
Accepts(t, i) ==
  /\ i \in DOMAIN Table
  /\ Table[i] \in Fn
  /\ TypeOf[Table[i]] = t

Activation(f) == [fn |-> f, emitted |-> 0, next |-> 1]

(* Entry of CompileFn: the slot is filled before any code is emitted, so a *)
(* cycle of calls meets a non-null slot.                                   *)
StartCompile(f, below) ==
  /\ slot' = [slot EXCEPT ![f] = cur]
  /\ cstack' = Append(below, Activation(f))

(* LoadModule has run the JitWriter constructor: only imports have slots.  *)
Init ==
  /\ body \in [Local -> Bodies]
  /\ slot = [f \in Fn |-> IF f \in Import THEN WasmToC ELSE Null]
  /\ cur = 0 /\ rx = {} /\ pc = "idle" /\ entry = 0
  /\ cstack = <<>> /\ nstack = <<>> /\ rcx = 0 /\ retV = TRUE
  /\ done = {} /\ failed = FALSE

-----------------------------------------------------------------------------
(* The host calls an export. *)

(* ExternCallFn up to its Verify(pfn != nullptr).                          *)
ExternCall(f) ==
  /\ pc = "idle"
  /\ entry' = f
  /\ \/ ~Linked(f) /\ StartCompile(f, <<>>) /\ pc' = "compile"
     \/ Linked(f) /\ pc' = "enter" /\ UNCHANGED <<slot, cstack>>
  /\ UNCHANGED <<body, cur, rx, nstack, rcx, retV, done, failed>>

(* ExternCallFn from there to the call in ExternCallFnASM.  Nothing has    *)
(* set ecx: an import entered this way finds whatever it holds.            *)
Enter ==
  /\ pc = "enter" /\ Linked(entry)
  /\ ProtectForRuntime
  /\ pc' = "native" /\ nstack' = <<entry>>
  /\ rcx' \in IF entry \in Import THEN 0 .. NImports ELSE {rcx}
  /\ UNCHANGED <<body, slot, cur, entry, cstack, retV, done, failed>>

(* ExternCallFnASM has returned; Verify(retV) throws if it was a trap.     *)
Leave ==
  /\ pc = "leave"
  /\ UnprotectRuntime
  /\ pc' = "idle"
  /\ UNCHANGED <<body, slot, cur, entry, cstack, nstack, rcx, retV, done, failed>>

-----------------------------------------------------------------------------
(* CompileFn. *)

(* One SafePushCode with room left in the plane.                           *)
Emit ==
  /\ Compiling /\ ~Emitted(Top)
  /\ HasRoom
  /\ cur' = cur + 1
  /\ cstack' = [cstack EXCEPT ![Len(cstack)].emitted = @ + 1]
  /\ done' = IF Top.emitted + 1 = Size(Top.fn) /\ ~body[Top.fn].bad
               THEN done \cup {Top.fn} ELSE done
  /\ UNCHANGED <<body, slot, rx, pc, entry, nstack, rcx, retV, failed>>

(* The loop over vecifnCompile: compile the callee if its slot is null.    *)
CompileCallee ==
  LET g       == Callees(Top.fn)[Top.next]
      stepped == [cstack EXCEPT ![Len(cstack)] = NextCallee(Top)]
  IN /\ Compiling /\ BodyDone(Top) /\ CalleesLeft(Top)
     /\ \/ ~Linked(g) /\ StartCompile(g, stepped)
        \/ Linked(g) /\ cstack' = stepped /\ UNCHANGED slot
     /\ UNCHANGED <<body, cur, rx, pc, entry, nstack, rcx, retV, done, failed>>

(* CompileFn returns, to its caller or, from the first activation, to      *)
(* ExternCallFn or to the extern "C" CompileFn of the shim, which protects *)
(* the plane again and jumps to the function.                              *)
CompileReturn ==
  /\ Compiling /\ BodyDone(Top) /\ ~CalleesLeft(Top)
  /\ cstack' = Below
  /\ \/ Below # <<>> /\ UNCHANGED <<pc, rx>>
     \/ Below = <<>> /\ nstack = <<>> /\ pc' = "enter" /\ UNCHANGED rx
     \/ Below = <<>> /\ nstack # <<>> /\ pc' = "native" /\ ProtectForRuntime
  /\ UNCHANGED <<body, slot, cur, entry, nstack, rcx, retV, done, failed>>

(* CompileFn throws.  Every activation unwinds and every slot stays as it  *)
(* is.  The exception reaches a host that may catch it, unless the shim's  *)
(* assembly frames are in the way: those cannot be unwound.                *)
CompileThrow ==
  /\ Compiling
  /\ \/ ~Emitted(Top) /\ ~HasRoom
     \/ Emitted(Top) /\ body[Top.fn].bad
  /\ failed' = TRUE /\ cstack' = <<>> /\ nstack' = <<>>
  /\ pc' \in IF nstack = <<>> THEN {"idle", "terminated"} ELSE {"terminated"}
  /\ UNCHANGED <<body, slot, cur, rx, entry, rcx, retV, done>>

-----------------------------------------------------------------------------
(* Native execution. *)

(* call [rip + slot]: no test of the slot.                                 *)
DirectCall(g) ==
  /\ Native /\ TopFn \in Local
  /\ g \in CalleesOf(TopFn)
  /\ Len(nstack) < MaxDepth
  /\ \/ /\ Linked(g)
        /\ nstack' = Append(nstack, g)
        /\ rcx' = IF g \in Import THEN g ELSE rcx
        /\ UNCHANGED pc
     \/ ~Linked(g) /\ pc' = "crashed" /\ UNCHANGED <<nstack, rcx>>
  /\ UNCHANGED <<body, slot, cur, rx, entry, cstack, retV, done, failed>>

(* CallIndirectShim, whose checks lead to .LDoTrap, jmp rax or .LCompileFn *)
IndirectCall(t, i) ==
  LET g == Table[i]
  IN /\ Native /\ TopFn \in Local /\ t \in body[TopFn].sites
     /\ \/ /\ ~Accepts(t, i)
           /\ pc' = "leave" /\ retV' = FALSE /\ nstack' = <<>>
           /\ UNCHANGED <<slot, rx, cstack, rcx>>
        \/ /\ Accepts(t, i) /\ Len(nstack) < MaxDepth
           /\ nstack' = Append(nstack, g)
           /\ rcx' = IF g \in Import THEN g ELSE rcx
           /\ \/ Linked(g) /\ UNCHANGED <<slot, rx, pc, cstack>>
              \/ /\ ~Linked(g)
                 /\ UnprotectRuntime
                 /\ StartCompile(g, <<>>)
                 /\ pc' = "compile"
           /\ UNCHANGED retV
     /\ UNCHANGED <<body, cur, entry, done, failed>>

(* The innermost function returns: through its epilogue, or from WasmToC   *)
(* when CReentryFn accepted the number it was given.                       *)
NativeReturn ==
  /\ Native
  /\ TopFn \in done \/ (TopFn \in Import /\ rcx < NImports)
  /\ nstack' = Popped
  /\ \/ Popped # <<>> /\ UNCHANGED <<pc, retV>>
     \/ Popped = <<>> /\ pc' = "leave" /\ retV' = TRUE
  /\ UNCHANGED <<body, slot, cur, rx, entry, cstack, rcx, done, failed>>

(* CReentryFn's Verify throws into assembly frames.                        *)
ReentryThrow ==
  /\ Native /\ TopFn \in Import /\ rcx >= NImports
  /\ pc' = "terminated" /\ nstack' = <<>>
  /\ UNCHANGED <<body, slot, cur, rx, entry, cstack, rcx, retV, done, failed>>

(* Execution runs off the end of a body whose emission was abandoned.      *)
RunOff ==
  /\ Native /\ TopFn \in Local \ done
  /\ pc' = "crashed"
  /\ UNCHANGED <<body, slot, cur, rx, entry, cstack, nstack, rcx, retV, done, failed>>

-----------------------------------------------------------------------------

CompileStep == Emit \/ CompileCallee \/ CompileReturn \/ CompileThrow

Next ==
  \/ \E f \in Exports : ExternCall(f)
  \/ Enter \/ Leave
  \/ CompileStep
  \/ \E g \in Fn : DirectCall(g)
  \/ \E t \in Types, i \in Indices : IndirectCall(t, i)
  \/ NativeReturn \/ ReentryThrow \/ RunOff

(* Wasm code may loop for ever, but the compiler is straight-line C++: a   *)
(* thread inside it keeps going.                                           *)
Spec == Init /\ [][Next]_vars /\ WF_vars(CompileStep)

-----------------------------------------------------------------------------
(* Types and the parts of the inductive invariant. *)

Frames == [fn : Local, emitted : Nat, next : Nat \ {0}]

TypeOK ==
  /\ body \in [Local -> Bodies]
  /\ slot \in [Fn -> (0 .. PlaneMax) \cup {Null, WasmToC}]
  /\ cur \in 0 .. PlaneMax
  /\ rx \subseteq Covered(cur)
  /\ pc \in {"idle", "compile", "enter", "native", "leave", "terminated", "crashed"}
  /\ entry \in Exports \cup {0}
  /\ cstack \in Seq(Frames)
  /\ nstack \in Seq(Fn)
  /\ rcx \in 0 .. NImports
  /\ retV \in BOOLEAN
  /\ done \subseteq Local
  /\ failed \in BOOLEAN

(* The plane is never writable while generated code runs and never         *)
(* executable while code is written to it (ProtectForRuntime and           *)
(* UnprotectRuntime around lines 2724-2726 and 2738-2743): a store by      *)
(* SafePushCode or a jump to a function would otherwise fault.             *)
WriteXorExecute ==
  /\ pc \in {"native", "leave"} => rx = Covered(cur)
  /\ pc \in {"idle", "compile", "enter"} => rx = {}

(* Unless a compilation has failed, no function runs before it and every   *)
(* function it calls directly have been compiled to the end, however the   *)
(* first calls are ordered: the direct calls of CallIfn test nothing.      *)
RunningCodeIsLinked ==
  pc = "native" /\ ~failed =>
    \A k \in 1 .. Len(nstack) :
      nstack[k] \in Local =>
        /\ nstack[k] \in done
        /\ CalleesOf(nstack[k]) \subseteq Import \cup done

(* The code of a function is one run of bytes, with no other function's    *)
(* entry point inside it: callees are emitted after the body, not where    *)
(* their call is met (vecifnCompile, lines 1476, 1670 and 2644-2651).      *)
CodeIsContiguous ==
  \A f \in done, g \in Local :
    g # f /\ slot[g] # Null => slot[g] \notin slot[f] .. slot[f] + Size(f) - 1

(* A slot is filled once: code already emitted reaches the function through*)
(* it, and a cycle of calls is compiled once per function.                 *)
SlotsAreFilledOnce ==
  [][\A f \in Fn : slot[f] # Null => slot'[f] = slot[f]]_vars

(* Why the recursion over the call graph ends, cycles included: a step of  *)
(* CompileFn fills a null slot, or returns, or takes the innermost         *)
(* activation to its next callee, or emits more of its code, and none of   *)
(* the four undoes one before it in this list (lines 2644-2651).           *)
Unlinked == {f \in Fn : slot[f] = Null}
CalleesToGo(t) == Len(Callees(t.fn)) + 1 - t.next
ChunksToGo(t) == Size(t.fn) - t.emitted

CompilerDescends ==
  [][Compiling /\ Compiling' =>
       \/ Unlinked' \subseteq Unlinked /\ Unlinked' # Unlinked
       \/ /\ Unlinked' = Unlinked
          /\ \/ Len(cstack') < Len(cstack)
             \/ /\ Len(cstack') = Len(cstack)
                /\ \/ CalleesToGo(Top)' \in 0 .. CalleesToGo(Top) - 1
                   \/ /\ CalleesToGo(Top)' = CalleesToGo(Top)
                      /\ ChunksToGo(Top)' \in 0 .. ChunksToGo(Top) - 1]_vars

(* CompileFn's recursion over the call graph ends, cycles included.        *)
CompilationEnds == (pc = "compile") ~> (pc # "compile")

(* How a state looks to the host and to the code it runs. *)
Status ==
  CASE pc \in {"idle", "enter"} -> "idle"
    [] pc = "compile"    -> IF nstack = <<>> THEN "idle" ELSE "running"
    [] pc = "native"     -> "running"
    [] pc = "leave"      -> IF retV THEN "returned" ELSE "trapped"
    [] pc = "terminated" -> "over"
    [] pc = "crashed"    -> "wrong"

Calls == INSTANCE WasmCalls WITH stack <- nstack, tainted <- failed, status <- Status

(* Lazy compilation is invisible: what JitLifecycle does is what WasmCalls,*)
(* which has no compiler, promises.                                        *)
ImplementsCalls == Calls!CSpec

(* Only the innermost activation of CompileFn may have code left to emit;  *)
(* the others have emitted theirs and wait for a callee.                   *)
CompileStackInv ==
  /\ (pc = "compile") <=> (cstack # <<>>)
  /\ \A k \in 1 .. Len(cstack) :
       /\ slot[cstack[k].fn] # Null
       /\ cstack[k].emitted <= Size(cstack[k].fn)
       /\ k < Len(cstack) => cstack[k].fn \in done
  /\ cstack # <<>> /\ Emitted(Top) /\ ~body[Top.fn].bad => Top.fn \in done

(* Until a compilation fails, a filled slot belongs to a finished function *)
(* or to the one being emitted, and a finished function whose activation   *)
(* is over has every callee linked.                                        *)
LinkInv ==
  ~failed =>
    /\ \A f \in Local : slot[f] # Null =>
         f \in done \/ (cstack # <<>> /\ f = Top.fn)
    /\ \A f \in done :
         \/ \A g \in CalleesOf(f) : slot[g] # Null
         \/ \E k \in 1 .. Len(cstack) : cstack[k].fn = f
    /\ \A k \in 1 .. Len(cstack) :
         \A j \in 1 .. Len(Callees(cstack[k].fn)) :
           j < cstack[k].next => slot[Callees(cstack[k].fn)[j]] # Null

(* The native stack exists only while code runs or the shim compiles, and  *)
(* holds functions with an entry point.                                    *)
NativeInv ==
  /\ nstack # <<>> => pc \in {"native", "compile", "crashed"}
  /\ pc = "native" => nstack # <<>>
  /\ pc = "enter" => slot[entry] # Null /\ entry \in Exports
  /\ pc = "compile" /\ nstack = <<>> => entry \in Exports /\ slot[entry] # Null
  /\ \A k \in 1 .. Len(nstack) : slot[nstack[k]] # Null
  /\ \A k \in 1 .. Len(nstack) : nstack[k] \in Import => k = Len(nstack)
  /\ Len(nstack) > 1 /\ TopFn \in Import => rcx = TopFn

SlotInv ==
  /\ \A f \in Import : slot[f] = WasmToC
  /\ \A f \in Local : slot[f] # WasmToC
  /\ \A f \in done : slot[f] # Null

IInv == TypeOK /\ SlotInv /\ WriteXorExecute /\ CompileStackInv /\ LinkInv /\ NativeInv

=============================================================================
