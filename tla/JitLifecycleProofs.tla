------------------------- MODULE JitLifecycleProofs -------------------------
(***************************************************************************)
(* Lazy compilation is safe for every module, every table, every set of    *)
(* exports, every plane size and every page size.                          *)
(***************************************************************************)
EXTENDS JitLifecycle, SequenceTheorems, TLAPS

-----------------------------------------------------------------------------
LEMMA NatCases == \A n \in Nat \ {0} : n = 1 \/ n > 1
OBVIOUS

(* The activations of CompileFn as a stack. *)

LEMMA ActivationIsFrame ==
  ASSUME NEW f \in Local
  PROVE  Activation(f) \in Frames
BY DEF Activation, Frames

LEMMA ImportsAndLocals ==
  /\ Import \subseteq Fn /\ Local \subseteq Fn
  /\ \A f \in Fn : f \in Import <=> f \notin Local
BY ModuleAssumption DEF Fn, Import, Local

LEMMA TopIsFrame ==
  ASSUME cstack \in Seq(Frames), cstack # <<>>
  PROVE  /\ Len(cstack) \in Nat \ {0}
         /\ Len(cstack) \in 1 .. Len(cstack)
         /\ Top \in Frames
<1>1. Len(cstack) \in Nat \ {0}
  BY EmptySeq
<1>2. Len(cstack) \in 1 .. Len(cstack)
  BY <1>1
<1> QED  BY <1>1, <1>2, ElementOfSeq DEF Top

(* What one instruction, or one fixup, of CompileFn does to its activation. *)
LEMMA EmittedFrame ==
  ASSUME NEW t \in Frames
  PROVE  LET u == [t EXCEPT !.emitted = @ + 1]
         IN  u \in Frames /\ u.fn = t.fn /\ u.emitted = t.emitted + 1 /\ u.next = t.next
BY DEF Frames

LEMMA SteppedFrame ==
  ASSUME NEW t \in Frames
  PROVE  LET u == [t EXCEPT !.next = @ + 1]
         IN  u \in Frames /\ u.fn = t.fn /\ u.emitted = t.emitted /\ u.next = t.next + 1
BY DEF Frames

(* Advancing the innermost activation touches nothing else. *)
LEMMA TopUpdate ==
  ASSUME cstack \in Seq(Frames), cstack # <<>>, NEW t \in Frames
  PROVE  LET s == [cstack EXCEPT ![Len(cstack)] = t]
         IN /\ s \in Seq(Frames) /\ Len(s) = Len(cstack) /\ s # <<>>
            /\ s[Len(cstack)] = t
            /\ \A k \in 1 .. Len(cstack) : k # Len(cstack) => s[k] = cstack[k]
<1> DEFINE s == [cstack EXCEPT ![Len(cstack)] = t]
<1>1. Len(cstack) \in 1 .. Len(cstack)
  BY TopIsFrame
<1>2. /\ s \in Seq(Frames) /\ Len(s) = Len(cstack)
      /\ \A k \in 1 .. Len(cstack) : s[k] = IF k = Len(cstack) THEN t ELSE cstack[k]
  BY <1>1, ExceptSeq
<1> HIDE DEF s
<1>3. s # <<>>
  BY <1>1, <1>2, EmptySeq
<1>4. s[Len(cstack)] = t /\ \A k \in 1 .. Len(cstack) : k # Len(cstack) => s[k] = cstack[k]
  BY <1>1, <1>2
<1> QED  BY <1>2, <1>3, <1>4, Zenon DEF s

LEMMA BelowIsStack ==
  ASSUME cstack \in Seq(Frames), cstack # <<>>
  PROVE  /\ Below \in Seq(Frames)
         /\ Len(Below) = Len(cstack) - 1
         /\ \A k \in 1 .. Len(Below) : Below[k] = cstack[k]
<1>1. Len(cstack) \in Nat \ {0}
  BY TopIsFrame
<1>2. \A k \in 1 .. Len(cstack) - 1 : cstack[k] \in Frames
  BY <1>1, ElementOfSeq
<1>3. /\ Below \in Seq(Frames)
      /\ Len(Below) = IF 1 <= Len(cstack) - 1 THEN Len(cstack) - 1 - 1 + 1 ELSE 0
      /\ \A k \in 1 .. Len(cstack) - 1 - 1 + 1 : Below[k] = cstack[1 + k - 1]
  BY <1>1, <1>2, SubSeqProperties DEF Below
<1>4. Len(Below) = Len(cstack) - 1
  <2>1. CASE Len(cstack) = 1
    BY <2>1, <1>3
  <2>2. CASE Len(cstack) > 1
    BY <2>2, <1>1, <1>3
  <2>3. Len(cstack) = 1 \/ Len(cstack) > 1
    BY <1>1, NatCases
  <2> QED  BY <2>1, <2>2, <2>3
<1>5. \A k \in 1 .. Len(Below) : Below[k] = cstack[k]
  <2>1. \A k \in 1 .. Len(cstack) - 1 : 1 + k - 1 = k /\ k \in 1 .. Len(cstack) - 1 - 1 + 1
    BY <1>1
  <2> QED  BY <1>3, <1>4, <2>1
<1> QED  BY <1>1, <1>3, <1>4, <1>5

LEMMA PoppedIsStack ==
  ASSUME nstack \in Seq(Fn), nstack # <<>>
  PROVE  /\ Len(nstack) \in Nat \ {0}
         /\ TopFn \in Fn
         /\ Popped \in Seq(Fn)
         /\ Len(Popped) = Len(nstack) - 1
         /\ \A k \in 1 .. Len(Popped) : Popped[k] = nstack[k]
<1>1. Len(nstack) \in Nat \ {0}
  BY EmptySeq
<1>2. TopFn \in Fn /\ \A k \in 1 .. Len(nstack) - 1 : nstack[k] \in Fn
  BY <1>1, ElementOfSeq DEF TopFn
<1>3. /\ Popped \in Seq(Fn)
      /\ Len(Popped) = IF 1 <= Len(nstack) - 1 THEN Len(nstack) - 1 - 1 + 1 ELSE 0
      /\ \A k \in 1 .. Len(nstack) - 1 - 1 + 1 : Popped[k] = nstack[1 + k - 1]
  BY <1>1, <1>2, SubSeqProperties DEF Popped
<1>4. Len(Popped) = Len(nstack) - 1
  <2>1. CASE Len(nstack) = 1
    BY <2>1, <1>3
  <2>2. CASE Len(nstack) > 1
    BY <2>2, <1>1, <1>3
  <2>3. Len(nstack) = 1 \/ Len(nstack) > 1
    BY <1>1, NatCases
  <2> QED  BY <2>1, <2>2, <2>3
<1>5. \A k \in 1 .. Len(Popped) : Popped[k] = nstack[k]
  <2>1. \A k \in 1 .. Len(nstack) - 1 : 1 + k - 1 = k /\ k \in 1 .. Len(nstack) - 1 - 1 + 1
    BY <1>1
  <2> QED  BY <1>3, <1>4, <2>1
<1> QED  BY <1>1, <1>2, <1>3, <1>4, <1>5

LEMMA BodyType ==
  ASSUME TypeOK, NEW f \in Local
  PROVE  /\ Callees(f) \in Seq(Fn) /\ Size(f) \in Nat \ {0}
         /\ CalleesOf(f) \subseteq Fn /\ body[f].bad \in BOOLEAN
         /\ Len(Callees(f)) \in Nat
<1>1. body[f] \in Bodies
  BY DEF TypeOK
<1>2. Callees(f) \in Seq(Fn) /\ Size(f) \in Nat \ {0} /\ body[f].bad \in BOOLEAN
  BY <1>1, ModuleAssumption DEF Callees, Size
<1>3. CalleesOf(f) \subseteq Fn /\ Len(Callees(f)) \in Nat
  BY <1>2, ElementOfSeq, LenProperties DEF CalleesOf
<1> QED  BY <1>2, <1>3

(* What entering CompileFn does to the slots and the activations. *)
LEMMA StartCompileEffect ==
  ASSUME TypeOK, SlotInv, NEW f \in Local, slot[f] = Null,
         NEW below \in Seq(Frames), StartCompile(f, below)
  PROVE  /\ slot' \in [Fn -> (0 .. PlaneMax) \cup {Null, WasmToC}]
         /\ slot'[f] # Null /\ slot'[f] # WasmToC /\ f \notin Import
         /\ \A g \in Fn : g # f => slot'[g] = slot[g]
         /\ \A g \in Fn : slot[g] # Null => slot'[g] # Null
         /\ cstack' \in Seq(Frames) /\ cstack' # <<>>
         /\ Len(cstack') = Len(below) + 1
         /\ Len(below) \in Nat
         /\ \A k \in 1 .. Len(below) : cstack'[k] = below[k]
         /\ cstack'[Len(cstack')] = Activation(f)
<1>1. f \in Fn /\ f \notin Import
  BY ModuleAssumption DEF Fn, Local, Import
<1>2. cur \in 0 .. PlaneMax /\ cur # Null /\ cur # WasmToC
  BY ModuleAssumption DEF TypeOK, Null, WasmToC
<1>3. slot' = [slot EXCEPT ![f] = cur] /\ slot \in [Fn -> (0 .. PlaneMax) \cup {Null, WasmToC}]
  BY DEF StartCompile, TypeOK
<1>4. Activation(f) \in Frames /\ cstack' = Append(below, Activation(f))
  BY ActivationIsFrame DEF StartCompile
<1>5. /\ cstack' \in Seq(Frames) /\ cstack' # <<>>
      /\ Len(cstack') = Len(below) + 1
      /\ Len(below) \in Nat
      /\ \A k \in 1 .. Len(below) : cstack'[k] = below[k]
      /\ cstack'[Len(below) + 1] = Activation(f)
  BY <1>4, AppendProperties, LenProperties
<1> QED  BY <1>1, <1>2, <1>3, <1>5

LEMMA InitIInv == Init => IInv
<1> SUFFICES ASSUME Init PROVE IInv
  OBVIOUS
<1>1. Len(<<>>) = 0 /\ cstack = <<>> /\ nstack = <<>>
  BY DEF Init
<1>2. TypeOK
  <2>1. 0 \in 0 .. PlaneMax /\ 0 \in 0 .. NImports
    BY ModuleAssumption
  <2>2. cstack \in Seq(Frames) /\ nstack \in Seq(Fn)
    BY <1>1, EmptySeq
  <2> QED  BY <2>1, <2>2 DEF Init, TypeOK
<1>3. SlotInv
  <2>1. \A f \in Import : f \in Fn
    BY ModuleAssumption DEF Fn, Import
  <2>2. \A f \in Local : f \in Fn /\ f \notin Import
    BY ModuleAssumption DEF Fn, Local, Import
  <2>3. Null # WasmToC
    BY DEF Null, WasmToC
  <2> QED  BY <2>1, <2>2, <2>3 DEF Init, SlotInv
<1>4. WriteXorExecute
  BY DEF Init, WriteXorExecute
<1>5. CompileStackInv
  BY <1>1 DEF Init, CompileStackInv
<1>6. LinkInv
  <2>1. \A f \in Local : slot[f] = Null
    BY ModuleAssumption DEF Init, Fn, Local, Import
  <2> QED  BY <1>1, <2>1 DEF Init, LinkInv
<1>7. NativeInv
  BY <1>1 DEF Init, NativeInv
<1> QED  BY <1>2, <1>3, <1>4, <1>5, <1>6, <1>7 DEF IInv

-----------------------------------------------------------------------------
(* The host's side. *)

LEMMA ExternCallPreserves ==
  ASSUME IInv, NEW f \in Exports, ExternCall(f)
  PROVE  IInv'
<1>1. /\ TypeOK /\ SlotInv /\ WriteXorExecute /\ CompileStackInv /\ LinkInv /\ NativeInv
      /\ f \in Fn /\ pc = "idle" /\ entry' = f
      /\ UNCHANGED <<body, cur, rx, nstack, rcx, retV, done, failed>>
  BY ModuleAssumption DEF IInv, ExternCall
<1>2. cstack = <<>> /\ nstack = <<>> /\ rx = {} /\ Len(<<>>) = 0
  BY <1>1 DEF CompileStackInv, NativeInv, WriteXorExecute
<1>3. CASE slot[f] # Null /\ pc' = "enter" /\ UNCHANGED <<slot, cstack>>
  <2>1. TypeOK'
    BY <1>1, <1>3 DEF TypeOK, Covered
  <2>2. SlotInv' /\ WriteXorExecute' /\ CompileStackInv'
    BY <1>1, <1>2, <1>3 DEF SlotInv, WriteXorExecute, CompileStackInv
  <2>3. LinkInv'
    BY <1>1, <1>2, <1>3 DEF LinkInv, CalleesOf, Callees
  <2>4. NativeInv'
    BY <1>1, <1>2, <1>3 DEF NativeInv
  <2> QED  BY <2>1, <2>2, <2>3, <2>4 DEF IInv
<1>4. CASE slot[f] = Null /\ StartCompile(f, <<>>) /\ pc' = "compile"
  <2>1. f \in Local
    BY <1>1, <1>4, ModuleAssumption DEF SlotInv, Fn, Local, Import, Null, WasmToC
  <2>2. <<>> \in Seq(Frames)
    BY EmptySeq
  <2>3. /\ slot' \in [Fn -> (0 .. PlaneMax) \cup {Null, WasmToC}]
        /\ slot'[f] # Null /\ slot'[f] # WasmToC /\ f \notin Import
        /\ \A g \in Fn : g # f => slot'[g] = slot[g]
        /\ \A g \in Fn : slot[g] # Null => slot'[g] # Null
        /\ cstack' \in Seq(Frames) /\ cstack' # <<>>
        /\ Len(cstack') = Len(<<>>) + 1
        /\ cstack'[Len(cstack')] = Activation(f)
    BY <1>1, <1>4, <2>1, <2>2, StartCompileEffect
  <2>4. TypeOK'
    <3>1. slot' \in [Fn -> (0 .. PlaneMax) \cup {Null, WasmToC}] /\ cstack' \in Seq(Frames)
      BY <2>3
    <3>2. /\ TypeOK /\ rx = {} /\ pc' = "compile" /\ entry' \in Exports \cup {0}
          /\ UNCHANGED <<body, cur, rx, nstack, rcx, retV, done, failed>>
      BY <1>1, <1>2, <1>4
    <3> QED  BY ONLY <3>1, <3>2 DEF TypeOK
  <2>5. SlotInv'
    <3>1. /\ \A g \in Fn : slot'[g] = IF g = f THEN slot'[f] ELSE slot[g]
          /\ slot'[f] # Null /\ slot'[f] # WasmToC /\ f \notin Import
      BY <2>3
    <3>2. SlotInv /\ done' = done /\ done \subseteq Local
      BY <1>1 DEF TypeOK
    <3> QED  BY ONLY <3>1, <3>2, ImportsAndLocals DEF SlotInv
  <2>6. WriteXorExecute'
    BY <1>1, <1>2, <1>4 DEF WriteXorExecute
  <2>7. CompileStackInv'
    <3>1. Size(f) \in Nat \ {0}
      BY <1>1, <2>1, BodyType
    <3> QED  BY <1>1, <1>4, <2>3, <3>1 DEF CompileStackInv, Activation, Top, Emitted, Size
  <2>8. LinkInv'
    <3> SUFFICES ASSUME ~failed PROVE LinkInv'
      BY <1>1 DEF LinkInv
    <3>1. \A h \in Local : slot'[h] # Null => h \in done \/ h = f
      BY <1>1, <1>2, <2>3, ModuleAssumption DEF LinkInv, Fn, Local
    <3>2. \A h \in done : \A g \in CalleesOf(h) : slot'[g] # Null
      <4> SUFFICES ASSUME NEW h \in done, NEW g \in CalleesOf(h) PROVE slot'[g] # Null
        OBVIOUS
      <4>1. h \in Local
        BY <1>1 DEF TypeOK
      <4>2. g \in Fn
        BY <4>1, <1>1, BodyType
      <4> QED  BY <1>1, <1>2, <2>3, <4>2 DEF LinkInv
    <3> QED  BY <1>1, <2>3, <3>1, <3>2 DEF LinkInv, Activation, Top, CalleesOf, Callees
  <2>9. NativeInv'
    BY <1>1, <1>2, <1>4, <2>3 DEF NativeInv
  <2> QED  BY <2>4, <2>5, <2>6, <2>7, <2>8, <2>9 DEF IInv
<1> QED  BY <1>3, <1>4 DEF Linked, ExternCall

LEMMA EnterPreserves ==
  ASSUME IInv, Enter
  PROVE  IInv'
<1>1. /\ TypeOK /\ SlotInv /\ WriteXorExecute /\ CompileStackInv /\ LinkInv /\ NativeInv
      /\ pc = "enter" /\ slot[entry] # Null /\ pc' = "native" /\ nstack' = <<entry>>
      /\ rx' = rx \cup Covered(cur)
      /\ UNCHANGED <<body, slot, cur, entry, cstack, retV, done, failed>>
  BY DEF Linked, IInv, Enter, ProtectForRuntime
<1>2. rx = {} /\ cstack = <<>> /\ entry \in Exports /\ entry \in Fn
  BY <1>1, ModuleAssumption DEF WriteXorExecute, CompileStackInv, NativeInv
<1>3. /\ nstack' \in Seq(Fn) /\ Len(nstack') = 1 /\ nstack'[1] = entry /\ nstack' # <<>>
  BY <1>1, <1>2
<1>4. rcx' \in 0 .. NImports
  BY <1>1, ModuleAssumption DEF Enter, TypeOK
<1>5. TypeOK'
  BY <1>1, <1>2, <1>3, <1>4 DEF TypeOK, Covered
<1>6. SlotInv' /\ WriteXorExecute' /\ CompileStackInv'
  BY <1>1, <1>2 DEF SlotInv, WriteXorExecute, CompileStackInv, Covered
<1>7. LinkInv'
  BY <1>1 DEF LinkInv, Top, CalleesOf, Callees
<1>8. NativeInv'
  BY <1>1, <1>2, <1>3 DEF NativeInv
<1> QED  BY <1>5, <1>6, <1>7, <1>8 DEF IInv

LEMMA LeavePreserves ==
  ASSUME IInv, Leave
  PROVE  IInv'
<1>1. /\ TypeOK /\ SlotInv /\ WriteXorExecute /\ CompileStackInv /\ LinkInv /\ NativeInv
      /\ pc = "leave" /\ pc' = "idle" /\ rx' = rx \ Covered(cur)
      /\ UNCHANGED <<body, slot, cur, entry, cstack, nstack, rcx, retV, done, failed>>
  BY DEF IInv, Leave, UnprotectRuntime
<1>2. rx' = {} /\ cstack = <<>> /\ nstack = <<>>
  BY <1>1 DEF WriteXorExecute, CompileStackInv, NativeInv
<1>3. TypeOK'
  BY <1>1, <1>2 DEF TypeOK, Covered
<1>4. SlotInv' /\ WriteXorExecute' /\ CompileStackInv'
  BY <1>1, <1>2 DEF SlotInv, WriteXorExecute, CompileStackInv
<1>5. LinkInv'
  BY <1>1 DEF LinkInv, Top, CalleesOf, Callees
<1>6. NativeInv'
  BY <1>1, <1>2 DEF NativeInv
<1> QED  BY <1>3, <1>4, <1>5, <1>6 DEF IInv

-----------------------------------------------------------------------------
(* CompileFn. *)

LEMMA EmitPreserves ==
  ASSUME IInv, Emit
  PROVE  IInv'
<1> DEFINE n == Len(cstack)
           t == [cstack[n] EXCEPT !.emitted = @ + 1]
<1>1. /\ TypeOK /\ SlotInv /\ WriteXorExecute /\ CompileStackInv /\ LinkInv /\ NativeInv
      /\ pc = "compile" /\ cstack # <<>> /\ Top.emitted # Size(Top.fn)
      /\ cur < PlaneMax /\ cur' = cur + 1
      /\ cstack' = [cstack EXCEPT ![n] = t]
      /\ UNCHANGED <<body, slot, rx, pc, entry, nstack, rcx, retV, failed>>
  BY DEF HasRoom, IInv, Emit, Compiling, Emitted, Top
<1>2. /\ n \in Nat \ {0} /\ n \in 1 .. n /\ Top \in Frames /\ Top = cstack[n]
      /\ cstack \in Seq(Frames) /\ rx = {}
  BY <1>1, TopIsFrame DEF TypeOK, Top, WriteXorExecute
<1>3. t \in Frames /\ t.fn = Top.fn /\ t.emitted = Top.emitted + 1 /\ t.next = Top.next
  BY <1>2, EmittedFrame
<1>4. /\ cstack' \in Seq(Frames) /\ Len(cstack') = n /\ cstack' # <<>>
      /\ cstack'[n] = t
      /\ \A k \in 1 .. n : k # n => cstack'[k] = cstack[k]
  BY <1>1, <1>2, <1>3, TopUpdate
<1>5. \A k \in 1 .. n : cstack'[k].fn = cstack[k].fn /\ cstack'[k].next = cstack[k].next
  BY <1>2, <1>3, <1>4
<1>6. /\ Top.fn \in Local /\ Top.emitted \in Nat /\ Size(Top.fn) \in Nat
      /\ Top.emitted <= Size(Top.fn)
  BY <1>1, <1>2, BodyType DEF Frames, CompileStackInv
<1>7. done \subseteq done' /\ done' \subseteq done \cup {Top.fn}
      /\ (Top.emitted + 1 = Size(Top.fn) /\ ~body[Top.fn].bad => Top.fn \in done')
  BY DEF Emit
<1>8. TypeOK'
  <2>1. cur' \in 0 .. PlaneMax
    BY <1>1, ModuleAssumption DEF TypeOK
  <2> QED  BY <1>1, <1>2, <1>4, <1>6, <1>7, <2>1 DEF TypeOK
<1>9. SlotInv'
  BY <1>1, <1>2, <1>7 DEF SlotInv, CompileStackInv
<1>10. WriteXorExecute'
  BY <1>1, <1>2 DEF WriteXorExecute
<1>11. CompileStackInv'
  <2>1. \A k \in 1 .. n : cstack'[k].emitted <= Size(cstack'[k].fn)
    BY <1>1, <1>2, <1>3, <1>4, <1>6 DEF CompileStackInv
  <2>2. \A k \in 1 .. n : slot[cstack'[k].fn] # Null /\ (k < n => cstack'[k].fn \in done')
    BY <1>1, <1>5, <1>7 DEF CompileStackInv
  <2>3. Top' = t
    BY <1>4 DEF Top
  <2>4. /\ pc = "compile" /\ pc' = "compile" /\ cstack' # <<>> /\ Len(cstack') = n /\ body' = body
        /\ t.fn = Top.fn /\ t.emitted = Top.emitted + 1 /\ slot' = slot
        /\ (Top.emitted + 1 = Size(Top.fn) /\ ~body[Top.fn].bad => Top.fn \in done')
    BY <1>1, <1>3, <1>4, <1>7
  <2> QED  BY ONLY <2>1, <2>2, <2>3, <2>4 DEF CompileStackInv, Emitted, Size
<1>12. LinkInv'
  <2> SUFFICES ASSUME ~failed PROVE LinkInv'
    BY <1>1 DEF LinkInv
  <2>1. Top'.fn = Top.fn
    BY <1>3, <1>4 DEF Top
  <2>2. \A f \in Local : slot[f] # Null => f \in done' \/ f = Top'.fn
    BY <1>1, <1>7, <2>1 DEF LinkInv
  <2>3. \A f \in done' : \/ \A g \in CalleesOf(f) : slot[g] # Null
                         \/ \E k \in 1 .. n : cstack'[k].fn = f
    BY <1>1, <1>2, <1>5, <1>7 DEF LinkInv
  <2>4. \A k \in 1 .. n : \A j \in 1 .. Len(Callees(cstack'[k].fn)) :
          j < cstack'[k].next => slot[Callees(cstack'[k].fn)[j]] # Null
    BY <1>1, <1>5 DEF LinkInv
  <2> QED  BY <1>1, <1>4, <2>2, <2>3, <2>4 DEF LinkInv, CalleesOf, Callees
<1>13. NativeInv'
  BY <1>1 DEF NativeInv, TopFn
<1> QED  BY <1>8, <1>9, <1>10, <1>11, <1>12, <1>13 DEF IInv

LEMMA CompileCalleePreserves ==
  ASSUME IInv, CompileCallee
  PROVE  IInv'
<1> DEFINE n == Len(cstack)
           t == [cstack[n] EXCEPT !.next = @ + 1]
           g == Callees(Top.fn)[Top.next]
           stepped == [cstack EXCEPT ![n] = t]
<1>1. /\ TypeOK /\ SlotInv /\ WriteXorExecute /\ CompileStackInv /\ LinkInv /\ NativeInv
      /\ pc = "compile" /\ cstack # <<>> /\ Emitted(Top) /\ ~body[Top.fn].bad
      /\ Top.next <= Len(Callees(Top.fn))
      /\ \/ slot[g] = Null /\ StartCompile(g, stepped)
         \/ slot[g] # Null /\ cstack' = stepped /\ UNCHANGED slot
      /\ UNCHANGED <<body, cur, rx, pc, entry, nstack, rcx, retV, done, failed>>
  BY DEF BodyDone, CalleesLeft, NextCallee, Linked, IInv, CompileCallee, Compiling, Top
<1>2. /\ n \in Nat \ {0} /\ n \in 1 .. n /\ Top \in Frames /\ Top = cstack[n]
      /\ cstack \in Seq(Frames) /\ rx = {}
  BY <1>1, TopIsFrame DEF TypeOK, Top, WriteXorExecute
<1>3. t \in Frames /\ t.fn = Top.fn /\ t.emitted = Top.emitted /\ t.next = Top.next + 1
  BY <1>2, SteppedFrame
<1>4. /\ stepped \in Seq(Frames) /\ Len(stepped) = n /\ stepped # <<>>
      /\ stepped[n] = t
      /\ \A k \in 1 .. n : k # n => stepped[k] = cstack[k]
  BY <1>1, <1>2, <1>3, TopUpdate
<1>5. \A k \in 1 .. n : stepped[k].fn = cstack[k].fn /\ stepped[k].emitted = cstack[k].emitted
  BY <1>2, <1>3, <1>4
<1>6. /\ Top.fn \in Local /\ Top.next \in Nat \ {0} /\ Top.fn \in done
      /\ Callees(Top.fn) \in Seq(Fn) /\ Len(Callees(Top.fn)) \in Nat
  BY <1>1, <1>2, BodyType DEF Frames, CompileStackInv
<1>7. Top.next \in 1 .. Len(Callees(Top.fn)) /\ g \in Fn
  <2>1. Top.next \in 1 .. Len(Callees(Top.fn))
    BY <1>1, <1>6
  <2> QED  BY <1>6, <2>1, ElementOfSeq
<1> HIDE DEF stepped, t, g
(* Whatever the next callee needs, every frame below it has emitted its    *)
(* code, and its link is made.                                             *)
<1>8. ASSUME \A h \in Fn : slot[h] # Null => slot'[h] # Null, slot'[g] # Null, ~failed,
             NEW k \in 1 .. n, NEW j \in 1 .. Len(Callees(stepped[k].fn)),
             j < stepped[k].next
      PROVE  slot'[Callees(stepped[k].fn)[j]] # Null
  <2>0. cstack[k] \in Frames /\ stepped[k].fn = cstack[k].fn
    BY <1>2, <1>5, ElementOfSeq
  <2>1. Callees(cstack[k].fn)[j] \in Fn
    BY <1>1, <2>0, BodyType, ElementOfSeq DEF Frames
  <2>2. CASE j < cstack[k].next
    <3>1. slot[Callees(cstack[k].fn)[j]] # Null
      BY <1>1, <1>8, <2>0, <2>2 DEF LinkInv
    <3> QED  BY <1>8, <2>0, <2>1, <3>1
  <2>3. CASE ~(j < cstack[k].next)
    <3>1. k = n
      BY <1>4, <1>8, <2>3
    <3>2. j = Top.next
      BY <1>2, <1>3, <1>4, <1>6, <1>8, <2>3, <3>1
    <3> QED  BY <1>2, <1>8, <2>0, <3>1, <3>2 DEF g
  <2> QED  BY <2>2, <2>3
<1>9. CASE slot[g] # Null /\ cstack' = stepped /\ UNCHANGED slot
  <2>1. TypeOK'
    BY <1>1, <1>2, <1>4, <1>9 DEF TypeOK
  <2>2. SlotInv' /\ WriteXorExecute' /\ NativeInv'
    BY <1>1, <1>9 DEF SlotInv, WriteXorExecute, NativeInv, TopFn
  <2>3. Top' = t
    BY <1>4, <1>9 DEF Top
  <2>4. CompileStackInv'
    BY <1>1, <1>3, <1>4, <1>5, <1>6, <1>9, <2>3 DEF CompileStackInv, Emitted, Size
  <2>5. LinkInv'
    <3> SUFFICES ASSUME ~failed PROVE LinkInv'
      BY <1>1 DEF LinkInv
    <3>1. \A f \in Local : slot[f] # Null => f \in done \/ f = Top'.fn
      BY <1>1, <1>3, <2>3 DEF LinkInv
    <3>2. \A f \in done : \/ \A h \in CalleesOf(f) : slot[h] # Null
                           \/ \E k \in 1 .. n : stepped[k].fn = f
      BY <1>1, <1>5 DEF LinkInv
    <3>3. /\ slot' = slot /\ done' = done /\ body' = body /\ failed' = failed
          /\ cstack' = stepped /\ Len(stepped) = n /\ stepped # <<>> /\ ~failed
          /\ \A f \in Fn : slot[f] # Null => slot'[f] # Null
          /\ slot'[g] # Null
      BY <1>1, <1>4, <1>9
    <3>4. \A k \in 1 .. n : \A j \in 1 .. Len(Callees(stepped[k].fn)) :
            j < stepped[k].next => slot'[Callees(stepped[k].fn)[j]] # Null
      BY <1>8, <3>3
    <3> QED  BY ONLY <3>1, <3>2, <3>3, <3>4 DEF LinkInv, CalleesOf, Callees
  <2> QED  BY <2>1, <2>2, <2>4, <2>5 DEF IInv
<1>10. CASE slot[g] = Null /\ StartCompile(g, stepped)
  <2>1. g \in Local
    BY <1>1, <1>7, <1>10, ModuleAssumption DEF SlotInv, Fn, Local, Import, Null, WasmToC
  <2>2. /\ slot' \in [Fn -> (0 .. PlaneMax) \cup {Null, WasmToC}]
        /\ slot'[g] # Null /\ slot'[g] # WasmToC /\ g \notin Import
        /\ \A h \in Fn : h # g => slot'[h] = slot[h]
        /\ \A h \in Fn : slot[h] # Null => slot'[h] # Null
        /\ cstack' \in Seq(Frames) /\ cstack' # <<>>
        /\ Len(cstack') = n + 1
        /\ \A k \in 1 .. n : cstack'[k] = stepped[k]
        /\ cstack'[n + 1] = Activation(g)
    BY <1>1, <1>4, <1>10, <2>1, StartCompileEffect
  <2>3. TypeOK'
    <3>1. slot' \in [Fn -> (0 .. PlaneMax) \cup {Null, WasmToC}] /\ cstack' \in Seq(Frames)
      BY <2>2
    <3>2. /\ TypeOK /\ rx = {}
          /\ UNCHANGED <<body, cur, rx, pc, entry, nstack, rcx, retV, done, failed>>
      BY <1>1, <1>2
    <3> QED  BY ONLY <3>1, <3>2 DEF TypeOK
  <2>4. SlotInv'
    <3>1. /\ \A h \in Fn : slot'[h] = IF h = g THEN slot'[g] ELSE slot[h]
          /\ slot'[g] # Null /\ slot'[g] # WasmToC /\ g \notin Import
      BY <2>2
    <3>2. SlotInv /\ done' = done /\ done \subseteq Local
      BY <1>1 DEF TypeOK
    <3> QED  BY ONLY <3>1, <3>2, ImportsAndLocals DEF SlotInv
  <2>5. WriteXorExecute'
    BY <1>1 DEF WriteXorExecute
  <2>6. \A k \in 1 .. n + 1 : k \in 1 .. n \/ k = n + 1
    BY <1>2
  <2>7. Top' = Activation(g) /\ Activation(g).fn = g /\ Activation(g).emitted = 0
        /\ Activation(g).next = 1
    BY <2>2 DEF Top, Activation
  <2>8. CompileStackInv'
    <3>1. Size(g) \in Nat \ {0}
      BY <1>1, <2>1, BodyType
    <3>2. \A k \in 1 .. n : /\ slot'[cstack'[k].fn] # Null
                            /\ cstack'[k].emitted <= Size(cstack'[k].fn)
                            /\ cstack'[k].fn \in done
      <4> SUFFICES ASSUME NEW k \in 1 .. n
                   PROVE  /\ slot'[cstack'[k].fn] # Null
                          /\ cstack'[k].emitted <= Size(cstack'[k].fn)
                          /\ cstack'[k].fn \in done
        OBVIOUS
      <4>1. cstack'[k].fn = cstack[k].fn /\ cstack'[k].emitted = cstack[k].emitted
        BY <1>5, <2>2
      <4>2. cstack[k].fn \in Local /\ cstack[k].fn \in Fn
        <5>1. cstack[k] \in Frames
          BY <1>2, ElementOfSeq
        <5> QED  BY <5>1, ModuleAssumption DEF Frames, Local, Fn
      <4>3. slot[cstack[k].fn] # Null /\ cstack[k].emitted <= Size(cstack[k].fn)
        BY <1>1 DEF CompileStackInv
      <4>4. cstack[k].fn \in done
        <5>1. k < n \/ k = n
          BY <1>2
        <5> QED  BY <1>1, <1>2, <1>6, <5>1 DEF CompileStackInv
      <4> QED  BY <2>2, <4>1, <4>2, <4>3, <4>4
    <3> QED  BY <1>1, <2>2, <2>6, <2>7, <3>1, <3>2 DEF CompileStackInv, Emitted, Size
  <2>9. LinkInv'
    <3> SUFFICES ASSUME ~failed PROVE LinkInv'
      BY <1>1 DEF LinkInv
    <3>1. \A f \in Local : slot'[f] # Null => f \in done \/ f = Top'.fn
      <4>1. \A f \in Local : f \in Fn
        BY ModuleAssumption DEF Local, Fn
      <4> QED  BY <1>1, <1>6, <2>2, <2>7, <4>1 DEF LinkInv
    <3>2. ASSUME NEW f \in done
          PROVE  \/ \A h \in CalleesOf(f) : slot'[h] # Null
                 \/ \E k \in 1 .. n + 1 : cstack'[k].fn = f
      <4>1. CalleesOf(f) \subseteq Fn
        BY <1>1, BodyType DEF TypeOK
      <4>2. CASE \A h \in CalleesOf(f) : slot[h] # Null
        BY <2>2, <4>1, <4>2
      <4>3. ASSUME NEW k \in 1 .. n, cstack[k].fn = f
            PROVE  \E m \in 1 .. n + 1 : cstack'[m].fn = f
        BY <1>2, <1>5, <2>2, <4>3
      <4> QED  BY <1>1, <4>2, <4>3 DEF LinkInv
    <3>3. ASSUME NEW k \in 1 .. n + 1, NEW j \in 1 .. Len(Callees(cstack'[k].fn)),
                 j < cstack'[k].next
          PROVE  slot'[Callees(cstack'[k].fn)[j]] # Null
      <4>1. CASE k \in 1 .. n
        BY <1>8, <2>2, <3>3, <4>1
      <4>2. CASE k = n + 1
        BY <2>2, <2>7, <3>3, <4>2
      <4> QED  BY <2>6, <4>1, <4>2
    <3> QED  BY <1>1, <2>2, <3>1, <3>2, <3>3 DEF LinkInv, CalleesOf, Callees
  <2>10. NativeInv'
    <3>1. \A k \in 1 .. Len(nstack) : slot'[nstack[k]] # Null
      BY <1>1, <2>2, ElementOfSeq DEF NativeInv, TypeOK
    <3>2. nstack = <<>> => slot'[entry] # Null
      BY <1>1, <2>2, ModuleAssumption DEF NativeInv
    <3> QED  BY <1>1, <3>1, <3>2 DEF NativeInv, TopFn
  <2> QED  BY <2>3, <2>4, <2>5, <2>8, <2>9, <2>10 DEF IInv
<1> QED  BY <1>1, <1>9, <1>10

LEMMA CompileReturnPreserves ==
  ASSUME IInv, CompileReturn
  PROVE  IInv'
<1> DEFINE n == Len(cstack)
<1>1. /\ TypeOK /\ SlotInv /\ WriteXorExecute /\ CompileStackInv /\ LinkInv /\ NativeInv
      /\ pc = "compile" /\ cstack # <<>> /\ Emitted(Top) /\ ~body[Top.fn].bad
      /\ ~(Top.next <= Len(Callees(Top.fn)))
      /\ cstack' = Below
      /\ UNCHANGED <<body, slot, cur, entry, nstack, rcx, retV, done, failed>>
  BY DEF BodyDone, CalleesLeft, IInv, CompileReturn, Compiling
<1>2. /\ \/ Below # <<>> /\ pc' = pc /\ rx' = rx
         \/ Below = <<>> /\ nstack = <<>> /\ pc' = "enter" /\ rx' = rx
         \/ Below = <<>> /\ nstack # <<>> /\ pc' = "native" /\ rx' = rx \cup Covered(cur)
  BY DEF CompileReturn, ProtectForRuntime
<1>3. /\ n \in Nat \ {0} /\ Top \in Frames /\ Top = cstack[n] /\ rx = {}
      /\ Below \in Seq(Frames) /\ Len(Below) = n - 1
      /\ \A k \in 1 .. Len(Below) : Below[k] = cstack[k]
  BY <1>1, TopIsFrame, BelowIsStack DEF TypeOK, Top, WriteXorExecute
<1>4. Top.fn \in done /\ Top.fn \in Local /\ Top.next \in Nat
  BY <1>1, <1>3 DEF CompileStackInv, Frames
<1>5. \A k \in 1 .. n - 1 : k \in 1 .. n /\ k < n /\ Below[k] = cstack[k]
  BY <1>3
<1>6. TypeOK'
  BY <1>1, <1>2, <1>3 DEF TypeOK, Covered
<1>7. SlotInv'
  BY <1>1 DEF SlotInv
<1>8. WriteXorExecute'
  BY <1>1, <1>2, <1>3 DEF WriteXorExecute, Covered
<1>9. CompileStackInv'
  <2>1. \A k \in 1 .. n - 1 : /\ slot[Below[k].fn] # Null
                              /\ Below[k].emitted <= Size(Below[k].fn)
                              /\ Below[k].fn \in done
    BY <1>1, <1>5 DEF CompileStackInv
  <2>2. Below # <<>> => Below[n - 1].fn \in done
    <3>1. Below # <<>> => n - 1 \in 1 .. n - 1
      BY <1>3, EmptySeq
    <3> QED  BY <2>1, <3>1
  <2> QED  BY <1>1, <1>2, <1>3, <2>1, <2>2 DEF CompileStackInv, Top, Size
<1>10. LinkInv'
  <2> SUFFICES ASSUME ~failed PROVE LinkInv'
    BY <1>1 DEF LinkInv
  <2>1. \A f \in Local : slot[f] # Null => f \in done
    BY <1>1, <1>4 DEF LinkInv
  <2>2. \A h \in CalleesOf(Top.fn) : slot[h] # Null
    <3> SUFFICES ASSUME NEW j \in 1 .. Len(Callees(Top.fn))
                 PROVE  slot[Callees(Top.fn)[j]] # Null
      BY DEF CalleesOf
    <3>1. j < Top.next
      BY <1>1, <1>4, BodyType
    <3>2. n \in 1 .. n
      BY <1>3
    <3> QED  BY <1>1, <1>3, <3>1, <3>2 DEF LinkInv
  <2>3. \A f \in done : \/ \A h \in CalleesOf(f) : slot[h] # Null
                         \/ \E k \in 1 .. n - 1 : Below[k].fn = f
    <3> SUFFICES ASSUME NEW f \in done, NEW k \in 1 .. n, cstack[k].fn = f
                 PROVE  \/ \A h \in CalleesOf(f) : slot[h] # Null
                        \/ \E m \in 1 .. n - 1 : Below[m].fn = f
      BY <1>1 DEF LinkInv
    <3>1. CASE k = n
      BY <1>3, <2>2, <3>1
    <3>2. CASE k # n
      <4>1. k \in 1 .. n - 1
        BY <1>3, <3>2
      <4> QED  BY <1>5, <4>1
    <3> QED  BY <3>1, <3>2
  <2>4. \A k \in 1 .. n - 1 : \A j \in 1 .. Len(Callees(Below[k].fn)) :
          j < Below[k].next => slot[Callees(Below[k].fn)[j]] # Null
    <3> SUFFICES ASSUME NEW k \in 1 .. n - 1 
                 PROVE  \A j \in 1 .. Len(Callees(Below[k].fn)) :
                          j < Below[k].next => slot[Callees(Below[k].fn)[j]] # Null
      OBVIOUS
    <3>1. Below[k] = cstack[k] /\ k \in 1 .. Len(cstack)
      BY <1>3, <1>5
    <3>2. \A j \in 1 .. Len(Callees(cstack[k].fn)) :
            j < cstack[k].next => slot[Callees(cstack[k].fn)[j]] # Null
      BY <1>1, <3>1 DEF LinkInv
    <3> QED  BY ONLY <3>1, <3>2
  <2> QED  BY <1>1, <1>3, <2>1, <2>3, <2>4 DEF LinkInv, CalleesOf, Callees
<1>11. NativeInv'
  BY <1>1, <1>2 DEF NativeInv, TopFn
<1> QED  BY <1>6, <1>7, <1>8, <1>9, <1>10, <1>11 DEF IInv

LEMMA CompileThrowPreserves ==
  ASSUME IInv, CompileThrow
  PROVE  IInv'
<1>1. /\ TypeOK /\ SlotInv /\ WriteXorExecute /\ NativeInv
      /\ failed' = TRUE /\ cstack' = <<>> /\ nstack' = <<>>
      /\ pc' \in {"idle", "terminated"} /\ pc = "compile"
      /\ UNCHANGED <<body, slot, cur, rx, entry, rcx, retV, done>>
  BY DEF IInv, CompileThrow, Compiling
<1>2. Len(<<>>) = 0 /\ <<>> \in Seq(Frames) /\ <<>> \in Seq(Fn)
  BY EmptySeq
<1>3. TypeOK'
  BY <1>1, <1>2 DEF TypeOK, Covered
<1>4. SlotInv' /\ WriteXorExecute' /\ LinkInv'
  BY <1>1 DEF SlotInv, WriteXorExecute, LinkInv
<1>5. CompileStackInv' /\ NativeInv'
  BY <1>1, <1>2 DEF CompileStackInv, NativeInv
<1> QED  BY <1>3, <1>4, <1>5 DEF IInv

-----------------------------------------------------------------------------
(* Native execution. *)

(* What holds while generated code runs: its page permissions, and that    *)
(* the function being executed is finished and linked.                     *)
LEMMA NativeFacts ==
  ASSUME IInv, Native
  PROVE  /\ TypeOK /\ SlotInv /\ WriteXorExecute /\ CompileStackInv /\ LinkInv /\ NativeInv
         /\ pc = "native" /\ nstack # <<>> /\ nstack \in Seq(Fn)
         /\ cstack = <<>> /\ Len(cstack) = 0 /\ rx = Covered(cur)
         /\ Len(nstack) \in Nat \ {0} /\ TopFn \in Fn /\ slot[TopFn] # Null
         /\ ~failed /\ TopFn \in Local =>
              TopFn \in done /\ \A g \in CalleesOf(TopFn) : slot[g] # Null
<1>1. /\ TypeOK /\ SlotInv /\ WriteXorExecute /\ CompileStackInv /\ LinkInv /\ NativeInv
      /\ pc = "native" /\ nstack # <<>> /\ nstack \in Seq(Fn)
  BY DEF IInv, Native, TypeOK
<1>2. cstack = <<>> /\ Len(cstack) = 0 /\ rx = Covered(cur)
  BY <1>1 DEF CompileStackInv, WriteXorExecute
<1>3. Len(nstack) \in Nat \ {0} /\ TopFn \in Fn
  BY <1>1, PoppedIsStack
<1>4. Len(nstack) \in 1 .. Len(nstack)
  BY <1>3
<1>5. slot[TopFn] # Null
  BY <1>1, <1>4 DEF NativeInv, TopFn
<1>6. ~failed /\ TopFn \in Local =>
        TopFn \in done /\ \A g \in CalleesOf(TopFn) : slot[g] # Null
  BY <1>1, <1>2, <1>5 DEF LinkInv
<1> QED  BY <1>1, <1>2, <1>3, <1>5, <1>6

(* Pushing a linked function on the native stack, with its number in ecx   *)
(* if it is an import.                                                     *)
LEMMA PushPreservesNative ==
  ASSUME TypeOK, NativeInv, nstack # <<>>, TopFn \in Local, NEW g \in Fn,
         nstack' = Append(nstack, g),
         rcx' = IF g \in Import THEN g ELSE rcx,
         \A h \in Fn : slot[h] # Null => slot'[h] # Null, slot'[g] # Null,
         pc' \in {"native", "compile"}
  PROVE  NativeInv' /\ nstack' \in Seq(Fn) /\ nstack' # <<>> /\ rcx' \in 0 .. NImports
<1>1. nstack \in Seq(Fn)
  BY DEF TypeOK
<1>2. /\ nstack' \in Seq(Fn) /\ nstack' # <<>> /\ Len(nstack') = Len(nstack) + 1
      /\ \A k \in 1 .. Len(nstack) : nstack'[k] = nstack[k]
      /\ nstack'[Len(nstack) + 1] = g
  BY <1>1, AppendProperties
<1>3. Len(nstack) \in Nat \ {0}
  BY <1>1, PoppedIsStack
<1>4. \A k \in 1 .. Len(nstack') : k \in 1 .. Len(nstack) \/ k = Len(nstack')
  BY <1>2, <1>3
<1>5. rcx' \in 0 .. NImports
  BY ModuleAssumption DEF TypeOK, Import
<1>6. \A k \in 1 .. Len(nstack') : slot'[nstack'[k]] # Null
  BY <1>1, <1>2, <1>4, ElementOfSeq DEF NativeInv
<1>7. \A k \in 1 .. Len(nstack) : nstack[k] \notin Import
  BY ModuleAssumption DEF NativeInv, TopFn, Local, Import
<1>8. \A k \in 1 .. Len(nstack') : nstack'[k] \in Import => k = Len(nstack')
  BY <1>2, <1>4, <1>7
<1>9. TopFn' \in Import => rcx' = TopFn'
  BY <1>2 DEF TopFn
<1> QED  BY <1>2, <1>5, <1>6, <1>8, <1>9 DEF NativeInv

LEMMA DirectCallPreserves ==
  ASSUME IInv, NEW g \in Fn, DirectCall(g)
  PROVE  IInv'
<1>1. /\ Native /\ TopFn \in Local /\ g \in CalleesOf(TopFn)
      /\ UNCHANGED <<body, slot, cur, rx, entry, cstack, retV, done, failed>>
  BY DEF DirectCall
<1>2. /\ TypeOK /\ SlotInv /\ WriteXorExecute /\ CompileStackInv /\ LinkInv /\ NativeInv
      /\ pc = "native" /\ nstack # <<>> /\ nstack \in Seq(Fn) /\ cstack = <<>>
  BY <1>1, NativeFacts
<1>3. SlotInv' /\ LinkInv'
  BY <1>1, <1>2 DEF SlotInv, LinkInv, CalleesOf, Callees, Top
<1>4. CASE /\ slot[g] # Null
           /\ nstack' = Append(nstack, g)
           /\ rcx' = IF g \in Import THEN g ELSE rcx
           /\ UNCHANGED pc
  <2>1. NativeInv' /\ nstack' \in Seq(Fn) /\ rcx' \in 0 .. NImports
    BY <1>1, <1>2, <1>4, PushPreservesNative
  <2>2. TypeOK' /\ WriteXorExecute' /\ CompileStackInv'
    BY <1>1, <1>2, <1>4, <2>1
       DEF TypeOK, Covered, WriteXorExecute, CompileStackInv, Top, Emitted, Size
  <2> QED  BY <1>3, <2>1, <2>2 DEF IInv
<1>5. CASE slot[g] = Null /\ pc' = "crashed" /\ UNCHANGED <<nstack, rcx>>
  <2>1. TypeOK' /\ WriteXorExecute' /\ CompileStackInv' /\ NativeInv'
    BY <1>1, <1>2, <1>5
       DEF TypeOK, Covered, WriteXorExecute, CompileStackInv, Top, Emitted, Size, NativeInv, TopFn
  <2> QED  BY <1>3, <2>1 DEF IInv
<1> QED  BY <1>4, <1>5 DEF Linked, DirectCall

LEMMA IndirectCallPreserves ==
  ASSUME IInv, NEW t, NEW i, IndirectCall(t, i)
  PROVE  IInv'
<1> DEFINE g == Table[i]
           passes == i \in DOMAIN Table /\ g \in Fn /\ TypeOf[g] = t
<1>1. /\ Native /\ TopFn \in Local
      /\ UNCHANGED <<body, cur, entry, done, failed>>
  BY DEF IndirectCall
<1>2. /\ TypeOK /\ SlotInv /\ WriteXorExecute /\ CompileStackInv /\ LinkInv /\ NativeInv
      /\ pc = "native" /\ nstack # <<>> /\ nstack \in Seq(Fn)
      /\ cstack = <<>> /\ Len(cstack) = 0 /\ rx = Covered(cur)
  BY <1>1, NativeFacts
<1>3. CASE /\ pc' = "leave" /\ retV' = FALSE /\ nstack' = <<>>
           /\ UNCHANGED <<slot, rx, cstack, rcx>>
  <2>1. Len(<<>>) = 0 /\ <<>> \in Seq(Fn)
    BY EmptySeq
  <2>2. TypeOK'
    BY <1>1, <1>2, <1>3, <2>1 DEF TypeOK, Covered
  <2>4. NativeInv'
    BY <1>1, <1>2, <1>3, <2>1 DEF NativeInv
  <2>3. SlotInv' /\ WriteXorExecute' /\ CompileStackInv' /\ LinkInv'
    BY <1>1, <1>2, <1>3
       DEF SlotInv, WriteXorExecute, Covered, CompileStackInv, LinkInv, CalleesOf, Callees, Top
  <2> QED  BY <2>2, <2>3, <2>4 DEF IInv
<1>4. CASE /\ passes
           /\ nstack' = Append(nstack, g)
           /\ rcx' = IF g \in Import THEN g ELSE rcx
           /\ slot[g] # Null /\ UNCHANGED <<slot, rx, pc, cstack, retV>>
  <2>1. NativeInv' /\ nstack' \in Seq(Fn) /\ rcx' \in 0 .. NImports
    BY <1>1, <1>2, <1>4, PushPreservesNative
  <2>2. TypeOK' /\ WriteXorExecute' /\ CompileStackInv'
    BY <1>1, <1>2, <1>4, <2>1
       DEF TypeOK, Covered, WriteXorExecute, CompileStackInv, Top, Emitted, Size
  <2>3. SlotInv' /\ LinkInv'
    BY <1>1, <1>2, <1>4 DEF SlotInv, LinkInv, CalleesOf, Callees, Top
  <2> QED  BY <2>1, <2>2, <2>3 DEF IInv
<1>5. CASE /\ passes
           /\ nstack' = Append(nstack, g)
           /\ rcx' = IF g \in Import THEN g ELSE rcx
           /\ slot[g] = Null /\ rx' = rx \ Covered(cur) /\ StartCompile(g, <<>>)
           /\ pc' = "compile" /\ UNCHANGED retV
  <2>1. g \in Local /\ g \in Fn
    BY <1>2, <1>5, ModuleAssumption DEF SlotInv, Fn, Local, Import, Null, WasmToC
  <2>2. <<>> \in Seq(Frames) /\ Len(<<>>) = 0
    BY EmptySeq
  <2>3. /\ slot' \in [Fn -> (0 .. PlaneMax) \cup {Null, WasmToC}]
        /\ slot'[g] # Null /\ slot'[g] # WasmToC /\ g \notin Import
        /\ \A h \in Fn : h # g => slot'[h] = slot[h]
        /\ \A h \in Fn : slot[h] # Null => slot'[h] # Null
        /\ cstack' \in Seq(Frames) /\ cstack' # <<>>
        /\ Len(cstack') = Len(<<>>) + 1
        /\ cstack'[Len(cstack')] = Activation(g)
    BY <1>2, <1>5, <2>1, <2>2, StartCompileEffect
  <2>4. NativeInv' /\ nstack' \in Seq(Fn) /\ rcx' \in 0 .. NImports
    BY <1>1, <1>2, <1>5, <2>1, <2>3, PushPreservesNative
  <2>5. rx' = {}
    BY <1>2, <1>5
  <2>6. TypeOK' /\ WriteXorExecute'
    BY <1>1, <1>2, <1>5, <2>3, <2>4, <2>5 DEF TypeOK, WriteXorExecute
  <2>7. SlotInv'
    <3>1. \A f \in Import : f \in Fn /\ f # g
      BY <2>3, ModuleAssumption DEF Fn, Import
    <3>2. \A f \in Local : f \in Fn
      BY ModuleAssumption DEF Fn, Local
    <3> QED  BY <1>1, <1>2, <2>3, <3>1, <3>2 DEF SlotInv, TypeOK
  <2>8. CompileStackInv'
    <3>1. Size(g) \in Nat \ {0}
      BY <1>2, <2>1, BodyType
    <3> QED  BY <1>1, <1>5, <2>2, <2>3, <3>1
             DEF CompileStackInv, Activation, Top, Emitted, Size
  <2>9. LinkInv'
    <3> SUFFICES ASSUME ~failed PROVE LinkInv'
      BY <1>1 DEF LinkInv
    <3>1. \A h \in Local : slot'[h] # Null => h \in done \/ h = g
      <4> SUFFICES ASSUME NEW h \in Local, slot'[h] # Null, h # g PROVE h \in done
        OBVIOUS
      <4>1. h \in Fn
        BY ModuleAssumption DEF Fn, Local
      <4>2. slot[h] # Null
        BY <2>3, <4>1
      <4>3. cstack = <<>> /\ \A f \in Local : slot[f] # Null => f \in done \/ cstack # <<>>
        BY <1>2, <1>5 DEF LinkInv
      <4> QED  BY ONLY <4>2, <4>3, h \in Local
    <3>2. \A f \in done : \A h \in CalleesOf(f) : slot'[h] # Null
      <4> SUFFICES ASSUME NEW f \in done, NEW h \in CalleesOf(f) PROVE slot'[h] # Null
        OBVIOUS
      <4>1. h \in Fn
        BY <1>2, BodyType DEF TypeOK
      <4> QED  BY <1>2, <2>3, <4>1 DEF LinkInv
    <3> QED  BY <1>1, <2>2, <2>3, <3>1, <3>2 DEF LinkInv, Activation, Top, CalleesOf, Callees
  <2> QED  BY <2>4, <2>6, <2>7, <2>8, <2>9 DEF IInv
<1> QED  BY <1>3, <1>4, <1>5 DEF Linked, Accepts, IndirectCall, UnprotectRuntime

LEMMA NativeReturnPreserves ==
  ASSUME IInv, NativeReturn
  PROVE  IInv'
<1>1. /\ Native /\ nstack' = Popped
      /\ \/ Popped # <<>> /\ UNCHANGED <<pc, retV>>
         \/ Popped = <<>> /\ pc' = "leave" /\ retV' = TRUE
      /\ UNCHANGED <<body, slot, cur, rx, entry, cstack, rcx, done, failed>>
  BY DEF NativeReturn
<1>2. /\ TypeOK /\ SlotInv /\ WriteXorExecute /\ CompileStackInv /\ LinkInv /\ NativeInv
      /\ pc = "native" /\ nstack # <<>> /\ nstack \in Seq(Fn) /\ cstack = <<>>
      /\ Len(nstack) \in Nat \ {0}
  BY <1>1, NativeFacts
<1>3. /\ Popped \in Seq(Fn) /\ Len(Popped) = Len(nstack) - 1
      /\ \A k \in 1 .. Len(Popped) : Popped[k] = nstack[k]
  BY <1>2, PoppedIsStack
<1>4. \A k \in 1 .. Len(Popped) : k \in 1 .. Len(nstack) /\ k # Len(nstack)
  BY <1>2, <1>3
<1>5. \A k \in 1 .. Len(Popped) : slot[Popped[k]] # Null /\ Popped[k] \notin Import
  BY <1>2, <1>3, <1>4 DEF NativeInv
<1>6. Popped # <<>> => Len(Popped) \in 1 .. Len(Popped)
  BY <1>3, EmptySeq
<1>7. NativeInv'
  BY <1>1, <1>2, <1>5, <1>6 DEF NativeInv, TopFn
<1>8. TypeOK' /\ WriteXorExecute' /\ CompileStackInv'
  BY <1>1, <1>2, <1>3
     DEF TypeOK, Covered, WriteXorExecute, CompileStackInv, Top, Emitted, Size
<1>9. SlotInv' /\ LinkInv'
  BY <1>1, <1>2 DEF SlotInv, LinkInv, CalleesOf, Callees, Top
<1> QED  BY <1>7, <1>8, <1>9 DEF IInv

LEMMA EndPreserves ==
  ASSUME IInv, ReentryThrow \/ RunOff
  PROVE  IInv'
<1>1. /\ Native /\ pc' \in {"terminated", "crashed"}
      /\ nstack' = <<>> \/ (pc' = "crashed" /\ nstack' = nstack)
      /\ UNCHANGED <<body, slot, cur, rx, entry, cstack, rcx, retV, done, failed>>
  BY DEF ReentryThrow, RunOff
<1>2. /\ TypeOK /\ SlotInv /\ WriteXorExecute /\ CompileStackInv /\ LinkInv /\ NativeInv
      /\ pc = "native" /\ nstack # <<>> /\ nstack \in Seq(Fn) /\ cstack = <<>>
  BY <1>1, NativeFacts
<1>3. Len(<<>>) = 0 /\ <<>> \in Seq(Fn)
  BY EmptySeq
<1>4. TypeOK' /\ WriteXorExecute' /\ CompileStackInv'
  BY <1>1, <1>2, <1>3
     DEF TypeOK, Covered, WriteXorExecute, CompileStackInv, Top, Emitted, Size
<1>5. NativeInv'
  BY <1>1, <1>2, <1>3 DEF NativeInv, TopFn
<1>6. SlotInv' /\ LinkInv'
  BY <1>1, <1>2 DEF SlotInv, LinkInv, CalleesOf, Callees, Top
<1> QED  BY <1>4, <1>5, <1>6 DEF IInv

LEMMA StutterPreserves == IInv /\ UNCHANGED vars => IInv'
<1> SUFFICES ASSUME IInv, UNCHANGED vars PROVE IInv'
  OBVIOUS
<1>1. UNCHANGED <<body, slot, cur, rx, pc, entry, cstack, nstack, rcx, retV, done, failed>>
  BY DEF vars
<1>2. TypeOK' /\ SlotInv' /\ WriteXorExecute'
  BY <1>1 DEF IInv, TypeOK, Covered, SlotInv, WriteXorExecute
<1>3. CompileStackInv' /\ LinkInv' /\ NativeInv'
  BY <1>1 DEF IInv, CompileStackInv, LinkInv, NativeInv, Top, Emitted, Size, TopFn,
              CalleesOf, Callees
<1> QED  BY <1>2, <1>3 DEF IInv

LEMMA NextPreserves == IInv /\ [Next]_vars => IInv'
<1> SUFFICES ASSUME IInv, [Next]_vars PROVE IInv'
  OBVIOUS
<1>1. CASE \E f \in Exports : ExternCall(f)
  BY <1>1, ExternCallPreserves
<1>2. CASE Enter \/ Leave
  BY <1>2, EnterPreserves, LeavePreserves
<1>3. CASE CompileStep
  BY <1>3, EmitPreserves, CompileCalleePreserves, CompileReturnPreserves,
     CompileThrowPreserves DEF CompileStep
<1>4. CASE \E g \in Fn : DirectCall(g)
  BY <1>4, DirectCallPreserves
<1>5. CASE \E t \in Types, i \in Indices : IndirectCall(t, i)
  BY <1>5, IndirectCallPreserves
<1>6. CASE NativeReturn \/ ReentryThrow \/ RunOff
  BY <1>6, NativeReturnPreserves, EndPreserves
<1>7. CASE UNCHANGED vars
  BY <1>7, StutterPreserves
<1> QED  BY <1>1, <1>2, <1>3, <1>4, <1>5, <1>6, <1>7 DEF Next

-----------------------------------------------------------------------------
(* The inductive invariant of lazy compilation.                            *)
THEOREM IInvAlways == Spec => []IInv
<1> QED  BY InitIInv, NextPreserves, PTL DEF Spec

(* Neither the write position nor the stacks leave their bounds: the test  *)
(* of SafePushCode stops a body at the end of the plane.                   *)
THEOREM TypeOKAlways == Spec => []TypeOK
<1>1. IInv => TypeOK
  BY DEF IInv
<1> QED  BY <1>1, IInvAlways, PTL

(* The plane is executable exactly while code runs and writable whenever   *)
(* SafePushCode stores to it, traps and compilations included.             *)
THEOREM WriteXorExecuteAlways == Spec => [](TypeOK /\ WriteXorExecute)
<1>1. IInv => TypeOK /\ WriteXorExecute
  BY DEF IInv
<1> QED  BY <1>1, IInvAlways, PTL

(* No direct call finds a null slot or an unfinished body unless some      *)
(* compilation has failed, whatever the call graph and the order in which  *)
(* functions are first reached.                                            *)
THEOREM RunningCodeIsLinkedAlways == Spec => []RunningCodeIsLinked
<1>1. IInv => RunningCodeIsLinked
  <2> SUFFICES ASSUME IInv, pc = "native", ~failed,
                      NEW k \in 1 .. Len(nstack), nstack[k] \in Local
               PROVE  /\ nstack[k] \in done
                      /\ CalleesOf(nstack[k]) \subseteq Import \cup done
    BY DEF RunningCodeIsLinked
  <2>1. TypeOK /\ NativeInv /\ LinkInv /\ cstack = <<>> /\ Len(<<>>) = 0
    BY DEF IInv, CompileStackInv
  <2>2. \A f \in Local : slot[f] # Null => f \in done
    BY <2>1 DEF LinkInv
  <2>3. nstack[k] \in done
    BY <2>1, <2>2 DEF NativeInv
  <2>4. \A g \in CalleesOf(nstack[k]) : slot[g] # Null
    BY <2>1, <2>3 DEF LinkInv
  <2>5. CalleesOf(nstack[k]) \subseteq Import \cup Local
    <3>1. CalleesOf(nstack[k]) \subseteq Fn
      BY <2>1, BodyType
    <3>2. Fn \subseteq Import \cup Local
      BY ModuleAssumption DEF Fn, Import, Local
    <3> QED  BY <3>1, <3>2
  <2> QED  BY <2>2, <2>3, <2>4, <2>5
<1> QED  BY <1>1, IInvAlways, PTL

(* A filled slot keeps its address: CompileFn tests or inherits a null slot*)
(* wherever it writes one.                                                 *)
THEOREM SlotsAreFilledOnceAlways == Spec => SlotsAreFilledOnce
<1> DEFINE Kept == \A f \in Fn : slot[f] # Null => slot'[f] = slot[f]
<1>1. ASSUME TypeOK, NEW h, NEW below, slot[h] = Null, StartCompile(h, below) PROVE Kept
  BY <1>1 DEF StartCompile, TypeOK
<1>2. IInv /\ [Next]_vars => [Kept]_vars
  <2> SUFFICES ASSUME IInv, [Next]_vars PROVE Kept
    OBVIOUS
  <2>1. TypeOK
    BY DEF IInv
  <2>2. CASE \E f \in Exports : ExternCall(f)
    BY <1>1, <2>1, <2>2 DEF Linked, ExternCall
  <2>3. CASE CompileCallee
    BY <1>1, <2>1, <2>3 DEF Linked, CompileCallee
  <2>4. CASE \E t \in Types, i \in Indices : IndirectCall(t, i)
    BY <1>1, <2>1, <2>4 DEF Linked, IndirectCall
  <2>5. CASE Emit \/ CompileReturn \/ CompileThrow
    BY <2>5 DEF Emit, CompileReturn, CompileThrow
  <2>6. CASE Enter \/ Leave \/ NativeReturn \/ ReentryThrow \/ RunOff \/ UNCHANGED vars
    BY <2>6 DEF Enter, Leave, NativeReturn, ReentryThrow, RunOff, vars
  <2>7. CASE \E g \in Fn : DirectCall(g)
    BY <2>7 DEF DirectCall
  <2> QED  BY <2>2, <2>3, <2>4, <2>5, <2>6, <2>7 DEF Next, CompileStep
<1> QED  BY <1>2, IInvAlways, PTL DEF Spec, SlotsAreFilledOnce

-----------------------------------------------------------------------------
(* Why CompileFn ends.                                                     *)

Descends ==
  \/ Unlinked' \subseteq Unlinked /\ Unlinked' # Unlinked
  \/ /\ Unlinked' = Unlinked
     /\ \/ Len(cstack') < Len(cstack)
        \/ /\ Len(cstack') = Len(cstack)
           /\ \/ CalleesToGo(Top)' \in 0 .. CalleesToGo(Top) - 1
              \/ /\ CalleesToGo(Top)' = CalleesToGo(Top)
                 /\ ChunksToGo(Top)' \in 0 .. ChunksToGo(Top) - 1

(* What the innermost activation has to do. *)
LEMMA TopHasToDo ==
  ASSUME TypeOK, CompileStackInv, Compiling
  PROVE  /\ Top \in Frames /\ Len(cstack) \in Nat \ {0} /\ Top = cstack[Len(cstack)] /\ cstack \in Seq(Frames)
         /\ Top.emitted \in Nat /\ Top.next \in Nat /\ Top.emitted <= Size(Top.fn)
         /\ Size(Top.fn) \in Nat /\ Len(Callees(Top.fn)) \in Nat /\ Callees(Top.fn) \in Seq(Fn)
<1>1. Top \in Frames /\ Len(cstack) \in 1 .. Len(cstack) /\ Len(cstack) \in Nat \ {0} /\ Top = cstack[Len(cstack)]
      /\ cstack \in Seq(Frames)
  BY TopIsFrame DEF Compiling, TypeOK, Top
<1>2. Top.emitted <= Size(Top.fn)
  BY <1>1 DEF CompileStackInv
<1>3. Top.fn \in Local /\ Top.emitted \in Nat /\ Top.next \in Nat
  BY <1>1 DEF Frames
<1>4. Size(Top.fn) \in Nat /\ Len(Callees(Top.fn)) \in Nat /\ Callees(Top.fn) \in Seq(Fn)
  BY <1>3, BodyType
<1> QED BY <1>1, <1>2, <1>3, <1>4

(* The innermost activation becomes t. *)
LEMMA NewTop ==
  ASSUME TypeOK, Compiling, NEW t \in Frames, t.fn = Top.fn,
         cstack' = [cstack EXCEPT ![Len(cstack)] = t], body' = body
  PROVE  /\ Len(cstack') = Len(cstack)
         /\ CalleesToGo(Top)' = Len(Callees(Top.fn)) + 1 - t.next
         /\ ChunksToGo(Top)' = Size(Top.fn) - t.emitted
<1> DEFINE s == [cstack EXCEPT ![Len(cstack)] = t]
<1>1. Len(s) = Len(cstack) /\ s[Len(cstack)] = t
  BY TopUpdate DEF TypeOK, Compiling
<1> HIDE DEF s
<1>2. cstack' = s
  BY DEF s
<1>3. Top' = t /\ Len(cstack') = Len(cstack)
  BY <1>1, <1>2 DEF Top
<1>4. Callees(Top.fn)' = Callees(Top.fn) /\ Size(Top.fn)' = Size(Top.fn)
  BY <1>3 DEF Callees, Size
<1> QED BY <1>3, <1>4 DEF CalleesToGo, ChunksToGo

LEMMA EmitDescends ==
  ASSUME TypeOK, CompileStackInv, Emit
  PROVE  Descends
<1> DEFINE t == [cstack[Len(cstack)] EXCEPT !.emitted = @ + 1]
<1>1. /\ Compiling /\ Top.emitted # Size(Top.fn)
      /\ cstack' = [cstack EXCEPT ![Len(cstack)] = t] /\ slot' = slot /\ body' = body
  BY DEF Emit, Compiling, Emitted
<1>2. /\ Top \in Frames /\ Top = cstack[Len(cstack)] /\ Top.emitted \in Nat /\ Top.next \in Nat
      /\ Top.emitted <= Size(Top.fn) /\ Size(Top.fn) \in Nat /\ Len(Callees(Top.fn)) \in Nat
  BY <1>1, TopHasToDo
<1>3. t \in Frames /\ t.fn = Top.fn /\ t.emitted = Top.emitted + 1 /\ t.next = Top.next
  BY <1>2, EmittedFrame
<1> HIDE DEF t
<1>4. /\ Len(cstack') = Len(cstack)
      /\ CalleesToGo(Top)' = Len(Callees(Top.fn)) + 1 - t.next
      /\ ChunksToGo(Top)' = Size(Top.fn) - t.emitted
  BY <1>1, <1>3, NewTop
<1>5. CalleesToGo(Top)' = CalleesToGo(Top)
  BY <1>3, <1>4 DEF CalleesToGo
<1>6. ChunksToGo(Top)' \in 0 .. ChunksToGo(Top) - 1
  <2>1. Size(Top.fn) - (Top.emitted + 1) \in 0 .. (Size(Top.fn) - Top.emitted) - 1
    <3> DEFINE e == Top.emitted
               z == Size(Top.fn)
    <3>1. e \in Nat /\ z \in Nat /\ e <= z /\ e # z
      BY <1>1, <1>2
    <3> HIDE DEF e, z
    <3>2. z - (e + 1) \in 0 .. (z - e) - 1
      BY ONLY <3>1
    <3> QED BY <3>2 DEF e, z
  <2> QED BY <1>3, <1>4, <2>1 DEF ChunksToGo
<1>7. Unlinked' = Unlinked
  BY <1>1 DEF Unlinked
<1> QED BY <1>4, <1>5, <1>6, <1>7 DEF Descends

LEMMA CompileCalleeDescends ==
  ASSUME TypeOK, CompileStackInv, CompileCallee
  PROVE  Descends
<1> DEFINE t == [cstack[Len(cstack)] EXCEPT !.next = @ + 1]
           g == Callees(Top.fn)[Top.next]
<1>1. /\ Compiling /\ Top.next <= Len(Callees(Top.fn)) /\ body' = body
      /\ \/ slot[g] = Null /\ slot' = [slot EXCEPT ![g] = cur]
         \/ slot' = slot /\ cstack' = [cstack EXCEPT ![Len(cstack)] = t]
  BY DEF CompileCallee, Compiling, CalleesLeft, Linked, StartCompile, NextCallee, Top
<1>2. /\ Top \in Frames /\ Top = cstack[Len(cstack)] /\ Top.emitted \in Nat /\ Top.next \in Nat
      /\ Len(Callees(Top.fn)) \in Nat /\ Callees(Top.fn) \in Seq(Fn)
  BY <1>1, TopHasToDo
<1>3. t \in Frames /\ t.fn = Top.fn /\ t.emitted = Top.emitted /\ t.next = Top.next + 1
  BY <1>2, SteppedFrame
<1>4. g \in Fn
  <2>1. Top.next \in 1 .. Len(Callees(Top.fn))
    BY <1>1, <1>2 DEF Frames
  <2> QED BY <1>2, <2>1, ElementOfSeq
<1> HIDE DEF t, g
<1>5. CASE slot[g] = Null /\ slot' = [slot EXCEPT ![g] = cur]
  <2>1. cur # Null /\ slot \in [Fn -> (0 .. PlaneMax) \cup {Null, WasmToC}]
    BY DEF TypeOK, Null
  <2>2. slot'[g] # Null /\ \A f \in Fn : f # g => slot'[f] = slot[f]
    BY <1>4, <1>5, <2>1
  <2>3. Unlinked' \subseteq Unlinked /\ g \in Unlinked /\ g \notin Unlinked'
    BY <1>4, <1>5, <2>2 DEF Unlinked
  <2> QED BY <2>3 DEF Descends
<1>6. CASE slot' = slot /\ cstack' = [cstack EXCEPT ![Len(cstack)] = t]
  <2>1. /\ Len(cstack') = Len(cstack)
        /\ CalleesToGo(Top)' = Len(Callees(Top.fn)) + 1 - t.next
    BY <1>1, <1>3, <1>6, NewTop
  <2>2. CalleesToGo(Top)' \in 0 .. CalleesToGo(Top) - 1
    <3>1. Len(Callees(Top.fn)) + 1 - (Top.next + 1) \in 0 .. (Len(Callees(Top.fn)) + 1 - Top.next) - 1
      BY <1>1, <1>2
    <3> QED BY <1>3, <2>1, <3>1 DEF CalleesToGo
  <2>3. Unlinked' = Unlinked
    BY <1>6 DEF Unlinked
  <2> QED BY <2>1, <2>2, <2>3 DEF Descends
<1> QED BY <1>1, <1>5, <1>6

LEMMA CompileReturnDescends ==
  ASSUME TypeOK, CompileStackInv, CompileReturn
  PROVE  Descends
<1>1. Compiling /\ cstack' = Below /\ slot' = slot
  BY DEF CompileReturn
<1>2. Len(Below) = Len(cstack) - 1 /\ Len(cstack) \in Nat
  BY <1>1, BelowIsStack, LenProperties DEF Compiling, TypeOK
<1>3. Len(cstack') < Len(cstack)
  BY <1>1, <1>2
<1> QED BY <1>1, <1>3 DEF Descends, Unlinked

(* CompileFn's recursion is bounded for every call graph: what it has      *)
(* still to do becomes less with every step, in an order that has no       *)
(* infinite descent (the null slots, the activations, the callees of the   *)
(* innermost one, its code).                                               *)
THEOREM CompilerDescendsAlways == Spec => CompilerDescends
<1> DEFINE D == Compiling /\ Compiling' => Descends
<1>1. IInv /\ [Next]_vars => [D]_vars
  <2> SUFFICES ASSUME IInv, Next, Compiling, Compiling' PROVE Descends
    OBVIOUS
  <2>1. TypeOK /\ CompileStackInv /\ pc = "compile" /\ pc' = "compile" /\ cstack' # <<>>
    BY DEF IInv, Compiling
  <2>2. CASE Emit
    BY <2>1, <2>2, EmitDescends
  <2>3. CASE CompileCallee
    BY <2>1, <2>3, CompileCalleeDescends
  <2>4. CASE CompileReturn
    BY <2>1, <2>4, CompileReturnDescends
  <2>5. CASE CompileThrow
    BY <2>1, <2>5 DEF CompileThrow
  <2>6. CASE \E f \in Exports : ExternCall(f)
    BY <2>1, <2>6 DEF ExternCall
  <2>7. CASE Enter \/ Leave \/ NativeReturn \/ ReentryThrow \/ RunOff
    BY <2>1, <2>7 DEF Enter, Leave, NativeReturn, ReentryThrow, RunOff, Native
  <2>8. CASE (\E g \in Fn : DirectCall(g)) \/ \E t \in Types, i \in Indices : IndirectCall(t, i)
    BY <2>1, <2>8 DEF DirectCall, IndirectCall, Native
  <2> QED BY <2>2, <2>3, <2>4, <2>5, <2>6, <2>7, <2>8 DEF Next, CompileStep
<1> QED BY <1>1, IInvAlways, PTL DEF Spec, CompilerDescends, Descends

-----------------------------------------------------------------------------
(* Where code lies in the plane.                                           *)

(* The function being emitted has the end of the plane to itself, what is  *)
(* emitted lies below, and no two functions begin at the same place unless *)
(* the plane is full.                                                      *)
Emitting == cstack # <<>> /\ ~Emitted(Top)
Filled(g) == slot[g] # Null
LayoutInv ==
  /\ \A g \in Local : Filled(g) =>
       slot[g] <= cur /\ (slot[g] = cur => cur = PlaneMax \/ (Emitting /\ Top.fn = g))
  /\ \A f \in done : slot[f] + Size(f) <= cur
  /\ \A k \in 1 .. Len(cstack) : k < Len(cstack) => Emitted(cstack[k])
  /\ Emitting =>
       /\ Top.fn \notin done /\ slot[Top.fn] + Top.emitted = cur
       /\ cur < PlaneMax => \A g \in Local : g # Top.fn /\ Filled(g) => slot[g] < slot[Top.fn]
  /\ CodeIsContiguous

LEMMA SlotRange ==
  ASSUME IInv, NEW f \in Local, Filled(f)
  PROVE  slot[f] \in Nat /\ f \in Fn
BY ModuleAssumption DEF IInv, TypeOK, SlotInv, Fn, Local, Import, Filled, Null, WasmToC

(* Until a body begins, nothing has the end of the plane.                  *)
LEMMA StartCompileLayout ==
  ASSUME IInv, LayoutInv, ~Emitting, NEW f \in Local, slot[f] = Null,
         NEW below \in Seq(Frames), \A k \in 1 .. Len(below) : Emitted(below[k]),
         StartCompile(f, below), UNCHANGED <<body, cur, done>>
  PROVE  LayoutInv'
<1>1. /\ TypeOK /\ SlotInv /\ cur \in Nat /\ PlaneMax \in Nat /\ cur <= PlaneMax
      /\ body' = body /\ cur' = cur /\ done' = done /\ done \subseteq Local
  BY ModuleAssumption DEF IInv, TypeOK
<1>2. /\ slot'[f] = cur /\ \A g \in Local : g # f => slot'[g] = slot[g]
      /\ cstack' # <<>> /\ Len(cstack') = Len(below) + 1 /\ Len(below) \in Nat
      /\ \A k \in 1 .. Len(below) : cstack'[k] = below[k]
      /\ Top' = Activation(f)
  <2>1. /\ \A g \in Fn : g # f => slot'[g] = slot[g]
        /\ cstack' # <<>> /\ Len(cstack') = Len(below) + 1 /\ Len(below) \in Nat
        /\ \A k \in 1 .. Len(below) : cstack'[k] = below[k]
        /\ cstack'[Len(cstack')] = Activation(f)
    BY <1>1, StartCompileEffect
  <2>2. Local \subseteq Fn
    BY ModuleAssumption DEF Local, Fn
  <2>3. slot'[f] = cur
    BY <1>1, <2>2 DEF StartCompile, TypeOK
  <2> QED  BY <2>1, <2>2, <2>3 DEF Top
<1>3. f \notin done /\ \A g \in done : Filled(g) /\ g \in Local
  BY <1>1 DEF SlotInv, Filled
<1>4. \A g \in Local : Filled(g) => slot[g] \in Nat /\ slot[g] <= cur /\ (slot[g] = cur => cur = PlaneMax)
  BY SlotRange DEF LayoutInv
<1>5. Size(f) \in Nat \ {0} /\ \A h : Size(h)' = Size(h)
  BY <1>1, BodyType DEF Size
<1>6. Top'.fn = f /\ Top'.emitted = 0 /\ Emitting'
  BY <1>2, <1>5 DEF Activation, Emitting, Emitted
<1>7. \A g \in Local : Filled(g)' =>
        slot'[g] <= cur' /\ (slot'[g] = cur' => cur' = PlaneMax \/ (Emitting' /\ Top'.fn = g))
  BY <1>1, <1>2, <1>4, <1>6 DEF Filled
<1>8. \A g \in done' : slot'[g] + Size(g)' <= cur'
  BY <1>1, <1>2, <1>3, <1>5 DEF LayoutInv
<1>9. \A k \in 1 .. Len(cstack') : k < Len(cstack') => Emitted(cstack[k])'
  BY <1>1, <1>2 DEF Emitted, Size
<1>10. /\ Top'.fn \notin done' /\ slot'[Top'.fn] + Top'.emitted = cur'
       /\ cur' < PlaneMax => \A g \in Local : g # Top'.fn /\ Filled(g)' => slot'[g] < slot'[Top'.fn]
  BY <1>1, <1>2, <1>3, <1>4, <1>6 DEF Filled
<1>11. CodeIsContiguous'
  <2> SUFFICES ASSUME NEW h \in done, NEW g \in Local, g # h, slot'[g] # Null
               PROVE  slot'[g] \notin slot'[h] .. slot'[h] + Size(h) - 1
    BY <1>1, <1>5 DEF CodeIsContiguous
  <2>1. /\ h \in Local /\ h # f /\ slot'[h] = slot[h] /\ slot[h] \in Nat
        /\ Size(h) \in Nat /\ slot[h] + Size(h) <= cur
    BY <1>1, <1>2, <1>3, <1>4, BodyType DEF LayoutInv
  <2>2. CASE g = f
    BY <1>1, <1>2, <2>1, <2>2
  <2>3. CASE g # f
    <3>1. slot'[g] = slot[g] /\ slot[g] # Null
      BY <1>2, <2>3
    <3> QED  BY <2>1, <3>1 DEF LayoutInv, CodeIsContiguous
  <2> QED  BY <2>2, <2>3
<1> QED  BY <1>6, <1>7, <1>8, <1>9, <1>10, <1>11 DEF LayoutInv

(* A step that leaves slots, code and what is emitted alone. *)
LEMMA QuietLayout ==
  ASSUME IInv, LayoutInv, UNCHANGED <<body, slot, cur, done>>,
         Emitting' => Emitting /\ Top'.fn = Top.fn /\ Top'.emitted = Top.emitted,
         Emitting => cur = PlaneMax \/ (Emitting' /\ Top'.fn = Top.fn),
         \A k \in 1 .. Len(cstack') : k < Len(cstack') => Emitted(cstack'[k])
  PROVE  LayoutInv'
<1>1. body' = body /\ slot' = slot /\ cur' = cur /\ done' = done
  OBVIOUS
<1>2. \A h : Size(h)' = Size(h) /\ Filled(h)' = Filled(h)
  BY <1>1 DEF Size, Filled
<1>3. \A g \in Local : Filled(g)' =>
        slot'[g] <= cur' /\ (slot'[g] = cur' => cur' = PlaneMax \/ (Emitting' /\ Top'.fn = g))
  BY <1>1, <1>2 DEF LayoutInv
<1>4. \A g \in done' : slot'[g] + Size(g)' <= cur'
  BY <1>1, <1>2 DEF LayoutInv
<1>5. \A k \in 1 .. Len(cstack') : k < Len(cstack') => Emitted(cstack[k])'
  BY <1>1 DEF Emitted, Size
<1>6. Emitting' =>
        /\ Top'.fn \notin done' /\ slot'[Top'.fn] + Top'.emitted = cur'
        /\ cur' < PlaneMax => \A g \in Local : g # Top'.fn /\ Filled(g)' => slot'[g] < slot'[Top'.fn]
  BY <1>1, <1>2 DEF LayoutInv
<1>7. CodeIsContiguous'
  BY <1>1, <1>2 DEF LayoutInv, CodeIsContiguous
<1> QED  BY <1>3, <1>4, <1>5, <1>6, <1>7 DEF LayoutInv

LEMMA EmitLayout ==
  ASSUME IInv, LayoutInv, Emit
  PROVE  LayoutInv'
<1> DEFINE n == Len(cstack)
           t == [cstack[n] EXCEPT !.emitted = @ + 1]
<1>1. /\ TypeOK /\ CompileStackInv /\ cstack # <<>> /\ Emitting /\ Top.emitted # Size(Top.fn)
      /\ cur \in Nat /\ PlaneMax \in Nat /\ cur < PlaneMax /\ cur' = cur + 1
      /\ cstack' = [cstack EXCEPT ![n] = t] /\ body' = body /\ slot' = slot
      /\ done \subseteq Local
  BY ModuleAssumption DEF HasRoom, IInv, TypeOK, Emit, Compiling, Emitting, Emitted, Top
<1>2. /\ n \in Nat \ {0} /\ n \in 1 .. n /\ Top \in Frames /\ Top = cstack[n] /\ cstack \in Seq(Frames)
      /\ Top.fn \in Local /\ Top.emitted \in Nat
  BY <1>1, TopIsFrame DEF TypeOK, Top, Frames
<1>3. t \in Frames /\ t.fn = Top.fn /\ t.emitted = Top.emitted + 1
  BY <1>2, EmittedFrame
<1> HIDE DEF t
<1>4. /\ Len(cstack') = n /\ cstack' # <<>> /\ cstack'[n] = t /\ Top' = t
      /\ \A k \in 1 .. n : k # n => cstack'[k] = cstack[k]
  BY <1>1, <1>2, <1>3, TopUpdate DEF Top
<1>5. /\ done' \subseteq done \cup {Top.fn} /\ done \subseteq done'
      /\ Top.fn \in done' => Top.fn \in done \/ Top.emitted + 1 = Size(Top.fn)
  BY DEF Emit
<1>6. \A h : Size(h)' = Size(h) /\ Filled(h)' = Filled(h)
  BY <1>1 DEF Size, Filled
<1>7. \A g \in Local : Filled(g) => slot[g] \in Nat /\ slot[g] <= cur
  BY SlotRange DEF LayoutInv
<1>8. /\ Top.fn \notin done /\ slot[Top.fn] + Top.emitted = cur
      /\ \A g \in Local : g # Top.fn /\ Filled(g) => slot[g] < slot[Top.fn]
      /\ Filled(Top.fn) /\ slot[Top.fn] \in Nat
  <2>1. Filled(Top.fn)
    BY <1>1, <1>2 DEF CompileStackInv, Filled
  <2> QED  BY <1>1, <1>2, <1>7, <2>1 DEF LayoutInv
<1>9. \A g \in Local : Filled(g)' => slot'[g] <= cur' /\ slot'[g] # cur'
  BY <1>1, <1>6, <1>7
<1>10. \A h \in done' : slot'[h] + Size(h)' <= cur'
  <2> SUFFICES ASSUME NEW h \in done' PROVE slot[h] + Size(h) <= cur + 1
    BY <1>1, <1>6
  <2>1. CASE h \in done
    <3>1. slot[h] \in Nat /\ Size(h) \in Nat
      <4>1. h \in Local /\ Filled(h)
        BY <1>1, <2>1 DEF IInv, SlotInv, Filled
      <4> QED  BY <1>1, <1>7, <4>1, BodyType
    <3>2. slot[h] + Size(h) <= cur
      BY <2>1 DEF LayoutInv
    <3> QED  BY <1>1, <3>1, <3>2
  <2>2. CASE h \notin done
    <3>1. h = Top.fn /\ slot[h] + Top.emitted = cur
      BY <1>5, <1>8, <2>2
    <3>2. Top.emitted + 1 = Size(h)
      BY <1>5, <2>2, <3>1
    <3>3. slot[h] \in Nat /\ Top.emitted \in Nat /\ cur \in Nat
      BY <1>1, <1>2, <1>8, <3>1
    <3> QED  BY ONLY <3>1, <3>2, <3>3
  <2> QED  BY <2>1, <2>2
<1>11. \A k \in 1 .. Len(cstack') : k < Len(cstack') => Emitted(cstack[k])'
  <2> SUFFICES ASSUME NEW k \in 1 .. n, k < n PROVE Emitted(cstack[k])'
    BY <1>4
  <2>1. Emitted(cstack[k]) /\ cstack'[k] = cstack[k]
    BY <1>4 DEF LayoutInv
  <2> QED  BY <1>1, <2>1 DEF Emitted, Size
<1>12. Emitting' => /\ Top'.fn \notin done' /\ slot'[Top'.fn] + Top'.emitted = cur'
                    /\ \A g \in Local : g # Top'.fn /\ Filled(g)' => slot'[g] < slot'[Top'.fn]
  <2>1. Emitting' => t.emitted # Size(t.fn)
    BY <1>4, <1>6 DEF Emitting, Emitted
  <2>2. Emitting' => Top.fn \notin done'
    BY <1>3, <1>5, <1>8, <2>1
  <2>3. slot[Top.fn] + (Top.emitted + 1) = cur + 1
    BY <1>1, <1>2, <1>8
  <2>4. Top'.fn = Top.fn /\ Top'.emitted = Top.emitted + 1 /\ slot' = slot /\ cur' = cur + 1
    BY <1>1, <1>3, <1>4, Zenon
  <2>5. \A g \in Local : g # Top.fn /\ Filled(g)' => slot[g] < slot[Top.fn]
    BY <1>6, <1>8
  <2> QED  BY ONLY <2>2, <2>3, <2>4, <2>5, Zenon
<1>13. CodeIsContiguous'
  <2> SUFFICES ASSUME NEW h \in done', NEW g \in Local, g # h, slot[g] # Null
               PROVE  slot[g] \notin slot[h] .. slot[h] + Size(h) - 1
    BY <1>1, <1>6 DEF CodeIsContiguous
  <2>1. CASE h \in done
    BY <2>1 DEF LayoutInv, CodeIsContiguous
  <2>2. CASE h \notin done
    <3>1. h = Top.fn /\ slot[g] < slot[Top.fn] /\ slot[g] \in Nat
      BY <1>5, <1>7, <1>8, <2>2 DEF Filled
    <3> QED  BY <1>8, <3>1
  <2> QED  BY <2>1, <2>2
<1> QED  BY <1>9, <1>10, <1>11, <1>12, <1>13 DEF LayoutInv

LEMMA CompileCalleeLayout ==
  ASSUME IInv, LayoutInv, CompileCallee
  PROVE  LayoutInv'
<1> DEFINE n == Len(cstack)
           t == [cstack[n] EXCEPT !.next = @ + 1]
           g == Callees(Top.fn)[Top.next]
           stepped == [cstack EXCEPT ![n] = t]
<1>1. /\ TypeOK /\ SlotInv /\ cstack # <<>> /\ Emitted(Top)
      /\ Top.next <= Len(Callees(Top.fn))
      /\ \/ slot[g] = Null /\ StartCompile(g, stepped)
         \/ slot[g] # Null /\ cstack' = stepped /\ UNCHANGED slot
      /\ UNCHANGED <<body, cur, done>>
  BY DEF BodyDone, CalleesLeft, NextCallee, Linked, IInv, CompileCallee, Compiling, Top
<1>2. /\ n \in Nat \ {0} /\ n \in 1 .. n /\ Top \in Frames /\ Top = cstack[n] /\ cstack \in Seq(Frames)
  BY <1>1, TopIsFrame DEF TypeOK, Top
<1>3. t \in Frames /\ t.fn = Top.fn /\ t.emitted = Top.emitted
  BY <1>2, SteppedFrame
<1>4. /\ stepped \in Seq(Frames) /\ Len(stepped) = n /\ stepped # <<>> /\ stepped[n] = t
      /\ \A k \in 1 .. n : k # n => stepped[k] = cstack[k]
  BY <1>1, <1>2, <1>3, TopUpdate
<1>5. g \in Fn
  <2>1. /\ Top.fn \in Local /\ Top.next \in Nat \ {0}
        /\ Callees(Top.fn) \in Seq(Fn) /\ Len(Callees(Top.fn)) \in Nat
    BY <1>1, <1>2, BodyType DEF Frames
  <2>2. Top.next \in 1 .. Len(Callees(Top.fn))
    BY <1>1, <2>1
  <2> QED  BY <2>1, <2>2, ElementOfSeq
<1> HIDE DEF stepped, t, g
<1>6. \A k \in 1 .. n : Emitted(stepped[k])
  <2> TAKE k \in 1 .. n
  <2>1. CASE k = n
    BY <1>1, <1>3, <1>4, <2>1 DEF Emitted
  <2>2. CASE k # n
    BY <1>2, <1>4, <2>2 DEF LayoutInv
  <2> QED  BY <2>1, <2>2
<1>7. ~Emitting
  BY <1>1 DEF Emitting
<1>8. CASE slot[g] = Null /\ StartCompile(g, stepped)
  <2>1. g \in Local
    BY <1>1, <1>5, <1>8, ModuleAssumption DEF SlotInv, Fn, Local, Import, Null, WasmToC
  <2> QED  BY <1>1, <1>4, <1>6, <1>7, <1>8, <2>1, StartCompileLayout
<1>9. CASE cstack' = stepped /\ UNCHANGED slot
  <2>1. ~Emitting'
    BY <1>1, <1>2, <1>4, <1>6, <1>9 DEF Emitting, Emitted, Top, Size
  <2> QED  BY <1>1, <1>4, <1>6, <1>7, <1>9, <2>1, QuietLayout
<1> QED  BY <1>1, <1>8, <1>9

LEMMA CompileReturnLayout ==
  ASSUME IInv, LayoutInv, CompileReturn
  PROVE  LayoutInv'
<1>1. /\ cstack \in Seq(Frames) /\ cstack # <<>> /\ Emitted(Top) /\ cstack' = Below
      /\ UNCHANGED <<body, slot, cur, done>>
  BY DEF IInv, TypeOK, CompileReturn, Compiling, BodyDone
<1>2. /\ Len(cstack) \in Nat \ {0} /\ Below \in Seq(Frames) /\ Len(Below) = Len(cstack) - 1
      /\ \A k \in 1 .. Len(Below) : Below[k] = cstack[k]
  BY <1>1, TopIsFrame, BelowIsStack
<1>3. \A k \in 1 .. Len(Below) : Emitted(Below[k])
  BY <1>2 DEF LayoutInv
<1>4. ~Emitting /\ ~Emitting'
  <2>1. CASE Below = <<>>
    BY <1>1, <2>1 DEF Emitting
  <2>2. CASE Below # <<>>
    <3>1. Len(Below) \in 1 .. Len(Below)
      BY <1>2, <2>2, EmptySeq
    <3>2. Emitted(Below[Len(Below)])
      BY <1>3, <3>1
    <3> QED  BY <1>1, <3>2 DEF Emitting, Emitted, Top, Size
  <2> QED  BY <2>1, <2>2
<1> QED  BY <1>1, <1>3, <1>4, QuietLayout

LEMMA CompileThrowLayout ==
  ASSUME IInv, LayoutInv, CompileThrow
  PROVE  LayoutInv'
<1>1. /\ cstack' = <<>> /\ UNCHANGED <<body, slot, cur, done>>
      /\ Emitting => cur = PlaneMax
  BY ModuleAssumption DEF IInv, TypeOK, CompileThrow, Emitting, HasRoom
<1>2. ~Emitting' /\ Len(<<>>) = 0
  BY <1>1 DEF Emitting
<1> QED  BY <1>1, <1>2, QuietLayout

LEMMA NextLayout == IInv /\ LayoutInv /\ [Next]_vars => LayoutInv'
<1> SUFFICES ASSUME IInv, LayoutInv, [Next]_vars PROVE LayoutInv'
  OBVIOUS
<1>1. <<>> \in Seq(Frames) /\ \A k \in 1 .. Len(<<>>) : Emitted(<<>>[k])
  OBVIOUS
<1>2. ASSUME UNCHANGED <<body, slot, cur, done, cstack>> PROVE LayoutInv'
  <2>1. Top' = Top /\ Emitting' = Emitting
    BY <1>2 DEF Top, Emitting, Emitted, Size
  <2> QED  BY <1>2, <2>1, QuietLayout DEF LayoutInv
<1>3. ASSUME NEW f \in Fn, slot[f] = Null, StartCompile(f, <<>>), pc # "compile", UNCHANGED <<body, cur, done>>
      PROVE  LayoutInv'
  <2>1. f \in Local
    BY <1>3, ModuleAssumption DEF IInv, SlotInv, Fn, Local, Import, Null, WasmToC
  <2>2. ~Emitting
    BY <1>3 DEF IInv, CompileStackInv, Emitting
  <2> QED  BY <1>1, <1>3, <2>1, <2>2, StartCompileLayout
<1>4. CASE \E f \in Exports : ExternCall(f)
  BY <1>2, <1>3, <1>4, ModuleAssumption DEF ExternCall, Linked
<1>5. CASE \E t \in Types, i \in Indices : IndirectCall(t, i)
  BY <1>2, <1>3, <1>5 DEF IndirectCall, Linked, Accepts, Native
<1>6. CASE CompileStep
  BY <1>6, EmitLayout, CompileCalleeLayout, CompileReturnLayout, CompileThrowLayout DEF CompileStep
<1>7. CASE Enter \/ Leave \/ NativeReturn \/ ReentryThrow \/ RunOff \/ UNCHANGED vars
  BY <1>2, <1>7 DEF Enter, Leave, NativeReturn, ReentryThrow, RunOff, vars
<1>8. CASE \E g \in Fn : DirectCall(g)
  BY <1>2, <1>8 DEF DirectCall
<1> QED  BY <1>4, <1>5, <1>6, <1>7, <1>8 DEF Next

LEMMA InitLayout == Init => LayoutInv
<1> SUFFICES ASSUME Init PROVE LayoutInv
  OBVIOUS
<1>1. cstack = <<>> /\ done = {} /\ Len(<<>>) = 0 /\ ~Emitting
  BY DEF Init, Emitting
<1>2. \A g \in Local : ~Filled(g)
  BY ModuleAssumption DEF Init, Filled, Local, Import, Fn
<1> QED  BY <1>1, <1>2 DEF LayoutInv, CodeIsContiguous

(* No function begins inside the code of a finished one, however calls and *)
(* failures interleave with compilation: callees are emitted after a body. *)
THEOREM CodeIsContiguousAlways == Spec => []CodeIsContiguous
<1>1. LayoutInv => CodeIsContiguous
  BY DEF LayoutInv
<1> QED  BY <1>1, InitLayout, NextLayout, IInvAlways, PTL DEF Spec

-----------------------------------------------------------------------------
(* JitLifecycle implements WasmCalls. *)

LEMMA StatusValues ==
  /\ pc \in {"idle", "enter"} => Status = "idle"
  /\ pc = "compile" /\ nstack = <<>> => Status = "idle"
  /\ pc = "compile" /\ nstack # <<>> => Status = "running"
  /\ pc = "native" => Status = "running"
  /\ pc = "leave" /\ retV => Status = "returned"
  /\ pc = "leave" /\ ~retV => Status = "trapped"
  /\ pc = "terminated" => Status = "over"
  /\ pc = "crashed" => Status = "wrong"
BY DEF Status

LEMMA StatusValuesNext ==
  /\ pc' \in {"idle", "enter"} => Status' = "idle"
  /\ pc' = "compile" /\ nstack' = <<>> => Status' = "idle"
  /\ pc' = "compile" /\ nstack' # <<>> => Status' = "running"
  /\ pc' = "native" => Status' = "running"
  /\ pc' = "leave" /\ retV' => Status' = "returned"
  /\ pc' = "leave" /\ ~retV' => Status' = "trapped"
  /\ pc' = "terminated" => Status' = "over"
  /\ pc' = "crashed" => Status' = "wrong"
BY DEF Status

LEMMA SameConstants ==
  /\ Calls!Fn = Fn /\ Calls!Import = Import /\ Calls!Local = Local
  /\ \A f : Calls!CalleesOf(f) = CalleesOf(f)
  /\ \A t, i : Calls!Accepts(t, i) <=>
       i \in DOMAIN Table /\ Table[i] \in Fn /\ TypeOf[Table[i]] = t
BY DEF Calls!Fn, Calls!Import, Calls!Local, Fn, Import, Local, Calls!CalleesOf, CalleesOf,
       Callees, Calls!Accepts

LEMMA InitRefines == Init => Calls!CInit
BY StatusValues, SameConstants DEF Init, Calls!CInit

(* The host's side: the call begins, for WasmCalls, when code is entered.  *)
LEMMA HostStepRefines ==
  ASSUME IInv, (\E f \in Exports : ExternCall(f)) \/ Enter \/ Leave
  PROVE  [Calls!CNext]_Calls!cvars
<1>1. CASE \E f \in Exports : ExternCall(f)
  <2>1. /\ pc = "idle" /\ pc' \in {"compile", "enter"} /\ nstack' = nstack
        /\ UNCHANGED <<body, failed>>
    BY <1>1 DEF ExternCall
  <2>2. nstack = <<>>
    BY <2>1 DEF IInv, NativeInv
  <2> QED  BY <2>1, <2>2, StatusValues, StatusValuesNext DEF Calls!cvars
<1>2. CASE Enter
  <2>1. entry \in Exports /\ pc = "enter" /\ pc' = "native" /\ nstack' = <<entry>>
        /\ UNCHANGED <<body, failed>>
    BY <1>2 DEF Enter, IInv, NativeInv
  <2>2. Calls!Invoke(entry)
    BY <2>1, StatusValues, StatusValuesNext DEF Calls!Invoke
  <2> QED  BY <2>1, <2>2 DEF Calls!CNext
<1>3. CASE Leave
  <2>1. pc = "leave" /\ pc' = "idle" /\ UNCHANGED <<body, nstack, failed>>
    BY <1>3 DEF Leave
  <2>2. Calls!Answer
    BY <2>1, StatusValues, StatusValuesNext DEF Calls!Answer
  <2> QED  BY <2>2 DEF Calls!CNext
<1> QED  BY <1>1, <1>2, <1>3

(* The compiler's steps are invisible, unless one throws. *)
LEMMA CompileStepRefines ==
  ASSUME IInv, CompileStep
  PROVE  [Calls!CNext]_Calls!cvars
<1>1. CASE Emit \/ CompileCallee
  <2>1. pc = "compile" /\ UNCHANGED <<body, pc, nstack, failed>>
    BY <1>1 DEF Emit, CompileCallee, Compiling
  <2> QED  BY <2>1, StatusValues, StatusValuesNext DEF Calls!cvars
<1>2. CASE CompileReturn
  <2>1. /\ pc = "compile" /\ UNCHANGED <<body, nstack, failed>>
        /\ \/ pc' = pc
           \/ nstack = <<>> /\ pc' = "enter"
           \/ nstack # <<>> /\ pc' = "native"
    BY <1>2 DEF CompileReturn, Compiling
  <2> QED  BY <2>1, StatusValues, StatusValuesNext DEF Calls!cvars
<1>3. CASE CompileThrow
  <2>1. /\ pc = "compile" /\ failed' = TRUE /\ nstack' = <<>> /\ body' = body
        /\ pc' \in IF nstack = <<>> THEN {"idle", "terminated"} ELSE {"terminated"}
    BY <1>3 DEF CompileThrow, Compiling
  <2>2. CASE nstack = <<>>
    <3>1. Calls!Refuse
      BY <2>1, <2>2, StatusValues, StatusValuesNext DEF Calls!Refuse
    <3> QED  BY <3>1 DEF Calls!CNext
  <2>3. CASE nstack # <<>>
    <3>1. Calls!Die
      BY <2>1, <2>3, StatusValues, StatusValuesNext DEF Calls!Die, Calls!Running
    <3> QED  BY <3>1 DEF Calls!CNext
  <2> QED  BY <2>2, <2>3
<1> QED  BY <1>1, <1>2, <1>3 DEF CompileStep

(* Native steps: a direct call enters its callee because it is linked, an  *)
(* indirect call because the shim links it first.                          *)
LEMMA NativeStepRefines ==
  ASSUME IInv,
         \/ \E g \in Fn : DirectCall(g)
         \/ \E t \in Types, i \in Indices : IndirectCall(t, i)
         \/ NativeReturn \/ ReentryThrow \/ RunOff
  PROVE  [Calls!CNext]_Calls!cvars
<1>1. /\ Native /\ pc = "native" /\ nstack # <<>> /\ Status = "running" /\ body' = body
      /\ TypeOK /\ NativeInv /\ failed' = failed /\ Len(nstack) \in Nat \ {0}
  <2>1. Native /\ body' = body /\ failed' = failed
    BY DEF DirectCall, IndirectCall, NativeReturn, ReentryThrow, RunOff
  <2> QED  BY <2>1, NativeFacts, StatusValues
<1>2. Calls!Running /\ Calls!TopFn = TopFn /\ Calls!Popped = Popped
  BY <1>1 DEF Calls!Running, Calls!TopFn, Calls!Popped, TopFn, Popped
<1>3. ASSUME NEW g \in Fn, DirectCall(g) PROVE Calls!CNext
  <2>1. /\ TopFn \in Local /\ g \in CalleesOf(TopFn) /\ Len(nstack) < MaxDepth
        /\ \/ slot[g] # Null /\ nstack' = Append(nstack, g) /\ pc' = pc
           \/ slot[g] = Null /\ pc' = "crashed" /\ nstack' = nstack
    BY <1>3 DEF Linked, DirectCall
  <2>2. CASE slot[g] # Null /\ nstack' = Append(nstack, g) /\ pc' = pc
    <3>1. Calls!Call(g)
      BY <1>1, <1>2, <2>1, <2>2, SameConstants, StatusValuesNext DEF Calls!Call, Calls!InBody
    <3> QED  BY <3>1, SameConstants DEF Calls!CNext
  <2>3. CASE slot[g] = Null /\ pc' = "crashed" /\ nstack' = nstack
    <3>1. failed
      BY <1>1, <2>1, <2>3, NativeFacts DEF TypeOK
    <3>2. Calls!GoWrong
      BY <1>1, <1>2, <2>3, <3>1, StatusValuesNext DEF Calls!GoWrong
    <3> QED  BY <3>2 DEF Calls!CNext
  <2> QED  BY <2>1, <2>2, <2>3
<1>4. ASSUME NEW t \in Types, NEW i \in Indices, IndirectCall(t, i) PROVE Calls!CNext
  <2> DEFINE passes == i \in DOMAIN Table /\ Table[i] \in Fn /\ TypeOf[Table[i]] = t
  <2>1. /\ TopFn \in Local /\ t \in body[TopFn].sites
        /\ \/ ~passes /\ pc' = "leave" /\ retV' = FALSE /\ nstack' = <<>>
           \/ /\ passes /\ Len(nstack) < MaxDepth /\ nstack' = Append(nstack, Table[i])
              /\ pc' \in {"native", "compile"}
    BY <1>1, <1>4 DEF Linked, Accepts, IndirectCall
  <2>2. CASE ~passes /\ pc' = "leave" /\ retV' = FALSE /\ nstack' = <<>>
    <3>1. Status' = "trapped"
      BY <2>2, StatusValuesNext
    <3>2. Calls!CallIndirect(t, i)
      BY <1>1, <1>2, <2>1, <2>2, <3>1, SameConstants DEF Calls!CallIndirect, Calls!InBody
    <3> QED  BY <3>2 DEF Calls!CNext
  <2>3. CASE /\ passes /\ Len(nstack) < MaxDepth /\ nstack' = Append(nstack, Table[i])
             /\ pc' \in {"native", "compile"}
    <3>1. nstack' # <<>>
      BY <1>1, <2>3, AppendProperties DEF TypeOK
    <3>2. Status' = "running"
      BY <2>3, <3>1, StatusValuesNext
    <3>3. Calls!CallIndirect(t, i)
      BY <1>1, <1>2, <2>1, <2>3, <3>2, SameConstants DEF Calls!CallIndirect, Calls!InBody
    <3> QED  BY <3>3 DEF Calls!CNext
  <2> QED  BY <2>1, <2>2, <2>3
<1>5. ASSUME NativeReturn PROVE Calls!CNext
  <2>1. /\ nstack' = Popped
        /\ \/ Popped # <<>> /\ pc' = pc
           \/ Popped = <<>> /\ pc' = "leave" /\ retV' = TRUE
    BY <1>5 DEF NativeReturn
  <2>2. Status' = IF Popped = <<>> THEN "returned" ELSE "running"
    BY <1>1, <2>1, StatusValuesNext
  <2>3. Calls!Return
    BY <1>1, <1>2, <2>1, <2>2 DEF Calls!Return
  <2> QED  BY <2>3 DEF Calls!CNext
<1>6. ASSUME ReentryThrow PROVE Calls!CNext
  <2>1. TopFn \in Import /\ rcx >= NImports /\ pc' = "terminated" /\ nstack' = <<>>
    BY <1>6 DEF ReentryThrow
  <2>2. rcx # TopFn
    BY <2>1, ModuleAssumption DEF Import, TypeOK
  <2>3. Len(nstack) = 1
    BY <1>1, <2>1, <2>2, NatCases DEF NativeInv
  <2>4. Calls!Die
    BY <1>1, <1>2, <2>1, <2>3, SameConstants, StatusValuesNext DEF Calls!Die
  <2> QED  BY <2>4 DEF Calls!CNext
<1>7. ASSUME RunOff PROVE Calls!CNext
  <2>1. TopFn \in Local /\ TopFn \notin done /\ pc' = "crashed" /\ nstack' = nstack
    BY <1>7 DEF RunOff
  <2>2. failed
    BY <1>1, <2>1, NativeFacts DEF TypeOK
  <2>3. Calls!GoWrong
    BY <1>1, <1>2, <2>1, <2>2, StatusValuesNext DEF Calls!GoWrong
  <2> QED  BY <2>3 DEF Calls!CNext
<1> QED  BY <1>3, <1>4, <1>5, <1>6, <1>7

(* Compiling a function the first time it is reached cannot be told from   *)
(* having compiled everything beforehand: every behaviour of JitLifecycle  *)
(* is one of WasmCalls, for every module and every order of calls.         *)
THEOREM LazyCompilationIsInvisible == Spec => ImplementsCalls
<1>1. IInv /\ [Next]_vars => [Calls!CNext]_Calls!cvars
  <2> SUFFICES ASSUME IInv, [Next]_vars PROVE [Calls!CNext]_Calls!cvars
    OBVIOUS
  <2>1. CASE UNCHANGED vars
    BY <2>1 DEF vars, Calls!cvars, Status
  <2> QED  BY <2>1, HostStepRefines, CompileStepRefines, NativeStepRefines DEF Next
<1> QED  BY <1>1, InitRefines, IInvAlways, PTL DEF Spec, ImplementsCalls, Calls!CSpec

=============================================================================
