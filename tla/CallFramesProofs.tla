--------------------------- MODULE CallFramesProofs ---------------------------
(***************************************************************************)
(* Proofs about CallFrames: no call, return or trap lets one activation    *)
(* reach the locals or operands of another, and the cells and registers    *)
(* are the activations of WasmActivations, for every module.               *)
(*                                                                         *)
(* Machine: what each code sequence does to the fields of the machine.     *)
(* Nested: how the frames of all activations lie above each other.         *)
(* Acts: the refinement mapping as a function of a machine and a stack, so *)
(* that a step can be compared with the one before it.                     *)
(***************************************************************************)
EXTENDS CallFrames, TLAPS, SequenceTheorems

Word == Value \cup {Junk}
OpCells == [0 .. OperandCells - 1 -> Word]
LocCells == [0 .. LocalCells - 1 -> Value]
Machine == [rax : Word, rdi : 0 .. OperandCells, rbx : Nat, op : OpCells, loc : LocCells]

TopOf(st) == st[Len(st)]

(* Each frame lies above all frames below it, in both vectors, and a call  *)
(* gives back the locals it took.                                          *)
Nested(st) ==
  /\ \A i \in 1 .. Len(st) : st[i].rdi = st[i].saved + 1 /\ st[i].base + Clocals[st[i].fn] <= LocalCells
  /\ \A i \in 1 .. Len(st) - 1 :
       st[i + 1].cb = Clocals[st[i].fn] /\ st[i + 1].base = st[i].base + Clocals[st[i].fn]
  /\ \A i, j \in 1 .. Len(st) :
       i < j => st[i].base + Clocals[st[i].fn] <= st[j].base /\ st[i].rdi < st[j].saved

LocalsAt(s, fr) == [x \in 1 .. Clocals[fr.fn] |-> s.loc[fr.base + x - 1]]
KeptAt(s, fr, saved) == [p \in 1 .. saved - fr.rdi - 1 |-> s.op[fr.rdi + p]]
OperandsAt(s, fr) ==
  [p \in 1 .. s.rdi - fr.rdi |-> IF p = s.rdi - fr.rdi THEN s.rax ELSE s.op[fr.rdi + p]]
Act(s, st, i) ==
  [fn |-> st[i].fn, locals |-> LocalsAt(s, st[i]),
   operands |-> IF i = Len(st) THEN OperandsAt(s, st[i]) ELSE KeptAt(s, st[i], st[i + 1].saved)]
Acts(s, st) == [i \in 1 .. Len(st) |-> Act(s, st, i)]
ActType == [fn : Fn, locals : UNION {[1 .. n -> Value] : n \in Nat}, operands : Seq(Value)]

(* The registers are those of the innermost frame, and an operand is never *)
(* what the native call left in rax.                                       *)
Rests(s, st) == s.rbx = TopOf(st).base /\ TopOf(st).rdi <= s.rdi
Valued(s, st) == \A i \in 1 .. Len(st) : Act(s, st, i).operands \in Seq(Value)

IInv ==
  /\ TypeOK
  /\ pc = "host" => stack = <<>>
  /\ Live => stack # <<>> /\ Nested(stack) /\ Rests(m, stack) /\ Valued(m, stack)

-----------------------------------------------------------------------------
(* Machines. *)

LEMMA MachineFields ==
  ASSUME NEW s \in Machine
  PROVE  s.rax \in Word /\ s.rdi \in 0 .. OperandCells /\ s.rbx \in Nat /\ s.op \in OpCells /\ s.loc \in LocCells
BY DEF Machine

LEMMA MachineIs ==
  ASSUME NEW s \in Machine, NEW a \in Word, NEW r \in 0 .. OperandCells, NEW l \in LocCells
  PROVE  [s EXCEPT !.rax = a, !.rdi = r] \in Machine /\ [s EXCEPT !.rax = a, !.loc = l] \in Machine
BY DEF Machine

LEMMA PushFields ==
  ASSUME NEW s \in Machine, s.rdi < OperandCells
  PROVE  LET t == PushExpandStack(s)
         IN /\ t \in Machine /\ t.rax = s.rax /\ t.rdi = s.rdi + 1 /\ t.rbx = s.rbx /\ t.loc = s.loc
            /\ t.op[s.rdi] = s.rax
            /\ \A c \in 0 .. OperandCells - 1 : c # s.rdi => t.op[c] = s.op[c]
<1> DEFINE o == [s.op EXCEPT ![s.rdi] = s.rax]
<1>1. OperandCells \in Nat /\ s.rdi \in 0 .. OperandCells - 1 /\ s.rdi + 1 \in 0 .. OperandCells
  BY CallFramesAssumption, MachineFields
<1>2. /\ o \in OpCells /\ o[s.rdi] = s.rax
      /\ \A c \in 0 .. OperandCells - 1 : c # s.rdi => o[c] = s.op[c]
  BY <1>1, MachineFields DEF OpCells
<1>3. PushExpandStack(s) = [s EXCEPT !.op = o, !.rdi = s.rdi + 1]
  BY DEF PushExpandStack
<1> HIDE DEF o
<1>4. PushExpandStack(s) \in Machine
  BY <1>1, <1>2, <1>3 DEF Machine
<1>5. QED BY <1>2, <1>3, <1>4 DEF Machine

LEMMA PopFields ==
  ASSUME NEW s \in Machine, s.rdi >= 1
  PROVE  LET t == PopContractStack(s)
         IN /\ t \in Machine /\ t.rax = s.op[s.rdi - 1] /\ t.rdi = s.rdi - 1 /\ t.rbx = s.rbx
            /\ t.loc = s.loc /\ t.op = s.op
<1>1. s.rdi - 1 \in 0 .. OperandCells - 1 /\ s.rdi - 1 \in 0 .. OperandCells
  BY CallFramesAssumption, MachineFields
<1>2. s.op[s.rdi - 1] \in Word
  BY <1>1, MachineFields DEF OpCells
<1>3. PopContractStack(s) \in Machine
  BY <1>1, <1>2, MachineIs, MachineFields DEF PopContractStack
<1>4. QED BY <1>3 DEF Machine, PopContractStack

LEMMA PrologueFields ==
  ASSUME NEW s \in Machine, NEW f \in Fn, s.rdi < OperandCells, s.rbx + Clocals[f] <= LocalCells
  PROVE  LET t == FnPrologue(s, f)
         IN /\ t \in Machine /\ t.rdi = s.rdi + 1 /\ t.rbx = s.rbx
            /\ \A c \in 0 .. s.rdi - 1 : t.op[c] = s.op[c]
            /\ \A c \in 0 .. LocalCells - 1 :
                 t.loc[c] = IF c \in s.rbx + Cparams[f] .. s.rbx + Clocals[f] - 1 THEN 0 ELSE s.loc[c]
<1> DEFINE l == [c \in DOMAIN s.loc |->
                   IF c \in s.rbx + FirstZeroed(f) .. s.rbx + Clocals[f] - 1 THEN 0 ELSE s.loc[c]]
           u == IF Clocals[f] = Cparams[f] THEN s ELSE [s EXCEPT !.rax = 0, !.loc = l]
<1>0. Clocals[f] \in Nat /\ Cparams[f] \in Nat /\ 0 \in Value /\ OperandCells \in Nat /\ LocalCells \in Nat
  BY CallFramesAssumption
<1>1. /\ u \in Machine /\ u.rdi = s.rdi /\ u.rbx = s.rbx /\ u.op = s.op
      /\ \A c \in 0 .. LocalCells - 1 :
           u.loc[c] = IF c \in s.rbx + Cparams[f] .. s.rbx + Clocals[f] - 1 THEN 0 ELSE s.loc[c]
  <2>1. CASE Clocals[f] = Cparams[f]
    BY <2>1, <1>0, MachineFields
  <2>2. CASE Clocals[f] # Cparams[f]
    <3>1. /\ l \in LocCells
          /\ \A c \in 0 .. LocalCells - 1 :
               l[c] = IF c \in s.rbx + Cparams[f] .. s.rbx + Clocals[f] - 1 THEN 0 ELSE s.loc[c]
      BY <1>0, MachineFields DEF LocCells, FirstZeroed
    <3>2. u = [s EXCEPT !.rax = 0, !.loc = l]
      BY <2>2
    <3>3. 0 \in Word
      BY <1>0 DEF Word
    <3> HIDE DEF l, u
    <3>4. u \in Machine
      BY <3>1, <3>2, <3>3, MachineIs, MachineFields
    <3>5. u.rdi = s.rdi /\ u.rbx = s.rbx /\ u.op = s.op /\ u.loc = l
      BY <3>2 DEF Machine
    <3>6. QED BY <3>1, <3>4, <3>5
  <2>3. QED BY <2>1, <2>2
<1>2. FnPrologue(s, f) = PushExpandStack(u)
  BY DEF FnPrologue
<1> HIDE DEF u
<1>3. s.rdi \in 0 .. OperandCells
  BY MachineFields
<1>4. QED BY <1>0, <1>1, <1>2, <1>3, PushFields

-----------------------------------------------------------------------------
(* Frames and activations. *)

LEMMA FrameFields ==
  ASSUME NEW st \in Seq(FrameType), NEW i \in 1 .. Len(st)
  PROVE  /\ st[i] \in FrameType /\ st[i].fn \in Fn /\ st[i].saved \in Nat /\ st[i].cb \in Nat
         /\ st[i].rdi \in Nat /\ st[i].base \in Nat /\ Clocals[st[i].fn] \in Nat
<1>1. st[i] \in FrameType
  BY ElementOfSeq
<1>2. QED BY <1>1, CallFramesAssumption DEF FrameType

LEMMA ActivationsAreActs == Activations = Acts(m, stack)
<1>1. \A i \in 1 .. Len(stack) :
        Operands(i) = IF i = Len(stack) THEN OperandsAt(m, stack[i]) ELSE KeptAt(m, stack[i], stack[i + 1].saved)
  BY DEF Operands, OperandsAt, KeptAt
<1>2. QED BY <1>1 DEF Activations, Acts, Act, LocalsAt

LEMMA ActivationsAreActsNext == Activations' = Acts(m', stack')
<1>1. \A i \in 1 .. Len(stack') :
        Operands(i)' = IF i = Len(stack') THEN OperandsAt(m', stack'[i])
                       ELSE KeptAt(m', stack'[i], stack'[i + 1].saved)
  BY DEF Operands, OperandsAt, KeptAt
<1>2. QED BY <1>1 DEF Activations, Acts, Act, LocalsAt

(* The cell of the x-th of c locals at base b, all below l. *)
LEMMA LocalBelow ==
  ASSUME NEW b \in Nat, NEW c \in Nat, NEW l \in Nat, b + c <= l, NEW x \in 1 .. c
  PROVE  b + x - 1 \in 0 .. l - 1
OBVIOUS

LEMMA OperandBelow ==
  ASSUME NEW r \in Nat, NEW u \in Nat, NEW l \in Nat, u <= l, NEW q \in 1 .. u - r - 1
  PROVE  r + q \in 0 .. l - 1
OBVIOUS

LEMMA ActsAreActivations ==
  ASSUME NEW s \in Machine, NEW st \in Seq(FrameType), Nested(st), Valued(s, st)
  PROVE  /\ Acts(s, st) \in Seq(ActType) /\ Len(Acts(s, st)) = Len(st)
         /\ \A i \in 1 .. Len(st) : Acts(s, st)[i] = Act(s, st, i) /\ Act(s, st, i) \in ActType
<1>0. Len(st) \in Nat
  BY LenProperties
<1>1. ASSUME NEW i \in 1 .. Len(st)
      PROVE  Act(s, st, i) \in ActType
  <2>1. st[i].fn \in Fn /\ st[i].base \in Nat /\ Clocals[st[i].fn] \in Nat
    BY FrameFields
  <2>2. st[i].base + Clocals[st[i].fn] <= LocalCells
    BY DEF Nested
  <2>6. ASSUME NEW x \in 1 .. Clocals[st[i].fn]
        PROVE  s.loc[st[i].base + x - 1] \in Value
    <3>0. LocalCells \in Nat
      BY CallFramesAssumption
    <3>1. st[i].base + x - 1 \in 0 .. LocalCells - 1
      BY ONLY <2>1, <2>2, <3>0, LocalBelow, Zenon
    <3>2. QED BY <3>1, MachineFields DEF LocCells
  <2>3. LocalsAt(s, st[i]) \in [1 .. Clocals[st[i].fn] -> Value]
    BY <2>6 DEF LocalsAt
  <2>4. Act(s, st, i).operands \in Seq(Value)
    BY DEF Valued
  <2>5. QED BY <2>1, <2>3, <2>4 DEF Act, ActType
<1>2. Acts(s, st) \in [1 .. Len(st) -> ActType]
  BY <1>1 DEF Acts
<1>3. QED BY <1>0, <1>1, <1>2, IsASeq DEF Acts

(* What an activation that does not run has is out of the reach of the     *)
(* cells above the innermost frame.                                        *)
LEMMA OuterKept ==
  ASSUME NEW s \in Machine, NEW t \in Machine, NEW st \in Seq(FrameType), st # <<>>, Nested(st),
         \A c \in 0 .. TopOf(st).saved - 1 : t.op[c] = s.op[c],
         \A c \in 0 .. TopOf(st).base - 1 : t.loc[c] = s.loc[c],
         NEW i \in 1 .. Len(st) - 1
  PROVE  Act(t, st, i) = Act(s, st, i)
<1>0. Len(st) \in Nat /\ i \in 1 .. Len(st) /\ i + 1 \in 1 .. Len(st) /\ Len(st) \in 1 .. Len(st) /\ i < Len(st)
  BY LenProperties
<1>1. /\ st[i].base \in Nat /\ st[i].rdi \in Nat /\ Clocals[st[i].fn] \in Nat
      /\ st[i + 1].saved \in Nat /\ TopOf(st).saved \in Nat /\ TopOf(st).base \in Nat
      /\ st[i + 1].rdi \in Nat
  BY <1>0, FrameFields DEF TopOf
<1>2. st[i].base + Clocals[st[i].fn] <= TopOf(st).base
  BY <1>0 DEF Nested, TopOf
<1>3. st[i + 1].saved <= TopOf(st).saved
  <2>1. CASE i + 1 = Len(st)
    BY <2>1, <1>1 DEF TopOf
  <2>2. CASE i + 1 < Len(st)
    <3>1. st[i + 1].rdi < TopOf(st).saved /\ st[i + 1].rdi = st[i + 1].saved + 1
      BY <2>2, <1>0 DEF Nested, TopOf
    <3>2. QED BY <3>1, <1>1
  <2>3. QED BY <2>1, <2>2, <1>0
<1>4. LocalsAt(t, st[i]) = LocalsAt(s, st[i])
  <2>1. ASSUME NEW x \in 1 .. Clocals[st[i].fn]
        PROVE  t.loc[st[i].base + x - 1] = s.loc[st[i].base + x - 1]
    <3>1. st[i].base + x - 1 \in 0 .. TopOf(st).base - 1
      BY ONLY <1>1, <1>2, LocalBelow, x \in 1 .. Clocals[st[i].fn], Zenon
    <3>2. QED BY <3>1
  <2>2. QED BY <2>1 DEF LocalsAt
<1>5. KeptAt(t, st[i], st[i + 1].saved) = KeptAt(s, st[i], st[i + 1].saved)
  <2>1. ASSUME NEW q \in 1 .. st[i + 1].saved - st[i].rdi - 1
        PROVE  t.op[st[i].rdi + q] = s.op[st[i].rdi + q]
    <3>1. st[i].rdi + q \in 0 .. TopOf(st).saved - 1
      BY ONLY <1>1, <1>3, OperandBelow, q \in 1 .. st[i + 1].saved - st[i].rdi - 1, Zenon
    <3>2. QED BY <3>1
  <2>2. QED BY <2>1 DEF KeptAt
<1>6. QED BY <1>0, <1>4, <1>5 DEF Act

LEMMA NestedAppend ==
  ASSUME NEW st \in Seq(FrameType), st # <<>>, Nested(st), NEW fr \in FrameType,
         fr.rdi = fr.saved + 1, fr.base = TopOf(st).base + Clocals[TopOf(st).fn],
         fr.cb = Clocals[TopOf(st).fn], fr.base + Clocals[fr.fn] <= LocalCells,
         TopOf(st).rdi < fr.saved
  PROVE  Nested(Append(st, fr))
<1> DEFINE n == Len(st)
           s2 == Append(st, fr)
<1>1. n \in Nat \ {0} /\ Len(s2) = n + 1 /\ s2[n + 1] = fr /\ \A i \in 1 .. n : s2[i] = st[i]
  BY AppendProperties, LenProperties
<1>2. \A i \in 1 .. n : st[i].base \in Nat /\ st[i].rdi \in Nat /\ Clocals[st[i].fn] \in Nat /\ st[i].saved \in Nat
  BY FrameFields
<1>3. fr.base \in Nat /\ fr.saved \in Nat
  BY DEF FrameType
<1>4. \A i \in 1 .. n : st[i].base + Clocals[st[i].fn] <= fr.base /\ st[i].rdi < fr.saved
  <2> TAKE i \in 1 .. n
  <2>1. CASE i = n
    BY <2>1, <1>2 DEF TopOf
  <2>2. CASE i < n
    <3>1. st[i].base + Clocals[st[i].fn] <= st[n].base /\ st[i].rdi < st[n].saved /\ st[n].rdi = st[n].saved + 1
      BY <2>2, <1>1 DEF Nested
    <3>2. n \in 1 .. n /\ TopOf(st) = st[n]
      BY <1>1 DEF TopOf
    <3>3. /\ st[n].base \in Nat /\ Clocals[st[n].fn] \in Nat /\ fr.base = st[n].base + Clocals[st[n].fn]
          /\ st[n].saved \in Nat /\ st[n].rdi < fr.saved
      BY <3>2, <1>2
    <3>4. st[i].base \in Nat /\ Clocals[st[i].fn] \in Nat /\ st[i].rdi \in Nat
      BY <1>2
    <3>5. \A x, y, z, w \in Nat : x + y <= z => x + y <= z + w
      OBVIOUS
    <3>6. st[i].base + Clocals[st[i].fn] <= fr.base
      BY ONLY <3>1, <3>3, <3>4, <3>5, Zenon
    <3>7. \A x, y, z \in Nat : x < y /\ y + 1 < z => x < z
      OBVIOUS
    <3>8. st[i].rdi < fr.saved
      BY ONLY <3>1, <3>3, <3>4, <3>7, <1>3, TopOf(st).rdi < fr.saved, <3>2, Zenon
    <3>9. QED BY <3>6, <3>8
  <2>3. QED BY <2>1, <2>2, <1>1
<1> HIDE DEF s2, n
<1>5. \A i \in 1 .. n + 1 : s2[i].rdi = s2[i].saved + 1 /\ s2[i].base + Clocals[s2[i].fn] <= LocalCells
  BY <1>1 DEF Nested, n
<1>6. \A i \in 1 .. n : s2[i + 1].cb = Clocals[s2[i].fn] /\ s2[i + 1].base = s2[i].base + Clocals[s2[i].fn]
  BY <1>1 DEF Nested, TopOf, n
<1>7. \A i, j \in 1 .. n + 1 : i < j => s2[i].base + Clocals[s2[i].fn] <= s2[j].base /\ s2[i].rdi < s2[j].saved
  <2> SUFFICES ASSUME NEW i \in 1 .. n + 1, NEW j \in 1 .. n + 1, i < j
               PROVE  s2[i].base + Clocals[s2[i].fn] <= s2[j].base /\ s2[i].rdi < s2[j].saved
    OBVIOUS
  <2>1. CASE j = n + 1
    BY <2>1, <1>1, <1>4
  <2>2. CASE j # n + 1
    <3>1. i \in 1 .. n /\ j \in 1 .. n
      BY <2>2, <1>1
    <3>2. QED BY <3>1, <1>1 DEF Nested, n
  <2>3. QED BY <2>1, <2>2
<1>8. Nested(s2)
  BY <1>1, <1>5, <1>6, <1>7 DEF Nested
<1>9. QED BY <1>8 DEF s2

LEMMA Front ==
  ASSUME NEW st \in Seq(FrameType), st # <<>>, Nested(st)
  PROVE  LET s2 == SubSeq(st, 1, Len(st) - 1)
         IN /\ s2 \in Seq(FrameType) /\ Len(s2) = Len(st) - 1 /\ \A i \in 1 .. Len(st) - 1 : s2[i] = st[i]
            /\ Nested(s2)
<1> DEFINE n == Len(st) - 1
           s2 == SubSeq(st, 1, n)
<1>1. n \in Nat /\ Len(st) = n + 1
  BY LenProperties
<1>2. s2 \in Seq(FrameType) /\ Len(s2) = n /\ \A i \in 1 .. n : s2[i] = st[i]
  BY <1>1, SubSeqProperties
<1> HIDE DEF n, s2
<1>3. Nested(s2)
  BY <1>1, <1>2 DEF Nested
<1>4. QED BY <1>2, <1>3 DEF s2, n

-----------------------------------------------------------------------------
(* The running activation. *)

LEMMA Running ==
  ASSUME IInv, Live
  PROVE  /\ stack \in Seq(FrameType) /\ stack # <<>> /\ m \in Machine
         /\ Len(stack) \in Nat \ {0} /\ Len(stack) \in 1 .. Len(stack) /\ Top = TopOf(stack) /\ Top \in FrameType
         /\ Top.fn \in Fn /\ Top.saved \in Nat /\ Top.rdi \in Nat /\ Top.base \in Nat /\ Clocals[Top.fn] \in Nat
         /\ Top.rdi = Top.saved + 1 /\ Top.base + Clocals[Top.fn] <= LocalCells
         /\ m.rbx = Top.base /\ Top.rdi <= m.rdi /\ m.rdi \in 0 .. OperandCells
         /\ Height \in Nat /\ m.rdi = Top.rdi + Height
         /\ OperandsAt(m, Top) \in Seq(Value) /\ Len(OperandsAt(m, Top)) = Height
         /\ \A q \in 1 .. Height : /\ OperandsAt(m, Top)[q] = IF q = Height THEN m.rax ELSE m.op[Top.rdi + q]
                                   /\ OperandsAt(m, Top)[q] \in Value
<1>1. stack \in Seq(FrameType) /\ stack # <<>> /\ m \in Machine
  BY DEF IInv, TypeOK, Machine, OpCells, LocCells, Word
<1>2. Len(stack) \in Nat \ {0} /\ Len(stack) \in 1 .. Len(stack) /\ Top = TopOf(stack)
  BY <1>1, LenProperties DEF Top, TopOf
<1>3. /\ Top \in FrameType /\ Top.fn \in Fn /\ Top.saved \in Nat /\ Top.rdi \in Nat /\ Top.base \in Nat
      /\ Clocals[Top.fn] \in Nat
  BY <1>1, <1>2, FrameFields DEF Top
<1>4. Top.rdi = Top.saved + 1 /\ Top.base + Clocals[Top.fn] <= LocalCells
  BY <1>2 DEF IInv, Nested, Top
<1>5. m.rbx = Top.base /\ Top.rdi <= m.rdi /\ m.rdi \in 0 .. OperandCells
  BY <1>1, <1>2, MachineFields DEF IInv, Rests
<1>6. Height \in Nat /\ m.rdi = Top.rdi + Height /\ m.rdi - Top.rdi = Height
  BY <1>3, <1>5 DEF Height
<1>7. OperandsAt(m, Top) \in Seq(Value)
  <2>1. Act(m, stack, Len(stack)).operands \in Seq(Value)
    BY <1>2 DEF IInv, Valued
  <2>2. QED BY <2>1 DEF Act, Top
<1>8. Len(OperandsAt(m, Top)) = Height
  BY <1>6, <1>7, LenProperties DEF OperandsAt
<1>9. \A q \in 1 .. Height : OperandsAt(m, Top)[q] = IF q = Height THEN m.rax ELSE m.op[Top.rdi + q]
  BY <1>6 DEF OperandsAt
<1>10. \A q \in 1 .. Height : OperandsAt(m, Top)[q] \in Value
  BY <1>7, <1>8, ElementOfSeq
<1>11. QED BY <1>1, <1>2, <1>3, <1>4, <1>5, <1>6, <1>7, <1>8, <1>9, <1>10

(* Up to the call: n operands of h stay with the caller, the k above them  *)
(* are at rbx in order.                                                    *)
PassedAs(s, k, n, h) ==
  /\ n \in Nat /\ s \in Machine /\ s.rdi = Top.rdi + n + 1
  /\ s.rbx = Top.base + Clocals[Top.fn] /\ s.rbx + k <= LocalCells
  /\ \A q \in 1 .. n : s.op[Top.rdi + q] = h[q]
  /\ \A c \in 0 .. Top.rdi : s.op[c] = m.op[c] \/ (n = 0 /\ c = Top.rdi)
  /\ \A j \in 1 .. k : s.loc[s.rbx + j - 1] = h[n + j]
  /\ \A c \in 0 .. LocalCells - 1 : c \notin s.rbx .. s.rbx + k - 1 => s.loc[c] = m.loc[c]

LEMMA PassedFields ==
  ASSUME IInv, Live, NEW k \in Nat, NEW fIndirect \in BOOLEAN, NEW d \in 0 .. 1,
         d = IF fIndirect THEN 1 ELSE 0, Calls(k, fIndirect), CellsToPass(k, fIndirect)
  PROVE  PassedAs(Passed(k, fIndirect), k, Height - d - k, OperandsAt(m, Top))
<1> DEFINE n == Height - d - k
           h == OperandsAt(m, Top)
           r == Top.base + Clocals[Top.fn]
           a == AllocLocals(m, Clocals[Top.fn])
           b == IF fIndirect THEN PopContractStack(a) ELSE a
           u == StoreArguments(b, k)
           s == Passed(k, fIndirect)
<1>0. OperandCells \in Nat /\ LocalCells \in Nat
  BY CallFramesAssumption
<1>1. /\ m \in Machine /\ Top.rdi \in Nat /\ Top.base \in Nat /\ Clocals[Top.fn] \in Nat /\ r \in Nat
      /\ m.rbx = Top.base /\ m.rdi \in 0 .. OperandCells
      /\ Height \in Nat /\ m.rdi = Top.rdi + Height
  BY Running
<1>2. \A q \in 1 .. Height : h[q] = (IF q = Height THEN m.rax ELSE m.op[Top.rdi + q]) /\ h[q] \in Value
  BY Running
<1>3. /\ n \in Nat /\ Top.rdi + n + 1 \in 1 .. OperandCells /\ r + k <= LocalCells
  BY <1>0, <1>1 DEF Calls, CellsToPass, HasCells
<1>4. /\ a \in Machine /\ a.rbx = r /\ a.rdi = m.rdi /\ a.rax = m.rax /\ a.op = m.op /\ a.loc = m.loc
  BY <1>1 DEF AllocLocals, Machine
<1>5. /\ b \in Machine /\ b.rbx = r /\ b.rdi = Top.rdi + n + k /\ b.op = m.op /\ b.loc = m.loc
      /\ n + k >= 1 => b.rax = h[n + k]
  <2>1. CASE fIndirect
    <3>1. d = 1 /\ Height = n + k + 1 /\ a.rdi >= 1 /\ a.rdi - 1 = Top.rdi + n + k
      BY <2>1, <1>1, <1>3, <1>4
    <3>2. n + k >= 1 => h[n + k] = m.op[a.rdi - 1]
      BY <3>1, <1>1, <1>2, <1>3
    <3>3. QED BY <2>1, <3>1, <3>2, <1>4, PopFields
  <2>2. CASE ~fIndirect
    <3>1. d = 0 /\ Height = n + k
      BY <2>2, <1>1, <1>3
    <3>2. n + k >= 1 => h[n + k] = m.rax
      BY <3>1, <1>1, <1>2, <1>3
    <3>3. QED BY <2>2, <3>1, <3>2, <1>1, <1>4
  <2>3. QED BY <2>1, <2>2
<1> HIDE DEF n, a, b
<1>6. n + k <= Height
  BY <1>1, <1>3 DEF n
<1>7. \A j \in 1 .. k : Argument(b, k, j - 1) = h[n + j] /\ h[n + j] \in Value
  <2> TAKE j \in 1 .. k
  <2>1. n + j \in 1 .. Height /\ h[n + j] \in Value
    BY <1>1, <1>2, <1>3, <1>6
  <2>2. CASE j = k
    BY <2>1, <2>2, <1>3, <1>5 DEF Argument
  <2>3. CASE j # k
    <3>1. Argument(b, k, j - 1) = m.op[b.rdi - (k - 1 - (j - 1))]
      BY <2>3, <1>5 DEF Argument
    <3>2. b.rdi - (k - 1 - (j - 1)) = Top.rdi + (n + j)
      BY <1>1, <1>3, <1>5
    <3>3. n + j # Height
      BY <2>3, <1>1, <1>3, <1>6
    <3>4. QED BY <3>1, <3>2, <3>3, <2>1, <1>2
  <2>4. QED BY <2>2, <2>3
<1> HIDE DEF h
<1>8. /\ u \in Machine /\ u.rdi = Top.rdi + n /\ u.rbx = r /\ u.op = m.op
      /\ n >= 1 => u.rax = h[n]
      /\ \A j \in 1 .. k : u.loc[r + j - 1] = h[n + j]
      /\ \A c \in 0 .. LocalCells - 1 : c \notin r .. r + k - 1 => u.loc[c] = m.loc[c]
  <2> DEFINE l == [c \in DOMAIN b.loc |-> IF c \in b.rbx .. b.rbx + k - 1 THEN Argument(b, k, c - b.rbx) ELSE b.loc[c]]
             x == IF k = 0 THEN b.rax ELSE b.op[b.rdi - k]
             y == b.rdi - k
  <2>1. u = [b EXCEPT !.loc = l, !.rdi = y, !.rax = x]
    BY DEF StoreArguments
  <2>2. DOMAIN b.loc = 0 .. LocalCells - 1 /\ b.loc \in LocCells
    BY <1>5, MachineFields DEF LocCells
  <2>3. /\ l \in LocCells
        /\ \A j \in 1 .. k : l[r + j - 1] = h[n + j]
        /\ \A c \in 0 .. LocalCells - 1 : c \notin r .. r + k - 1 => l[c] = m.loc[c]
    <3>1. \A c \in 0 .. LocalCells - 1 : c \in r .. r + k - 1 => l[c] = h[n + (c - r + 1)] /\ l[c] \in Value
      <4> TAKE c \in 0 .. LocalCells - 1
      <4> HAVE c \in r .. r + k - 1
      <4>1. c - r + 1 \in 1 .. k /\ (c - r + 1) - 1 = c - r
        BY <1>1
      <4>2. l[c] = Argument(b, k, c - r)
        BY <2>2, <1>5
      <4>3. Argument(b, k, (c - r + 1) - 1) = h[n + (c - r + 1)] /\ h[n + (c - r + 1)] \in Value
        BY <4>1, <1>7
      <4>4. QED BY <4>1, <4>2, <4>3
    <3>2. \A c \in 0 .. LocalCells - 1 : c \notin r .. r + k - 1 => l[c] = m.loc[c] /\ l[c] \in Value
      BY <2>2, <1>5 DEF LocCells
    <3>3. DOMAIN l = 0 .. LocalCells - 1
      BY <2>2
    <3>4. ASSUME NEW j \in 1 .. k
          PROVE  l[r + j - 1] = h[n + j]
      <4>1. r + j - 1 \in 0 .. LocalCells - 1 /\ r + j - 1 \in r .. r + k - 1 /\ (r + j - 1) - r + 1 = j
        BY <1>0, <1>1, <1>3
      <4>2. QED BY <4>1, <3>1
    <3>5. l \in LocCells
      <4>1. \A c \in 0 .. LocalCells - 1 : l[c] \in Value
        BY <3>1, <3>2
      <4>2. l = [c \in 0 .. LocalCells - 1 |-> l[c]]
        BY <3>3
      <4> HIDE DEF l
      <4>3. QED BY <4>1, <4>2 DEF LocCells
    <3>6. QED BY <3>2, <3>4, <3>5
  <2>4. y = Top.rdi + n /\ y \in 0 .. OperandCells /\ (k # 0 => y \in 0 .. OperandCells - 1)
    BY <1>0, <1>1, <1>3, <1>5
  <2>5. x \in Word /\ (n >= 1 => x = h[n])
    <3>1. CASE k = 0
      BY <3>1, <1>3, <1>5, MachineFields
    <3>2. CASE k # 0
      <4>1. x = m.op[Top.rdi + n] /\ x \in Word
        BY <3>2, <2>4, <1>5, MachineFields DEF OpCells
      <4>2. n >= 1 => n \in 1 .. Height /\ n # Height
        BY <3>2, <1>1, <1>3, <1>6
      <4>3. QED BY <4>1, <4>2, <1>2 DEF h
    <3>3. QED BY <3>1, <3>2
  <2> HIDE DEF l, x, y, u
  <2>6. u \in Machine
    BY <2>1, <2>3, <2>4, <2>5, <1>5 DEF Machine
  <2>7. u.loc = l /\ u.rdi = y /\ u.rax = x /\ u.rbx = b.rbx /\ u.op = b.op
    BY <2>1, <1>5 DEF Machine
  <2>8. QED BY <2>3, <2>4, <2>5, <2>6, <2>7, <1>5
<1>9. s = PushExpandStack(u)
  BY DEF Passed, b, a
<1> HIDE DEF u, s
<1>10. u.rdi < OperandCells
  BY <1>0, <1>1, <1>3, <1>8
<1>11. /\ s \in Machine /\ s.rdi = Top.rdi + n + 1 /\ s.rbx = r /\ s.loc = u.loc
       /\ s.op[Top.rdi + n] = u.rax
       /\ \A c \in 0 .. OperandCells - 1 : c # Top.rdi + n => s.op[c] = m.op[c]
  BY <1>8, <1>9, <1>10, PushFields
<1>12. \A q \in 1 .. n : s.op[Top.rdi + q] = h[q]
  <2> TAKE q \in 1 .. n
  <2>1. CASE q = n
    BY <2>1, <1>3, <1>8, <1>11
  <2>2. CASE q # n
    <3>1. q \in 1 .. Height /\ q # Height /\ Top.rdi + q \in 0 .. OperandCells - 1 /\ Top.rdi + q # Top.rdi + n
      BY <2>2, <1>0, <1>1, <1>3, <1>6
    <3>2. QED BY <3>1, <1>2, <1>11 DEF h
  <2>3. QED BY <2>1, <2>2
<1>13. \A c \in 0 .. Top.rdi : s.op[c] = m.op[c] \/ (n = 0 /\ c = Top.rdi)
  <2> TAKE c \in 0 .. Top.rdi
  <2>1. c \in 0 .. OperandCells - 1
    BY <1>0, <1>1, <1>3
  <2>2. QED BY <2>1, <1>1, <1>3, <1>11
<1>14. PassedAs(s, k, n, h)
  BY <1>3, <1>8, <1>11, <1>12, <1>13 DEF PassedAs
<1>15. QED BY <1>14 DEF n, h, s

-----------------------------------------------------------------------------
(* Steps that stay in the running activation. *)

LEMMA Prefix ==
  ASSUME NEW S, NEW s \in Seq(S), NEW n \in 0 .. Len(s)
  PROVE  /\ SubSeq(s, 1, n) \in Seq(S)
         /\ Len(SubSeq(s, 1, n)) = n
         /\ \A k \in 1 .. n : SubSeq(s, 1, n)[k] = s[k]
<1>1. Len(s) \in Nat
  BY LenProperties
<1>2. \A k \in 1 .. n : s[k] \in S
  BY <1>1, ElementOfSeq
<1>3. /\ SubSeq(s, 1, n) \in Seq(S)
      /\ Len(SubSeq(s, 1, n)) = IF 1 <= n THEN n - 1 + 1 ELSE 0
      /\ \A k \in 1 .. n - 1 + 1 : SubSeq(s, 1, n)[k] = s[1 + k - 1]
  BY <1>1, <1>2, SubSeqProperties
<1>4. Len(SubSeq(s, 1, n)) = n
  <2>1. CASE n = 0
    BY <2>1, <1>3
  <2>2. CASE n > 0
    BY <2>2, <1>1, <1>3
  <2> QED  BY <1>1, <2>1, <2>2
<1>5. \A k \in 1 .. n : SubSeq(s, 1, n)[k] = s[k]
  <2>1. \A k \in 1 .. n : 1 + k - 1 = k /\ k \in 1 .. n - 1 + 1
    BY <1>1
  <2> QED  BY <2>1, <1>3
<1> QED  BY <1>3, <1>4, <1>5

LEMMA LastReplaced ==
  ASSUME NEW T, NEW a \in Seq(T), NEW b \in Seq(T), Len(b) >= 1, Len(b) - 1 <= Len(a),
         \A i \in 1 .. Len(b) - 1 : b[i] = a[i]
  PROVE  b = Append(SubSeq(a, 1, Len(b) - 1), b[Len(b)])
<1> DEFINE n == Len(b)
           o == SubSeq(a, 1, n - 1)
<1>1. n \in Nat /\ n >= 1 /\ n \in 1 .. Len(b) /\ n - 1 \in Nat /\ Len(a) \in Nat /\ n - 1 <= Len(a)
  BY LenProperties
<1>2. o \in Seq(T) /\ Len(o) = n - 1 /\ \A i \in 1 .. n - 1 : o[i] = a[i]
  BY <1>1, Prefix, n - 1 \in 0 .. Len(a)
<1>3. b[n] \in T
  BY <1>1, ElementOfSeq
<1> HIDE DEF o
<1>4. /\ Append(o, b[n]) \in Seq(T) /\ Len(Append(o, b[n])) = n /\ Append(o, b[n])[n] = b[n]
      /\ \A i \in 1 .. n - 1 : Append(o, b[n])[i] = o[i]
  BY <1>1, <1>2, <1>3, AppendProperties
<1>5. \A i \in 1 .. n : Append(o, b[n])[i] = b[i]
  BY <1>1, <1>2, <1>4
<1>6. QED BY <1>4, <1>5, SeqEqual DEF o

LEMMA ActivationsNow ==
  ASSUME IInv, Live
  PROVE  /\ Activations \in Seq(ActType) /\ Len(Activations) = Len(stack)
         /\ \A i \in 1 .. Len(stack) : Activations[i] = Act(m, stack, i) /\ Act(m, stack, i) \in ActType
         /\ Activations[Len(stack)] =
              [fn |-> Top.fn, locals |-> LocalsAt(m, Top), operands |-> OperandsAt(m, Top)]
<1>1. stack \in Seq(FrameType) /\ m \in Machine /\ Nested(stack) /\ Valued(m, stack) /\ Len(stack) \in 1 .. Len(stack)
  BY Running DEF IInv
<1>2. /\ Activations \in Seq(ActType) /\ Len(Activations) = Len(stack)
      /\ \A i \in 1 .. Len(stack) : Activations[i] = Act(m, stack, i) /\ Act(m, stack, i) \in ActType
  BY <1>1, ActsAreActivations, ActivationsAreActs
<1>3. Act(m, stack, Len(stack)) = [fn |-> Top.fn, locals |-> LocalsAt(m, Top), operands |-> OperandsAt(m, Top)]
  BY DEF Act, Top
<1>4. QED BY <1>1, <1>2, <1>3

(* What running code has to keep of the machine. *)
Keeps(t) ==
  /\ t \in Machine /\ t.rbx = m.rbx /\ Top.rdi <= t.rdi
  /\ \A c \in 0 .. Top.saved - 1 : t.op[c] = m.op[c]
  /\ \A c \in 0 .. Top.base - 1 : t.loc[c] = m.loc[c]
  /\ OperandsAt(t, Top) \in Seq(Value)

LEMMA StraightStep ==
  ASSUME IInv, Live, Keeps(m'), pc' = pc, stack' = stack, seen' \in Seq(Value)
  PROVE  /\ IInv'
         /\ Activations' = Append(SubSeq(Activations, 1, Len(Activations) - 1),
                                  [fn |-> Top.fn, locals |-> LocalsAt(m', Top), operands |-> OperandsAt(m', Top)])
<1> DEFINE n == Len(stack)
<1>1. /\ stack \in Seq(FrameType) /\ m \in Machine /\ stack # <<>> /\ Nested(stack) /\ Valued(m, stack)
      /\ n \in Nat \ {0} /\ n \in 1 .. n /\ Top = TopOf(stack)
  BY Running DEF IInv
<1>2. m' \in Machine /\ OperandsAt(m', Top) \in Seq(Value)
  BY DEF Keeps
<1>3. \A i \in 1 .. n - 1 : Act(m', stack, i) = Act(m, stack, i)
  <2>1. /\ \A c \in 0 .. TopOf(stack).saved - 1 : m'.op[c] = m.op[c]
        /\ \A c \in 0 .. TopOf(stack).base - 1 : m'.loc[c] = m.loc[c]
    BY <1>1 DEF Keeps
  <2>2. QED BY <1>1, <1>2, <2>1, OuterKept
<1>4. Act(m', stack, n) = [fn |-> Top.fn, locals |-> LocalsAt(m', Top), operands |-> OperandsAt(m', Top)]
  BY DEF Act, Top
<1>5. Valued(m', stack)
  <2> SUFFICES ASSUME NEW i \in 1 .. n PROVE Act(m', stack, i).operands \in Seq(Value)
    BY DEF Valued
  <2>1. CASE i = n
    BY <2>1, <1>2, <1>4
  <2>2. CASE i # n
    BY <2>2, <1>1, <1>3 DEF Valued
  <2>3. QED BY <2>1, <2>2
<1>6. Rests(m', stack)
  BY <1>1, Running DEF Rests, Keeps
<1>7. TypeOK'
  BY <1>2 DEF IInv, TypeOK, Machine, OpCells, LocCells, Word
<1>8. IInv'
  BY <1>1, <1>5, <1>6, <1>7 DEF IInv, Live
<1>9. /\ Activations' \in Seq(ActType) /\ Len(Activations') = n
      /\ \A i \in 1 .. n : Activations'[i] = Act(m', stack, i)
  BY <1>1, <1>2, <1>5, ActsAreActivations, ActivationsAreActsNext
<1>10. /\ Activations \in Seq(ActType) /\ Len(Activations) = n
       /\ \A i \in 1 .. n : Activations[i] = Act(m, stack, i)
  BY ActivationsNow
<1>11. \A i \in 1 .. n - 1 : Activations'[i] = Activations[i]
  BY <1>1, <1>3, <1>9, <1>10
<1>12. Activations' = Append(SubSeq(Activations, 1, n - 1), Activations'[n])
  BY <1>1, <1>9, <1>10, <1>11, LastReplaced
<1>13. QED BY <1>1, <1>4, <1>8, <1>9, <1>10, <1>12

(* As StraightStep, in the words of WasmActivations. *)
LEMMA OperateStep ==
  ASSUME IInv, Live, Keeps(m'), pc' = pc, stack' = stack, seen' \in Seq(Value),
         NEW k \in 0 .. Height, NEW left,
         LocalsAt(m', Top) = LocalsAt(m, Top),
         OperandsAt(m', Top) = SubSeq(OperandsAt(m, Top), 1, Height - k) \o left
  PROVE  IInv' /\ Activations' = Wasm!WithOperands(Wasm!Rest(k) \o left) /\ Len(Wasm!Here) = Height
<1> DEFINE a == Activations
           h == OperandsAt(m, Top)
<1>1. /\ a \in Seq(ActType) /\ Len(a) = Len(stack)
      /\ a[Len(a)] = [fn |-> Top.fn, locals |-> LocalsAt(m, Top), operands |-> h]
  BY ActivationsNow
<1>2. Wasm!Caller = a[Len(a)] /\ Wasm!Here = h
  BY <1>1 DEF Wasm!Caller, Wasm!Here
<1>3. Len(h) = Height
  BY Running
<1>4. Wasm!Rest(k) = SubSeq(h, 1, Height - k)
  BY <1>2, <1>3 DEF Wasm!Rest
<1>5. Wasm!WithOperands(Wasm!Rest(k) \o left) =
        Append(SubSeq(a, 1, Len(a) - 1), [fn |-> Top.fn, locals |-> LocalsAt(m, Top), operands |-> OperandsAt(m', Top)])
  <2> DEFINE x == Wasm!Rest(k) \o left
             y == [fn |-> Top.fn, locals |-> LocalsAt(m, Top), operands |-> h]
  <2>1. x = OperandsAt(m', Top)
    BY <1>4
  <2> HIDE DEF x
  <2>2. [y EXCEPT !.operands = x] = [fn |-> Top.fn, locals |-> LocalsAt(m, Top), operands |-> x]
    OBVIOUS
  <2>3. Wasm!Caller = y
    BY <1>1, <1>2
  <2> HIDE DEF y
  <2>4. Wasm!WithOperands(x) = Append(SubSeq(a, 1, Len(a) - 1), [y EXCEPT !.operands = x])
    BY <2>3 DEF Wasm!WithOperands, Wasm!Outer
  <2>5. QED BY <2>1, <2>2, <2>4 DEF x
<1>6. QED BY <1>2, <1>3, <1>5, StraightStep

LEMMA OperandsAre ==
  ASSUME NEW t, NEW fr, NEW q \in Seq(Value), Len(q) = t.rdi - fr.rdi,
         \A p \in 1 .. Len(q) : q[p] = IF p = Len(q) THEN t.rax ELSE t.op[fr.rdi + p]
  PROVE  OperandsAt(t, fr) = q
<1>1. q = [p \in 1 .. Len(q) |-> q[p]]
  BY LenProperties
<1>2. OperandsAt(t, fr) = [p \in 1 .. Len(q) |-> IF p = Len(q) THEN t.rax ELSE t.op[fr.rdi + p]]
  BY DEF OperandsAt
<1>3. QED BY <1>1, <1>2

LEMMA KeptAre ==
  ASSUME NEW t, NEW fr, NEW saved, NEW q \in Seq(Value), Len(q) = saved - fr.rdi - 1,
         \A p \in 1 .. Len(q) : q[p] = t.op[fr.rdi + p]
  PROVE  KeptAt(t, fr, saved) = q
<1>1. q = [p \in 1 .. Len(q) |-> q[p]]
  BY LenProperties
<1>2. KeptAt(t, fr, saved) = [p \in 1 .. Len(q) |-> t.op[fr.rdi + p]]
  BY DEF KeptAt
<1>3. QED BY <1>1, <1>2

LEMMA RestAndMore ==
  ASSUME NEW h \in Seq(Value), NEW k \in 0 .. Len(h), NEW left \in Seq(Value)
  PROVE  LET q == SubSeq(h, 1, Len(h) - k) \o left
         IN /\ SubSeq(h, 1, Len(h) - k) \in Seq(Value) /\ Len(SubSeq(h, 1, Len(h) - k)) = Len(h) - k
            /\ \A p \in 1 .. Len(h) - k : SubSeq(h, 1, Len(h) - k)[p] = h[p]
            /\ q \in Seq(Value) /\ Len(q) = Len(h) - k + Len(left)
            /\ \A p \in 1 .. Len(h) - k : q[p] = h[p]
            /\ \A p \in 1 .. Len(left) : q[Len(h) - k + p] = left[p]
<1> DEFINE o == SubSeq(h, 1, Len(h) - k)
<1>1. Len(h) \in Nat /\ Len(left) \in Nat /\ Len(h) - k \in Nat
  BY LenProperties
<1>2. o \in Seq(Value) /\ Len(o) = Len(h) - k /\ \A p \in 1 .. Len(h) - k : o[p] = h[p]
  BY <1>1, SubSeqProperties
<1> HIDE DEF o
<1>3. /\ o \o left \in Seq(Value) /\ Len(o \o left) = Len(o) + Len(left)
      /\ \A p \in 1 .. Len(o) + Len(left) : (o \o left)[p] = IF p <= Len(o) THEN o[p] ELSE left[p - Len(o)]
  BY <1>2, ConcatProperties
<1>4. \A p \in 1 .. Len(h) - k : (o \o left)[p] = h[p]
  BY <1>1, <1>2, <1>3
<1>5. ASSUME NEW p \in 1 .. Len(left)
      PROVE  (o \o left)[Len(h) - k + p] = left[p]
  <2>1. /\ Len(o) + p \in 1 .. Len(o) + Len(left) /\ ~(Len(o) + p <= Len(o)) /\ (Len(o) + p) - Len(o) = p
        /\ Len(h) - k + p = Len(o) + p
    BY <1>1, <1>2
  <2>2. QED BY <2>1, <1>3
<1>6. QED BY <1>2, <1>3, <1>4, <1>5 DEF o

LEMMA PushedStep ==
  ASSUME IInv, Live, NEW v \in Value, m' \in Machine, m'.rax = v, m'.rdi = m.rdi + 1, m'.rbx = m.rbx,
         m'.loc = m.loc, m'.op[m.rdi] = m.rax, \A c \in 0 .. OperandCells - 1 : c # m.rdi => m'.op[c] = m.op[c],
         UNCHANGED <<pc, stack, seen>>
  PROVE  IInv' /\ Wasm!Operate(0, <<v>>)
<1> DEFINE h == OperandsAt(m, Top)
           q == SubSeq(h, 1, Len(h) - 0) \o <<v>>
<1>1. /\ h \in Seq(Value) /\ Len(h) = Height /\ Height \in Nat /\ Top.rdi \in Nat /\ m.rdi = Top.rdi + Height
      /\ \A p \in 1 .. Height : h[p] = (IF p = Height THEN m.rax ELSE m.op[Top.rdi + p])
      /\ m.rdi \in 0 .. OperandCells /\ OperandCells \in Nat /\ Top.saved \in Nat /\ Top.rdi = Top.saved + 1
  BY Running, CallFramesAssumption
<1>2. <<v>> \in Seq(Value) /\ Len(<<v>>) = 1 /\ <<v>>[1] = v /\ 0 \in 0 .. Len(h)
  BY <1>1
<1>3. /\ q \in Seq(Value) /\ Len(q) = Height + 1
      /\ \A p \in 1 .. Height : q[p] = h[p]
      /\ q[Height + 1] = v
  BY <1>1, <1>2, RestAndMore
<1> HIDE DEF q
<1>4. \A p \in 1 .. Len(q) : q[p] = IF p = Len(q) THEN m'.rax ELSE m'.op[Top.rdi + p]
  <2> SUFFICES ASSUME NEW p \in 1 .. Height + 1
               PROVE  q[p] = IF p = Height + 1 THEN m'.rax ELSE m'.op[Top.rdi + p]
    BY <1>3
  <2>1. CASE p = Height + 1
    BY <2>1, <1>3
  <2>2. CASE p = Height
    BY <2>2, <1>1, <1>3
  <2>3. CASE p < Height
    <3>3. Height \in Nat /\ Top.rdi \in Nat /\ m.rdi = Top.rdi + Height /\ m.rdi <= OperandCells /\ OperandCells \in Nat
      BY <1>1
    <3>1. p \in 1 .. Height /\ p # Height /\ Top.rdi + p # m.rdi /\ Top.rdi + p \in 0 .. OperandCells - 1
      BY ONLY <2>3, <3>3, p \in 1 .. Height + 1
    <3>2. QED BY <2>3, <3>1, <1>1, <1>3
  <2>4. QED BY <2>1, <2>2, <2>3, <1>1
<1>5. Len(q) = m'.rdi - Top.rdi
  BY <1>1, <1>3
<1>6. OperandsAt(m', Top) = q
  BY <1>3, <1>4, <1>5, OperandsAre
<1>7. Keeps(m')
  <2>1. \A c \in 0 .. Top.saved - 1 : c \in 0 .. OperandCells - 1 /\ c # m.rdi
    BY <1>1
  <2>2. Top.rdi <= m'.rdi
    BY <1>1
  <2>3. QED BY <2>1, <2>2, <1>3, <1>6 DEF Keeps
<1>8. LocalsAt(m', Top) = LocalsAt(m, Top)
  BY DEF LocalsAt
<1>9. seen' \in Seq(Value) /\ pc' = pc /\ stack' = stack
  BY DEF IInv, TypeOK
<1>10. OperandsAt(m', Top) = SubSeq(h, 1, Height - 0) \o <<v>>
  BY <1>1, <1>6 DEF q
<1>11. 0 \in 0 .. Height
  BY <1>1
<1>12. IInv' /\ Activations' = Wasm!WithOperands(Wasm!Rest(0) \o <<v>>) /\ Len(Wasm!Here) = Height
  BY <1>7, <1>8, <1>9, <1>10, <1>11, OperateStep
<1>13. QED BY <1>1, <1>12 DEF Wasm!Operate, Live

LEMMA OverrunStep ==
  ASSUME IInv, Overrun, pc # "overrun"
  PROVE  IInv' /\ Wasm!ANext
<1>1. pc' = "overrun" /\ m' = m /\ stack' = stack /\ seen' = seen
  BY DEF Overrun
<1>2. IInv'
  BY <1>1 DEF IInv, TypeOK, Live
<1>3. Activations' = Activations
  BY <1>1, ActivationsAreActs, ActivationsAreActsNext
<1>4. Wasm!ADie
  BY <1>1, <1>3 DEF Wasm!ADie, IInv, TypeOK
<1>5. QED BY <1>2, <1>4 DEF Wasm!ANext

LEMMA ConstStep ==
  ASSUME IInv, NEW v \in Value, Const(v)
  PROVE  IInv' /\ Wasm!ANext
<1>1. Live
  BY DEF Const, Operate
<1>2. CASE HasCells(m.rdi + 1, 0)
  <2> DEFINE t == PushExpandStack(m)
  <2>1. m' = PushC(m, v) /\ UNCHANGED <<pc, stack, seen>>
    BY <1>2 DEF Const, Operate
  <2>2. m \in Machine /\ m.rdi < OperandCells
    BY <1>1, <1>2, Running, CallFramesAssumption DEF HasCells
  <2>3. /\ t \in Machine /\ t.rdi = m.rdi + 1 /\ t.rbx = m.rbx /\ t.loc = m.loc
        /\ t.op[m.rdi] = m.rax
        /\ \A c \in 0 .. OperandCells - 1 : c # m.rdi => t.op[c] = m.op[c]
    BY <2>2, PushFields
  <2>4. m' = [t EXCEPT !.rax = v]
    BY <2>1 DEF PushC
  <2> HIDE DEF t
  <2>5. /\ m' \in Machine /\ m'.rax = v /\ m'.rdi = t.rdi /\ m'.rbx = t.rbx /\ m'.loc = t.loc /\ m'.op = t.op
    BY <2>3, <2>4 DEF Machine, Word
  <2>6. IInv' /\ Wasm!Operate(0, <<v>>)
    BY <1>1, <2>1, <2>3, <2>5, PushedStep
  <2>7. QED BY <1>1, <2>6 DEF Wasm!ANext, Wasm!AConst, Live
<1>3. CASE ~HasCells(m.rdi + 1, 0)
  BY <1>1, <1>3, OverrunStep DEF Const, Operate, Live
<1>4. QED BY <1>2, <1>3

LEMMA ReadLocalStep ==
  ASSUME IInv, Live, NEW idx \in 0 .. Clocals[Top.fn] - 1, ReadLocal(idx)
  PROVE  IInv' /\ Wasm!ANext
<1>1. CASE HasCells(m.rdi + 1, 0)
  <2> DEFINE t == PushExpandStack(m)
             v == m.loc[m.rbx + idx]
  <2>1. m' = GetLocal(m, idx) /\ UNCHANGED <<pc, stack, seen>>
    BY <1>1 DEF ReadLocal, Operate
  <2>2. m \in Machine /\ m.rdi < OperandCells
    BY <1>1, Running, CallFramesAssumption DEF HasCells
  <2>3. /\ t \in Machine /\ t.rdi = m.rdi + 1 /\ t.rbx = m.rbx /\ t.loc = m.loc
        /\ t.op[m.rdi] = m.rax
        /\ \A c \in 0 .. OperandCells - 1 : c # m.rdi => t.op[c] = m.op[c]
    BY <2>2, PushFields
  <2>4. m' = [t EXCEPT !.rax = v]
    BY <2>1 DEF GetLocal
  <2>5. /\ m.rbx + idx \in 0 .. LocalCells - 1 /\ m.rbx = Top.base /\ Top.base \in Nat /\ Clocals[Top.fn] \in Nat
    <3>1. /\ m.rbx = Top.base /\ Top.base \in Nat /\ Clocals[Top.fn] \in Nat
          /\ Top.base + Clocals[Top.fn] <= LocalCells
      BY Running
    <3>2. LocalCells \in Nat
      BY CallFramesAssumption
    <3>3. QED BY ONLY <3>1, <3>2, idx \in 0 .. Clocals[Top.fn] - 1
  <2>6. v \in Value
    BY <2>2, <2>5, MachineFields DEF LocCells
  <2> HIDE DEF t
  <2>7. /\ m' \in Machine /\ m'.rax = v /\ m'.rdi = t.rdi /\ m'.rbx = t.rbx /\ m'.loc = t.loc /\ m'.op = t.op
    BY <2>3, <2>4, <2>6 DEF Machine, Word
  <2>8. IInv' /\ Wasm!Operate(0, <<v>>)
    BY <2>1, <2>3, <2>6, <2>7, PushedStep
  <2>9. Wasm!Caller = [fn |-> Top.fn, locals |-> LocalsAt(m, Top), operands |-> OperandsAt(m, Top)]
    BY ActivationsNow DEF Wasm!Caller
  <2>10. idx + 1 \in 1 .. Clocals[Wasm!Caller.fn] /\ LocalsAt(m, Top)[idx + 1] = v
    <3>1. idx + 1 \in 1 .. Clocals[Top.fn] /\ Top.base + (idx + 1) - 1 = m.rbx + idx
      BY <2>5
    <3>2. QED BY <3>1, <2>9 DEF LocalsAt
  <2>11. Wasm!AGet(idx + 1)
    BY <2>8, <2>9, <2>10 DEF Wasm!AGet
  <2>12. QED BY <2>8, <2>10, <2>11 DEF Wasm!ANext, Live
<1>2. CASE ~HasCells(m.rdi + 1, 0)
  BY <1>2, OverrunStep DEF ReadLocal, Operate, Live
<1>3. QED BY <1>1, <1>2

LEMMA DropStep ==
  ASSUME IInv, Live, Drop
  PROVE  IInv' /\ Wasm!ANext
<1> DEFINE h == OperandsAt(m, Top)
           o == SubSeq(h, 1, Len(h) - 1)
<1>1. /\ m \in Machine /\ h \in Seq(Value) /\ Len(h) = Height /\ Height \in Nat /\ Top.rdi \in Nat
      /\ m.rdi = Top.rdi + Height /\ Top.saved \in Nat
      /\ \A p \in 1 .. Height : h[p] = (IF p = Height THEN m.rax ELSE m.op[Top.rdi + p])
      /\ m.rdi \in 0 .. OperandCells /\ Height >= 1
  BY Running DEF Drop
<1>2. HasCells(m.rdi, 0)
  BY <1>1, CallFramesAssumption DEF HasCells
<1>3. m' = PopContractStack(m) /\ UNCHANGED <<pc, stack, seen>>
  BY <1>2 DEF Drop, Operate
<1>4. /\ m' \in Machine /\ m'.rax = m.op[m.rdi - 1] /\ m'.rdi = m.rdi - 1 /\ m'.rbx = m.rbx
      /\ m'.loc = m.loc /\ m'.op = m.op
  BY <1>1, <1>3, PopFields
<1>5. /\ o \in Seq(Value) /\ Len(o) = Height - 1 /\ \A p \in 1 .. Height - 1 : o[p] = h[p]
      /\ o \o <<>> = o
  <2>1. 1 \in 0 .. Len(h) /\ <<>> \in Seq(Value)
    BY <1>1
  <2>2. o \in Seq(Value) /\ Len(o) = Height - 1 /\ \A p \in 1 .. Height - 1 : o[p] = h[p]
    BY <2>1, <1>1, RestAndMore
  <2>3. QED BY <2>2, ConcatEmptySeq
<1> HIDE DEF o
<1>6. \A p \in 1 .. Len(o) : o[p] = IF p = Len(o) THEN m'.rax ELSE m'.op[Top.rdi + p]
  <2> SUFFICES ASSUME NEW p \in 1 .. Height - 1
               PROVE  o[p] = IF p = Height - 1 THEN m'.rax ELSE m'.op[Top.rdi + p]
    BY <1>5
  <2>3. Height \in Nat /\ Top.rdi \in Nat /\ m.rdi = Top.rdi + Height
    BY <1>1
  <2>1. p \in 1 .. Height /\ p # Height /\ (p = Height - 1 => Top.rdi + p = m.rdi - 1)
    BY ONLY <2>3, p \in 1 .. Height - 1
  <2>2. QED BY <2>1, <1>1, <1>4, <1>5
<1>7. Len(o) = m'.rdi - Top.rdi
  BY <1>1, <1>4, <1>5
<1>8. OperandsAt(m', Top) = o
  BY <1>5, <1>6, <1>7, OperandsAre
<1>9. Keeps(m')
  BY <1>1, <1>4, <1>5, <1>8 DEF Keeps
<1>10. LocalsAt(m', Top) = LocalsAt(m, Top)
  BY <1>4 DEF LocalsAt
<1>11. seen' \in Seq(Value) /\ pc' = pc /\ stack' = stack
  BY <1>3 DEF IInv, TypeOK
<1>12. OperandsAt(m', Top) = SubSeq(h, 1, Height - 1) \o <<>> /\ 1 \in 0 .. Height
  BY <1>1, <1>5, <1>8 DEF o
<1>13. IInv' /\ Activations' = Wasm!WithOperands(Wasm!Rest(1) \o <<>>) /\ Len(Wasm!Here) = Height
  BY <1>9, <1>10, <1>11, <1>12, OperateStep
<1>14. Wasm!ADrop
  BY <1>1, <1>3, <1>13 DEF Wasm!ADrop, Wasm!Operate, Live
<1>15. QED BY <1>13, <1>14 DEF Wasm!ANext, Live

LEMMA WriteLocalStep ==
  ASSUME IInv, Live, NEW idx \in 0 .. Clocals[Top.fn] - 1, NEW fPop \in BOOLEAN, WriteLocal(idx, fPop)
  PROVE  IInv' /\ Wasm!ANext
<1> DEFINE h == OperandsAt(m, Top)
           k == IF fPop THEN 1 ELSE 0
           o == SubSeq(h, 1, Len(h) - k)
           c1 == m.rbx + idx
           l == [m.loc EXCEPT ![c1] = m.rax]
           t == [m EXCEPT !.loc[c1] = m.rax]
           old == LocalsAt(m, Top)
           new == LocalsAt(m', Top)
<1>1. /\ m \in Machine /\ h \in Seq(Value) /\ Len(h) = Height /\ Height \in Nat /\ Top.rdi \in Nat
      /\ m.rdi = Top.rdi + Height /\ Top.saved \in Nat /\ m.rbx = Top.base /\ Top.base \in Nat
      /\ \A p \in 1 .. Height : h[p] = (IF p = Height THEN m.rax ELSE m.op[Top.rdi + p]) /\ h[p] \in Value
      /\ m.rdi \in 0 .. OperandCells /\ Height >= 1 /\ Clocals[Top.fn] \in Nat
      /\ Top.base + Clocals[Top.fn] <= LocalCells
  BY Running DEF WriteLocal
<1>2. HasCells(m.rdi, 0)
  BY <1>1, CallFramesAssumption DEF HasCells
<1>3. m' = SetLocal(m, idx, fPop) /\ UNCHANGED <<pc, stack, seen>>
  BY <1>2 DEF WriteLocal, Operate
<1>4. m.rax = h[Height] /\ m.rax \in Value
  BY <1>1
<1>5. c1 \in 0 .. LocalCells - 1 /\ c1 \notin 0 .. Top.base - 1
  <2>1. LocalCells \in Nat
    BY CallFramesAssumption
  <2>2. /\ m.rbx = Top.base /\ Top.base \in Nat /\ Clocals[Top.fn] \in Nat
        /\ Top.base + Clocals[Top.fn] <= LocalCells
    BY <1>1
  <2>3. QED BY ONLY <2>1, <2>2, idx \in 0 .. Clocals[Top.fn] - 1
<1>6. l \in LocCells /\ l[c1] = m.rax /\ \A c \in 0 .. LocalCells - 1 : c # c1 => l[c] = m.loc[c]
  BY <1>1, <1>4, <1>5, MachineFields DEF LocCells
<1>7. t \in Machine /\ t.loc = l /\ t.rax = m.rax /\ t.rdi = m.rdi /\ t.rbx = m.rbx /\ t.op = m.op
  <2>1. t = [m EXCEPT !.loc = l]
    OBVIOUS
  <2> HIDE DEF t, l
  <2>2. QED BY <2>1, <1>1, <1>6 DEF Machine
<1>8. m' = IF fPop THEN PopContractStack(t) ELSE t
  BY <1>3 DEF SetLocal
<1> HIDE DEF t, l
<1>9. /\ m' \in Machine /\ m'.rax = (IF fPop THEN m.op[m.rdi - 1] ELSE m.rax) /\ m'.rdi = m.rdi - k
      /\ m'.rbx = m.rbx /\ m'.loc = l /\ m'.op = m.op
  <2>1. CASE fPop
    <3>1. t.rdi >= 1
      BY <1>1, <1>7
    <3>2. m' = PopContractStack(t)
      BY <1>8, <2>1
    <3>3. QED BY <2>1, <3>1, <3>2, <1>7, PopFields
  <2>2. CASE ~fPop
    BY <2>2, <1>1, <1>7, <1>8
  <2>3. QED BY <2>1, <2>2
<1>10. k \in 0 .. 1 /\ k \in 0 .. Len(h)
  BY <1>1
<1>11. /\ o \in Seq(Value) /\ Len(o) = Height - k /\ \A p \in 1 .. Height - k : o[p] = h[p]
       /\ o \o <<>> = o
  <2>1. o \in Seq(Value) /\ Len(o) = Height - k /\ \A p \in 1 .. Height - k : o[p] = h[p]
    BY <1>1, <1>10, RestAndMore, <<>> \in Seq(Value)
  <2>2. QED BY <2>1, ConcatEmptySeq
<1> HIDE DEF o
<1>12. \A p \in 1 .. Len(o) : o[p] = IF p = Len(o) THEN m'.rax ELSE m'.op[Top.rdi + p]
  <2> SUFFICES ASSUME NEW p \in 1 .. Height - k
               PROVE  o[p] = IF p = Height - k THEN m'.rax ELSE m'.op[Top.rdi + p]
    BY <1>11
  <2>1. Height \in Nat /\ Top.rdi \in Nat /\ m.rdi = Top.rdi + Height
    BY <1>1
  <2>2. CASE fPop
    <3>1. p \in 1 .. Height - 1 /\ k = 1
      BY <2>2
    <3>2. p \in 1 .. Height /\ p # Height /\ (p = Height - 1 => Top.rdi + p = m.rdi - 1)
      BY ONLY <2>1, <3>1
    <3>3. QED BY <2>2, <3>1, <3>2, <1>1, <1>9, <1>11
  <2>3. CASE ~fPop
    BY <2>3, <1>1, <1>4, <1>9, <1>11
  <2>4. QED BY <2>2, <2>3
<1>13. Len(o) = m'.rdi - Top.rdi
  <2>1. Height - k = m'.rdi - Top.rdi
    BY <1>1, <1>9, <1>10
  <2>2. QED BY <2>1, <1>11
<1>14. OperandsAt(m', Top) = o
  BY <1>11, <1>12, <1>13, OperandsAre
<1> HIDE DEF c1
<1>15. Keeps(m')
  <2>1. \A c \in 0 .. Top.base - 1 : m'.loc[c] = m.loc[c]
    <3> TAKE c \in 0 .. Top.base - 1
    <3>1. c \in 0 .. LocalCells - 1 /\ c # c1
      BY <1>1, <1>5, CallFramesAssumption
    <3>2. QED BY <3>1, <1>6, <1>9
  <2>2. Top.rdi <= m'.rdi
    BY <1>1, <1>9, <1>10
  <2>3. QED BY <2>1, <2>2, <1>9, <1>11, <1>14 DEF Keeps
<1>16. seen' \in Seq(Value) /\ pc' = pc /\ stack' = stack
  BY <1>3 DEF IInv, TypeOK
<1>17. IInv' /\ Activations' = Append(SubSeq(Activations, 1, Len(Activations) - 1),
                                      [fn |-> Top.fn, locals |-> new, operands |-> OperandsAt(m', Top)])
  BY <1>15, <1>16, StraightStep
<1>18. new = [old EXCEPT ![idx + 1] = h[Height]]
  <2>1. old = [x \in 1 .. Clocals[Top.fn] |-> m.loc[Top.base + x - 1]]
    BY DEF LocalsAt
  <2>2. new = [x \in 1 .. Clocals[Top.fn] |-> l[Top.base + x - 1]]
    BY <1>9 DEF LocalsAt
  <2>3. ASSUME NEW x \in 1 .. Clocals[Top.fn]
        PROVE  l[Top.base + x - 1] = IF x = idx + 1 THEN h[Height] ELSE m.loc[Top.base + x - 1]
    <3>3. /\ Top.base \in Nat /\ LocalCells \in Nat /\ Clocals[Top.fn] \in Nat /\ c1 = Top.base + idx
          /\ Top.base + Clocals[Top.fn] <= LocalCells
      BY <1>1, CallFramesAssumption DEF c1
    <3>1. Top.base + x - 1 \in 0 .. LocalCells - 1 /\ (Top.base + x - 1 = c1 <=> x = idx + 1)
      BY ONLY <3>3, x \in 1 .. Clocals[Top.fn], idx \in 0 .. Clocals[Top.fn] - 1
    <3>4. \A c \in 0 .. LocalCells - 1 : l[c] = IF c = c1 THEN h[Height] ELSE m.loc[c]
      BY <1>4, <1>6
    <3>2. QED BY ONLY <3>1, <3>4, Zenon
  <2>4. QED BY <2>1, <2>2, <2>3
<1>19. /\ Wasm!Caller = [fn |-> Top.fn, locals |-> old, operands |-> h] /\ Wasm!Here = h
       /\ Wasm!Outer = SubSeq(Activations, 1, Len(Activations) - 1)
  BY ActivationsNow DEF Wasm!Caller, Wasm!Here, Wasm!Outer
<1>20. Wasm!Rest(k) = o
  BY <1>1, <1>19 DEF Wasm!Rest, o
<1>21. [fn |-> Wasm!Caller.fn, operands |-> Wasm!Rest(k),
         locals |-> [Wasm!Caller.locals EXCEPT ![idx + 1] = Wasm!Here[Len(Wasm!Here)]]]
         = [fn |-> Top.fn, locals |-> new, operands |-> OperandsAt(m', Top)]
  <2> HIDE DEF old, new, h
  <2>1. QED BY <1>1, <1>14, <1>18, <1>19, <1>20
<1>22. Wasm!ASet(idx + 1, k)
  BY <1>1, <1>3, <1>17, <1>19, <1>21 DEF Wasm!ASet, Live
<1>23. idx + 1 \in 1 .. Clocals[Wasm!Caller.fn]
  BY <1>1, <1>19
<1>24. Wasm!ASet(idx + 1, 0) \/ Wasm!ASet(idx + 1, 1)
  BY <1>22
<1>25. QED BY <1>17, <1>23, <1>24 DEF Wasm!ANext, Live

-----------------------------------------------------------------------------
(* Calls. *)

(* The arguments of a call, seen as a part of the caller's operands. *)
LEMMA ArgumentsAre ==
  ASSUME NEW h \in Seq(Value), NEW k \in Nat, NEW d \in 0 .. 1, Len(h) - d - k \in Nat
  PROVE  LET args == SubSeq(h, Len(h) - d - k + 1, Len(h) - d)
         IN Len(args) = k /\ \A j \in 1 .. k : args[j] = h[Len(h) - d - k + j]
<1> DEFINE a == Len(h) - d - k + 1
           z == Len(h) - d
           args == SubSeq(h, a, z)
<1>1. Len(h) \in Nat /\ a \in Int /\ z \in Int /\ a \in Nat /\ a >= 1 /\ z - a + 1 = k
  BY LenProperties
<1>2. \A i \in a .. z : h[i] \in Value
  BY <1>1, ElementOfSeq
<1> HIDE DEF a, z
<1>3. /\ Len(args) = (IF a <= z THEN z - a + 1 ELSE 0)
      /\ \A i \in 1 .. z - a + 1 : args[i] = h[a + i - 1]
  BY <1>1, <1>2, SubSeqProperties
<1>4. Len(args) = k
  BY <1>1, <1>3
<1>5. \A j \in 1 .. k : args[j] = h[Len(h) - d - k + j]
  <2> TAKE j \in 1 .. k
  <2>1. a + j - 1 = Len(h) - d - k + j
    BY <1>1 DEF a
  <2>2. QED BY <2>1, <1>1, <1>3
<1>6. QED BY <1>4, <1>5 DEF a, z

(* What the locals of a new activation are. *)
LEMMA LocalsAreFresh ==
  ASSUME NEW s \in Machine, NEW t \in Machine, NEW f \in Fn, NEW args, NEW fr, Len(args) \in Nat,
         fr.fn = f, fr.base = s.rbx, s.rbx + Clocals[f] <= LocalCells,
         \A c \in 0 .. LocalCells - 1 :
           t.loc[c] = IF c \in s.rbx + Cparams[f] .. s.rbx + Clocals[f] - 1 THEN 0 ELSE s.loc[c],
         \A j \in 1 .. Cparams[f] : j <= Len(args) => s.loc[s.rbx + j - 1] = args[j]
  PROVE  LocalsAt(t, fr) \in [1 .. Clocals[f] -> Value] /\ Wasm!Fresh(f, args, LocalsAt(t, fr))
<1>1. /\ Clocals[f] \in Nat /\ Cparams[f] \in Nat /\ LocalCells \in Nat /\ s.rbx \in Nat /\ t.loc \in LocCells
      /\ Cparams[f] <= Clocals[f]
  BY CallFramesAssumption, MachineFields
<1>2. LocalsAt(t, fr) = [x \in 1 .. Clocals[f] |-> t.loc[s.rbx + x - 1]]
  BY DEF LocalsAt
<1>3. ASSUME NEW x \in 1 .. Clocals[f]
      PROVE  /\ t.loc[s.rbx + x - 1] \in Value
             /\ x > Cparams[f] => t.loc[s.rbx + x - 1] = 0
             /\ x <= Cparams[f] /\ x <= Len(args) => t.loc[s.rbx + x - 1] = args[x]
  <2>1. /\ s.rbx + x - 1 \in 0 .. LocalCells - 1
        /\ s.rbx + x - 1 \in s.rbx + Cparams[f] .. s.rbx + Clocals[f] - 1 <=> x > Cparams[f]
    BY ONLY <1>1, x \in 1 .. Clocals[f], s.rbx + Clocals[f] <= LocalCells
  <2>2. t.loc[s.rbx + x - 1] \in Value
    BY <2>1, <1>1 DEF LocCells
  <2>3. CASE x > Cparams[f]
    BY <2>1, <2>2, <2>3, <1>1
  <2>4. CASE ~(x > Cparams[f])
    <3>1. x \in 1 .. Cparams[f]
      BY <2>4, <1>1
    <3>2. t.loc[s.rbx + x - 1] = s.loc[s.rbx + x - 1]
      BY <2>1, <2>4
    <3>3. QED BY <3>1, <3>2, <2>2, <2>4
  <2>5. QED BY <2>3, <2>4
<1>4. QED BY <1>2, <1>3 DEF Wasm!Fresh

LEMMA HostCallStep ==
  ASSUME IInv, NEW f \in Fn, NEW n \in 0 .. MaxArgs, NEW args \in [1 .. n -> Value], HostCall(f, args)
  PROVE  IInv' /\ Wasm!ANext
<1> DEFINE l == [c \in DOMAIN m.loc |-> IF c < Len(args) THEN args[c + 1] ELSE m.loc[c]]
           s == [m EXCEPT !.rax = Junk, !.rdi = 0, !.rbx = 0, !.loc = l]
           fr == Frame(s, f, 0)
<1>0. /\ OperandCells \in Nat \ {0} /\ LocalCells \in Nat /\ MaxArgs \in 0 .. LocalCells /\ MaxDepth \in Nat \ {0}
      /\ Clocals[f] \in Nat /\ Cparams[f] \in Nat
  BY CallFramesAssumption
<1>1. pc = "host" /\ stack = <<>> /\ m \in Machine /\ EnterFn(s, f, 0)
  BY DEF HostCall, IInv, TypeOK, Machine, OpCells, LocCells, Word
<1>2. Len(args) = n /\ n \in Nat /\ \A i \in 1 .. n : args[i] \in Value
  BY <1>0
<1>3. l \in LocCells /\ \A c \in 0 .. LocalCells - 1 : c < n => l[c] = args[c + 1]
  <2>1. DOMAIN m.loc = 0 .. LocalCells - 1 /\ m.loc \in LocCells
    BY <1>1, MachineFields DEF LocCells
  <2>2. ASSUME NEW c \in 0 .. LocalCells - 1, c < n
        PROVE  args[c + 1] \in Value
    BY <2>2, <1>0, <1>2
  <2>3. \A c \in 0 .. LocalCells - 1 : (IF c < Len(args) THEN args[c + 1] ELSE m.loc[c]) \in Value
    BY <2>1, <2>2, <1>2 DEF LocCells
  <2>4. l = [c \in 0 .. LocalCells - 1 |-> IF c < Len(args) THEN args[c + 1] ELSE m.loc[c]]
    BY <2>1
  <2>5. QED BY <2>3, <2>4, <1>2 DEF LocCells
<1> HIDE DEF l
<1>4. s \in Machine /\ s.rdi = 0 /\ s.rbx = 0 /\ s.loc = l
  <2>1. Junk \in Word /\ 0 \in 0 .. OperandCells
    BY <1>0 DEF Word
  <2>2. QED BY <2>1, <1>1, <1>3 DEF Machine
<1> HIDE DEF s
<1>5. CASE ~HasCells(s.rdi + 1, s.rbx + Clocals[f])
  BY <1>1, <1>5, OverrunStep DEF EnterFn
<1>6. CASE HasCells(s.rdi + 1, s.rbx + Clocals[f])
  <2>1. /\ m' = FnPrologue(s, f) /\ stack' = Append(stack, fr) /\ pc' = "running" /\ seen' = seen
    BY <1>1, <1>6 DEF EnterFn
  <2>2. s.rdi < OperandCells /\ s.rbx + Clocals[f] <= LocalCells
    BY <1>0, <1>4, <1>6 DEF HasCells
  <2>3. /\ m' \in Machine /\ m'.rdi = 1 /\ m'.rbx = 0
        /\ \A c \in 0 .. LocalCells - 1 :
             m'.loc[c] = IF c \in s.rbx + Cparams[f] .. s.rbx + Clocals[f] - 1 THEN 0 ELSE s.loc[c]
    BY <2>1, <2>2, <1>4, PrologueFields
  <2>4. fr = [fn |-> f, saved |-> 0, cb |-> 0, rdi |-> 1, base |-> 0]
    BY <1>4 DEF Frame
  <2>5. fr \in FrameType
    BY <2>4 DEF FrameType
  <2> HIDE DEF fr
  <2>6. stack' = <<fr>> /\ stack' \in Seq(FrameType) /\ Len(stack') = 1 /\ stack'[1] = fr /\ stack' # <<>>
    BY <2>1, <2>5, <1>1
  <2>7. Nested(stack')
    BY <2>2, <2>4, <2>6, <1>4 DEF Nested
  <2>8. Rests(m', stack')
    BY <2>3, <2>4, <2>6 DEF Rests, TopOf
  <2>9. OperandsAt(m', fr) = <<>>
    <3>1. <<>> \in Seq(Value) /\ Len(<<>>) = m'.rdi - fr.rdi /\ Len(<<>>) = 0
      BY <2>3, <2>4
    <3>2. \A p \in 1 .. Len(<<>>) : <<>>[p] = IF p = Len(<<>>) THEN m'.rax ELSE m'.op[fr.rdi + p]
      BY <3>1
    <3>3. QED BY ONLY <3>1, <3>2, OperandsAre
  <2>10. Act(m', stack', 1) = [fn |-> f, locals |-> LocalsAt(m', fr), operands |-> <<>>]
    BY <2>4, <2>6, <2>9 DEF Act
  <2>11. Valued(m', stack')
    <3>1. \A i \in 1 .. Len(stack') : i = 1
      BY <2>6
    <3>2. Act(m', stack', 1).operands = <<>>
      BY <2>10
    <3>3. <<>> \in Seq(Value)
      OBVIOUS
    <3>4. \A i \in 1 .. Len(stack') : Act(m', stack', i).operands \in Seq(Value)
      BY ONLY <3>1, <3>2, <3>3
    <3>5. QED BY <3>4 DEF Valued
  <2>12. TypeOK'
    <3>1. Len(stack') <= MaxDepth
      BY <2>6, <1>0
    <3>2. QED BY <2>1, <2>3, <2>6, <3>1 DEF IInv, TypeOK, Machine, OpCells, LocCells, Word
  <2>13. IInv'
    BY <2>1, <2>6, <2>7, <2>8, <2>11, <2>12 DEF IInv, Live
  <2>14. LocalsAt(m', fr) \in [1 .. Clocals[f] -> Value] /\ Wasm!Fresh(f, args, LocalsAt(m', fr))
    <3>1. \A j \in 1 .. Cparams[f] : j <= Len(args) => s.loc[s.rbx + j - 1] = args[j]
      <4> SUFFICES ASSUME NEW j \in 1 .. Cparams[f], j <= n
                   PROVE  s.loc[s.rbx + j - 1] = args[j]
        BY <1>2
      <4>1. j - 1 \in 0 .. LocalCells - 1 /\ j - 1 < n /\ (j - 1) + 1 = j /\ s.rbx + j - 1 = j - 1
        BY <1>0, <1>2, <1>4
      <4>2. QED BY <4>1, <1>3, <1>4
    <3>2. fr.fn = f /\ fr.base = s.rbx
      BY <2>4, <1>4
    <3>3. QED BY <3>1, <3>2, <2>2, <2>3, <1>2, <1>4, LocalsAreFresh
  <2>15. Activations' = <<Wasm!Activation(f, LocalsAt(m', fr))>>
    <3>4. /\ Acts(m', stack') \in Seq(ActType) /\ Len(Acts(m', stack')) = Len(stack')
          /\ \A i \in 1 .. Len(stack') : Acts(m', stack')[i] = Act(m', stack', i)
      <4>1. m' \in Machine /\ stack' \in Seq(FrameType) /\ Nested(stack') /\ Valued(m', stack')
        BY <2>3, <2>6, <2>7, <2>11
      <4>2. QED BY ONLY <4>1, ActsAreActivations
    <3>1. Acts(m', stack') \in Seq(ActType) /\ Len(Acts(m', stack')) = 1 /\ Acts(m', stack')[1] = Act(m', stack', 1)
      BY <3>4, <2>6
    <3>2. Acts(m', stack') = <<Act(m', stack', 1)>>
      BY <3>1
    <3>3. QED BY <3>2, <2>10, ActivationsAreActsNext DEF Wasm!Activation
  <2>16. Wasm!AHostCall(f, args)
    BY <2>1, <2>14, <2>15, <1>1 DEF Wasm!AHostCall
  <2>17. QED BY <2>13, <2>16 DEF Wasm!ANext
<1>7. QED BY <1>5, <1>6

(* The caller as it waits, and the callee as it begins. *)
LEMMA EnterStep ==
  ASSUME IInv, Live, NEW f \in Fn, NEW fIndirect \in BOOLEAN, Calls(Cparams[f], fIndirect),
         CellsToPass(Cparams[f], fIndirect), Len(stack) < MaxDepth,
         HasCells(Passed(Cparams[f], fIndirect).rdi + 1, Passed(Cparams[f], fIndirect).rbx + Clocals[f]),
         m' = FnPrologue(Passed(Cparams[f], fIndirect), f),
         stack' = Append(stack, Frame(Passed(Cparams[f], fIndirect), f, Clocals[Top.fn])),
         pc' = "running", seen' = seen
  PROVE  IInv' /\ Wasm!ACall(f, IF fIndirect THEN 1 ELSE 0)
<1> DEFINE k == Cparams[f]
           d == IF fIndirect THEN 1 ELSE 0
           s == Passed(k, fIndirect)
           n == Height - d - k
           h == OperandsAt(m, Top)
           fr == Frame(s, f, Clocals[Top.fn])
           z == Len(stack)
           o == SubSeq(h, 1, n)
<1>0. /\ OperandCells \in Nat \ {0} /\ LocalCells \in Nat /\ MaxDepth \in Nat \ {0}
      /\ Clocals[f] \in Nat /\ k \in Nat /\ d \in 0 .. 1 /\ d = IF fIndirect THEN 1 ELSE 0
  BY CallFramesAssumption
<1> HIDE DEF d, k
<1>1. /\ stack \in Seq(FrameType) /\ stack # <<>> /\ m \in Machine /\ Nested(stack) /\ Valued(m, stack)
      /\ z \in Nat \ {0} /\ Top = TopOf(stack) /\ Top = stack[z] /\ Top \in FrameType
  BY Running DEF IInv, Top
<1>2. /\ Top.fn \in Fn /\ Top.saved \in Nat /\ Top.rdi \in Nat /\ Top.base \in Nat /\ Clocals[Top.fn] \in Nat
      /\ Top.rdi = Top.saved + 1 /\ Top.base + Clocals[Top.fn] <= LocalCells
      /\ h \in Seq(Value) /\ Len(h) = Height /\ Height \in Nat
  BY Running
<1>3. /\ n \in Nat /\ s \in Machine /\ s.rdi = Top.rdi + n + 1
      /\ s.rbx = Top.base + Clocals[Top.fn]
      /\ \A q \in 1 .. n : s.op[Top.rdi + q] = h[q]
      /\ \A c \in 0 .. Top.rdi : s.op[c] = m.op[c] \/ (n = 0 /\ c = Top.rdi)
      /\ \A j \in 1 .. k : s.loc[s.rbx + j - 1] = h[n + j]
      /\ \A c \in 0 .. LocalCells - 1 : c \notin s.rbx .. s.rbx + k - 1 => s.loc[c] = m.loc[c]
  <2>1. Calls(k, fIndirect) /\ CellsToPass(k, fIndirect)
    BY DEF k
  <2>2. PassedAs(s, k, n, h)
    BY <1>0, <2>1, PassedFields
  <2> HIDE DEF s, n, h
  <2>3. QED BY <2>2 DEF PassedAs
<1>38. Height = n + d + k
  BY <1>0, <1>2, <1>3
<1> HIDE DEF s, h, n
<1>4. s.rdi < OperandCells /\ s.rbx + Clocals[f] <= LocalCells
  BY <1>0, <1>3, MachineFields DEF HasCells, s, k
<1>5. m' = FnPrologue(s, f) /\ stack' = Append(stack, fr)
  BY DEF s, k
<1>6. /\ m' \in Machine /\ m'.rdi = s.rdi + 1 /\ m'.rbx = s.rbx
      /\ \A c \in 0 .. s.rdi - 1 : m'.op[c] = s.op[c]
      /\ \A c \in 0 .. LocalCells - 1 :
           m'.loc[c] = IF c \in s.rbx + Cparams[f] .. s.rbx + Clocals[f] - 1 THEN 0 ELSE s.loc[c]
  BY <1>3, <1>4, <1>5, PrologueFields
<1>7. fr = [fn |-> f, saved |-> s.rdi, cb |-> Clocals[Top.fn], rdi |-> s.rdi + 1, base |-> s.rbx]
  BY DEF Frame
<1>8. s.rdi \in Nat /\ s.rbx \in Nat
  <2>1. /\ Top.rdi \in Nat /\ Top.base \in Nat /\ Clocals[Top.fn] \in Nat /\ n \in Nat
        /\ s.rdi = Top.rdi + n + 1 /\ s.rbx = Top.base + Clocals[Top.fn]
    BY <1>2, <1>3
  <2>2. QED BY ONLY <2>1
<1>9. fr \in FrameType
  BY <1>2, <1>7, <1>8 DEF FrameType
<1> HIDE DEF fr
<1>10. /\ stack' \in Seq(FrameType) /\ Len(stack') = z + 1 /\ stack'[z + 1] = fr
       /\ \A i \in 1 .. z : stack'[i] = stack[i]
       /\ stack' # <<>>
  <2>1. stack' \in Seq(FrameType) /\ Len(stack') = z + 1 /\ stack'[z + 1] = fr /\ \A i \in 1 .. z : stack'[i] = stack[i]
    BY <1>1, <1>5, <1>9, AppendProperties
  <2>2. QED BY <2>1, <1>1
<1>11. Nested(stack')
  <2>1. fr.rdi = fr.saved + 1 /\ fr.base = Top.base + Clocals[Top.fn] /\ fr.cb = Clocals[Top.fn]
    BY <1>3, <1>7
  <2>2. fr.base + Clocals[fr.fn] <= LocalCells /\ Top.rdi < fr.saved
    BY <1>2, <1>3, <1>4, <1>7
  <2>3. QED BY <2>1, <2>2, <1>1, <1>5, <1>9, NestedAppend
<1>12. Rests(m', stack')
  BY <1>6, <1>7, <1>8, <1>10 DEF Rests, TopOf
<1>13. OperandsAt(m', fr) = <<>>
  <2>1. <<>> \in Seq(Value) /\ Len(<<>>) = m'.rdi - fr.rdi
    BY <1>6, <1>7, <1>8
  <2>2. \A p \in 1 .. Len(<<>>) : <<>>[p] = IF p = Len(<<>>) THEN m'.rax ELSE m'.op[fr.rdi + p]
    BY <2>1
  <2>3. QED BY ONLY <2>1, <2>2, OperandsAre
<1>14. Act(m', stack', z + 1) = [fn |-> f, locals |-> LocalsAt(m', fr), operands |-> <<>>]
  BY <1>7, <1>10, <1>13 DEF Act
<1>15. o \in Seq(Value) /\ Len(o) = n /\ \A p \in 1 .. n : o[p] = h[p]
  <2>1. n \in 0 .. Len(h)
    BY <1>0, <1>2, <1>3, <1>38
  <2>2. QED BY <2>1, <1>2, Prefix
<1> HIDE DEF o
<1>16. KeptAt(m', Top, fr.saved) = o
  <2>1. Len(o) = fr.saved - Top.rdi - 1
    BY <1>2, <1>3, <1>7, <1>15
  <2>2. ASSUME NEW p \in 1 .. Len(o)
        PROVE  o[p] = m'.op[Top.rdi + p]
    <3>0. n \in Nat /\ s.rdi = Top.rdi + n + 1 /\ Top.rdi \in Nat /\ Len(o) = n
      BY <1>2, <1>3, <1>15
    <3>1. p \in 1 .. n /\ Top.rdi + p \in 0 .. s.rdi - 1
      BY ONLY <3>0, p \in 1 .. Len(o)
    <3>2. o[p] = h[p] /\ s.op[Top.rdi + p] = h[p] /\ m'.op[Top.rdi + p] = s.op[Top.rdi + p]
      BY <3>1, <1>3, <1>6, <1>15
    <3>3. QED BY <3>2
  <2>3. QED BY <2>1, <2>2, <1>15, KeptAre
<1>17. LocalsAt(m', Top) = LocalsAt(m, Top)
  <2>1. ASSUME NEW x \in 1 .. Clocals[Top.fn]
        PROVE  m'.loc[Top.base + x - 1] = m.loc[Top.base + x - 1]
    <3> DEFINE c == Top.base + x - 1
    <3>0. /\ LocalCells \in Nat /\ Top.base \in Nat /\ Clocals[Top.fn] \in Nat /\ s.rbx = Top.base + Clocals[Top.fn]
          /\ Top.base + Clocals[Top.fn] <= LocalCells
      BY <1>0, <1>2, <1>3
    <3>1. c \in 0 .. LocalCells - 1 /\ c < s.rbx
      BY ONLY <3>0, x \in 1 .. Clocals[Top.fn]
    <3> HIDE DEF c
    <3>2. c \notin s.rbx .. s.rbx + k - 1 /\ c \notin s.rbx + Cparams[f] .. s.rbx + Clocals[f] - 1
      BY <3>1, <1>0, <1>8 DEF k
    <3>3. m'.loc[c] = m.loc[c]
      BY <3>1, <3>2, <1>3, <1>6
    <3>4. QED BY <3>3 DEF c
  <2>2. QED BY <2>1 DEF LocalsAt
<1>18. Act(m', stack', z) = [fn |-> Top.fn, locals |-> LocalsAt(m, Top), operands |-> o]
  <2>1. z \in 1 .. z /\ z # Len(stack') /\ stack'[z] = Top
    BY <1>1, <1>10
  <2>2. stack'[z + 1].saved = fr.saved
    BY <1>10
  <2>3. QED BY <2>1, <2>2, <1>16, <1>17 DEF Act
<1>19. \A i \in 1 .. z - 1 : Act(m', stack', i) = Act(m, stack, i)
  <2>1. \A c \in 0 .. TopOf(stack).saved - 1 : m'.op[c] = m.op[c]
    <3>1. ASSUME NEW c \in 0 .. Top.saved - 1
          PROVE  m'.op[c] = m.op[c]
      <4>0. /\ Top.saved \in Nat /\ Top.rdi \in Nat /\ Top.rdi = Top.saved + 1
            /\ n \in Nat /\ s.rdi = Top.rdi + n + 1
        BY <1>2, <1>3
      <4>1. c \in 0 .. Top.rdi /\ c # Top.rdi /\ c \in 0 .. s.rdi - 1
        BY ONLY <4>0, c \in 0 .. Top.saved - 1
      <4>2. QED BY <4>1, <1>3, <1>6
    <3>2. QED BY <3>1, <1>1
  <2>2. \A c \in 0 .. TopOf(stack).base - 1 : m'.loc[c] = m.loc[c]
    <3>1. ASSUME NEW c \in 0 .. Top.base - 1
          PROVE  m'.loc[c] = m.loc[c]
      <4>0. /\ Top.base \in Nat /\ Clocals[Top.fn] \in Nat /\ LocalCells \in Nat
            /\ Top.base + Clocals[Top.fn] <= LocalCells /\ s.rbx = Top.base + Clocals[Top.fn]
        BY <1>0, <1>2, <1>3
      <4>1. c \in 0 .. LocalCells - 1 /\ c < s.rbx
        BY ONLY <4>0, c \in 0 .. Top.base - 1
      <4>2. c \notin s.rbx .. s.rbx + k - 1 /\ c \notin s.rbx + Cparams[f] .. s.rbx + Clocals[f] - 1
        BY <4>1, <1>0, <1>8 DEF k
      <4>3. QED BY <4>1, <4>2, <1>3, <1>6
    <3>2. QED BY <3>1, <1>1
  <2>3. \A i \in 1 .. z - 1 : Act(m', stack, i) = Act(m, stack, i)
    BY <2>1, <2>2, <1>1, <1>6, OuterKept
  <2>4. ASSUME NEW i \in 1 .. z - 1
        PROVE  Act(m', stack', i) = Act(m', stack, i)
    <3>1. i \in 1 .. z /\ i + 1 \in 1 .. z /\ i # z /\ i # Len(stack')
      BY <1>1, <1>10
    <3>2. stack'[i] = stack[i] /\ stack'[i + 1] = stack[i + 1]
      BY <3>1, <1>10
    <3>3. QED BY <3>1, <3>2 DEF Act
  <2>5. QED BY <2>3, <2>4
<1>20. Valued(m', stack')
  <2> SUFFICES ASSUME NEW i \in 1 .. z + 1 PROVE Act(m', stack', i).operands \in Seq(Value)
    BY <1>10 DEF Valued
  <2>1. CASE i = z + 1
    <3>1. <<>> \in Seq(Value)
      OBVIOUS
    <3>2. Act(m', stack', z + 1).operands = <<>>
      BY <1>14
    <3>3. QED BY <2>1, <3>1, <3>2
  <2>2. CASE i = z
    BY <2>2, <1>15, <1>18
  <2>3. CASE i \in 1 .. z - 1
    BY <2>3, <1>1, <1>19 DEF Valued
  <2>4. QED BY <2>1, <2>2, <2>3, <1>1
<1>21. TypeOK'
  <2>1. Len(stack') <= MaxDepth
    BY <1>0, <1>1, <1>10
  <2>2. QED BY <2>1, <1>6, <1>10 DEF IInv, TypeOK, Machine, OpCells, LocCells, Word
<1>22. IInv'
  BY <1>10, <1>11, <1>12, <1>20, <1>21 DEF IInv, Live
<1> DEFINE a == Activations
           b == Activations'
           e == SubSeq(b, 1, z)
           loc == LocalsAt(m', fr)
           args == SubSeq(h, Len(h) - d - k + 1, Len(h) - d)
<1>23. /\ a \in Seq(ActType) /\ Len(a) = z /\ \A i \in 1 .. z : a[i] = Act(m, stack, i)
       /\ a[z] = [fn |-> Top.fn, locals |-> LocalsAt(m, Top), operands |-> h]
  BY ActivationsNow DEF h
<1>24. b \in Seq(ActType) /\ Len(b) = z + 1 /\ \A i \in 1 .. z + 1 : b[i] = Act(m', stack', i)
  BY <1>6, <1>10, <1>11, <1>20, ActsAreActivations, ActivationsAreActsNext
<1> HIDE DEF a, b
<1>25. e \in Seq(ActType) /\ Len(e) = z /\ \A i \in 1 .. z : e[i] = b[i]
  BY <1>1, <1>24, Prefix, z \in 0 .. Len(b)
<1>26. b = Append(e, b[z + 1])
  <2>1. Len(b) - 1 = z /\ Len(b) >= 1 /\ Len(b) - 1 <= Len(b)
    BY <1>1, <1>24
  <2>2. b = Append(SubSeq(b, 1, Len(b) - 1), b[Len(b)])
    BY <2>1, <1>24, LastReplaced
  <2>3. QED BY <2>1, <2>2, <1>24
<1> HIDE DEF e
<1>27. e = Append(SubSeq(a, 1, z - 1), e[z])
  <2>1. \A i \in 1 .. z - 1 : e[i] = a[i]
    <3> TAKE i \in 1 .. z - 1
    <3>1. i \in 1 .. z /\ i \in 1 .. z + 1
      BY <1>1
    <3>2. QED BY <3>1, <1>19, <1>23, <1>24, <1>25
  <2>2. QED BY <2>1, <1>1, <1>23, <1>25, LastReplaced
<1>28. /\ e[z] = [fn |-> Top.fn, locals |-> LocalsAt(m, Top), operands |-> o]
       /\ b[z + 1] = Wasm!Activation(f, loc)
  <2>1. z \in 1 .. z /\ z \in 1 .. z + 1 /\ z + 1 \in 1 .. z + 1
    BY <1>1
  <2>2. QED BY <2>1, <1>14, <1>18, <1>24, <1>25 DEF Wasm!Activation
<1>29. /\ Wasm!Caller = [fn |-> Top.fn, locals |-> LocalsAt(m, Top), operands |-> h] /\ Wasm!Here = h
       /\ Wasm!Outer = SubSeq(a, 1, z - 1)
  BY <1>23 DEF Wasm!Caller, Wasm!Here, Wasm!Outer, a
<1>30. Wasm!Rest(k + d) = o
  <2>1. Height - (k + d) = n
    BY <1>0, <1>2, <1>3, <1>38
  <2>2. QED BY <2>1, <1>2, <1>29 DEF Wasm!Rest, o
<1>31. Wasm!WithOperands(Wasm!Rest(k + d)) = e
  <2> DEFINE y == [fn |-> Top.fn, locals |-> LocalsAt(m, Top), operands |-> h]
  <2>1. [y EXCEPT !.operands = o] = [fn |-> Top.fn, locals |-> LocalsAt(m, Top), operands |-> o]
    OBVIOUS
  <2>2. Wasm!Caller = y
    BY <1>29
  <2> HIDE DEF y
  <2>3. Wasm!WithOperands(o) = Append(SubSeq(a, 1, z - 1), [y EXCEPT !.operands = o])
    BY <2>2, <1>29 DEF Wasm!WithOperands
  <2>4. QED BY <2>1, <2>3, <1>27, <1>28, <1>30
<1>32. Len(args) = k /\ \A j \in 1 .. k : args[j] = h[n + j]
  <2>1. Len(h) - d - k = n
    BY <1>0, <1>2, <1>3, <1>38
  <2>2. h \in Seq(Value) /\ k \in Nat /\ d \in 0 .. 1 /\ Len(h) - d - k \in Nat
    BY <2>1, <1>0, <1>2, <1>3
  <2>3. Len(args) = k /\ \A j \in 1 .. k : args[j] = h[Len(h) - d - k + j]
    BY ONLY <2>2, ArgumentsAre
  <2> HIDE DEF args
  <2>4. QED BY <2>1, <2>3
<1>33. loc \in [1 .. Clocals[f] -> Value] /\ Wasm!Fresh(f, args, loc)
  <2>1. \A j \in 1 .. Cparams[f] : j <= Len(args) => s.loc[s.rbx + j - 1] = args[j]
    BY <1>3, <1>32 DEF k
  <2>2. fr.fn = f /\ fr.base = s.rbx /\ Len(args) \in Nat
    BY <1>0, <1>7, <1>32
  <2> HIDE DEF args
  <2>3. QED BY <2>1, <2>2, <1>3, <1>4, <1>6, LocalsAreFresh
<1>34. b = Append(Wasm!WithOperands(Wasm!Rest(k + d)), Wasm!Activation(f, loc))
  BY <1>26, <1>28, <1>31
<1>35. Len(Wasm!Here) >= k + d /\ SubSeq(Wasm!Here, Len(Wasm!Here) - d - k + 1, Len(Wasm!Here) - d) = args
  <2>1. Len(h) >= k + d
    BY <1>0, <1>2, <1>3, <1>38
  <2>2. QED BY <2>1, <1>29
<1> HIDE DEF args, loc
<1>36. Wasm!ACall(f, d)
  BY <1>33, <1>34, <1>35 DEF Wasm!ACall, b, Live, k
<1>37. QED BY <1>22, <1>36 DEF d

LEMMA CallStep ==
  ASSUME IInv, Live, NEW f \in Fn, NEW fIndirect \in BOOLEAN, Call(f, fIndirect)
  PROVE  IInv' /\ Wasm!ANext
<1> DEFINE s == Passed(Cparams[f], fIndirect)
           d == IF fIndirect THEN 1 ELSE 0
<1>1. Calls(Cparams[f], fIndirect) /\ Len(stack) < MaxDepth
  BY DEF Call
<1>2. CASE ~CellsToPass(Cparams[f], fIndirect)
  BY <1>2, OverrunStep DEF Call, Live
<1>3. CASE CellsToPass(Cparams[f], fIndirect)
  <2>1. EnterFn(s, f, Clocals[Top.fn])
    BY <1>3 DEF Call
  <2> HIDE DEF s
  <2>2. CASE ~HasCells(s.rdi + 1, s.rbx + Clocals[f])
    BY <2>1, <2>2, OverrunStep DEF EnterFn, Live
  <2>3. CASE HasCells(s.rdi + 1, s.rbx + Clocals[f])
    <3>1. /\ m' = FnPrologue(s, f) /\ stack' = Append(stack, Frame(s, f, Clocals[Top.fn]))
          /\ pc' = "running" /\ seen' = seen
      BY <2>1, <2>3 DEF EnterFn
    <3>2. IInv' /\ Wasm!ACall(f, d)
      BY <1>1, <1>3, <2>3, <3>1, EnterStep DEF s
    <3>3. d \in 0 .. 1
      OBVIOUS
    <3>4. QED BY <3>2, <3>3 DEF Wasm!ANext, Live
  <2>4. QED BY <2>2, <2>3
<1>4. QED BY <1>2, <1>3

LEMMA CallImportStep ==
  ASSUME IInv, Live, NEW b \in Import, NEW fIndirect \in BOOLEAN, CallImport(b, fIndirect)
  PROVE  IInv' /\ Wasm!ANext
<1> DEFINE k == Cparams[b]
           d == IF fIndirect THEN 1 ELSE 0
           s == Passed(k, fIndirect)
           n == Height - d - k
           h == OperandsAt(m, Top)
           o == SubSeq(h, 1, n)
           t == [s EXCEPT !.rax = 0, !.rbx = @ - Clocals[Top.fn]]
           left == IF Returns[b] THEN <<0>> ELSE <<>>
           q == o \o left
           args == SubSeq(h, Len(h) - d - k + 1, Len(h) - d)
<1>0. /\ OperandCells \in Nat \ {0} /\ LocalCells \in Nat /\ 0 \in Value
      /\ k \in Nat /\ Reads[b] \in Nat /\ Returns[b] \in BOOLEAN
      /\ d \in 0 .. 1 /\ d = IF fIndirect THEN 1 ELSE 0
  BY CallFramesAssumption
<1>1. Calls(k, fIndirect)
  BY DEF CallImport
<1>2. CASE ~CellsToPass(k, fIndirect)
  BY <1>2, OverrunStep DEF CallImport, Live
<1>3. CASE CellsToPass(k, fIndirect)
  <2>1. /\ Top.rdi \in Nat /\ Top.base \in Nat /\ Clocals[Top.fn] \in Nat /\ Top.saved \in Nat
        /\ Top.rdi = Top.saved + 1 /\ Top.base + Clocals[Top.fn] <= LocalCells
        /\ h \in Seq(Value) /\ Len(h) = Height /\ Height \in Nat /\ m.rbx = Top.base
    BY Running
  <2>2. \E read \in [1 .. Reads[b] -> Value] :
          /\ \A i \in 1 .. Reads[b] : s.rbx + i <= LocalCells => read[i] = s.loc[s.rbx + i - 1]
          /\ seen' = read
    BY <1>3 DEF CallImport
  <2>3. /\ m' = IF Returns[b] THEN t ELSE PopContractStack(t)
        /\ UNCHANGED <<pc, stack>>
    BY <1>3 DEF CallImport
  <2> HIDE DEF d, k, h
  <2>4. /\ n \in Nat /\ s \in Machine /\ s.rdi = Top.rdi + n + 1
        /\ s.rbx = Top.base + Clocals[Top.fn] /\ s.rbx + k <= LocalCells
        /\ \A p \in 1 .. n : s.op[Top.rdi + p] = h[p]
        /\ \A c \in 0 .. Top.rdi : s.op[c] = m.op[c] \/ (n = 0 /\ c = Top.rdi)
        /\ \A j \in 1 .. k : s.loc[s.rbx + j - 1] = h[n + j]
        /\ \A c \in 0 .. LocalCells - 1 : c \notin s.rbx .. s.rbx + k - 1 => s.loc[c] = m.loc[c]
    <3>1. PassedAs(s, k, n, h)
      BY <1>0, <1>1, <1>3, PassedFields DEF h
    <3> HIDE DEF s, n
    <3>2. QED BY <3>1 DEF PassedAs
  <2>5. Height = n + d + k
    BY <1>0, <2>1, <2>4
  <2> HIDE DEF s, n
  <2>6. t \in Machine /\ t.rax = 0 /\ t.rdi = s.rdi /\ t.rbx = Top.base /\ t.op = s.op /\ t.loc = s.loc
    <3> DEFINE r == s.rbx - Clocals[Top.fn]
    <3>1. r = Top.base /\ r \in Nat
      BY <2>1, <2>4
    <3>2. t = [s EXCEPT !.rax = 0, !.rbx = r]
      OBVIOUS
    <3> HIDE DEF r, t
    <3>3. 0 \in Word
      BY <1>0 DEF Word
    <3>4. QED BY <3>1, <3>2, <3>3, <2>4 DEF Machine
  <2> HIDE DEF t
  <2>7. /\ m' \in Machine /\ m'.rbx = Top.base /\ m'.op = s.op /\ m'.loc = s.loc
        /\ m'.rdi = Top.rdi + n + (IF Returns[b] THEN 1 ELSE 0)
        /\ m'.rax = IF Returns[b] THEN 0 ELSE s.op[Top.rdi + n]
    <3>1. CASE Returns[b]
      BY <3>1, <2>3, <2>4, <2>6, <2>1
    <3>2. CASE ~Returns[b]
      <4>1. t.rdi >= 1 /\ t.rdi - 1 = Top.rdi + n
        BY <2>1, <2>4, <2>6
      <4>2. m' = PopContractStack(t)
        BY <3>2, <2>3
      <4>3. m' \in Machine /\ m'.rax = t.op[t.rdi - 1] /\ m'.rdi = t.rdi - 1 /\ m'.rbx = t.rbx /\ m'.loc = t.loc /\ m'.op = t.op
        BY <4>1, <4>2, <2>6, PopFields
      <4>4. Top.rdi + n + 0 = Top.rdi + n
        BY <2>1, <2>4
      <4>5. QED BY <3>2, <4>1, <4>3, <4>4, <2>6
    <3>3. QED BY <3>1, <3>2
  <2>8. k + d \in 0 .. Len(h) /\ Len(h) - (k + d) = n
    BY <1>0, <2>1, <2>4, <2>5
  <2>9. left \in Seq(Value) /\ Len(left) = (IF Returns[b] THEN 1 ELSE 0) /\ (Returns[b] => left[1] = 0)
    BY <1>0
  <2> HIDE DEF left
  <2>10. /\ o \in Seq(Value) /\ Len(o) = n
         /\ q \in Seq(Value) /\ Len(q) = n + Len(left)
         /\ \A p \in 1 .. n : q[p] = h[p]
         /\ \A p \in 1 .. Len(left) : q[n + p] = left[p]
    BY <2>1, <2>8, <2>9, RestAndMore
  <2> HIDE DEF q, o
  <2>11. OperandsAt(m', Top) = q
    <3>1. Len(q) = m'.rdi - Top.rdi
      BY <2>1, <2>4, <2>7, <2>9, <2>10
    <3>2. ASSUME NEW p \in 1 .. Len(q)
          PROVE  q[p] = IF p = Len(q) THEN m'.rax ELSE m'.op[Top.rdi + p]
      <4>1. CASE Returns[b]
        <5>1. Len(q) = n + 1
          BY <4>1, <2>9, <2>10
        <5>2. CASE p = n + 1
          BY <4>1, <5>1, <5>2, <2>7, <2>9, <2>10
        <5>3. CASE p # n + 1
          <6>1. p \in 1 .. n
            BY <5>1, <5>3, <2>4
          <6>2. QED BY <6>1, <5>1, <5>3, <2>4, <2>7, <2>10
        <5>4. QED BY <5>2, <5>3
      <4>2. CASE ~Returns[b]
        <5>1. Len(q) = n /\ p \in 1 .. n
          BY <4>2, <2>4, <2>9, <2>10
        <5>2. QED BY <4>2, <5>1, <2>4, <2>7, <2>10
      <4>3. QED BY <4>1, <4>2
    <3>3. QED BY <3>1, <3>2, <2>10, OperandsAre
  <2>12. Keeps(m')
    <3>1. \A c \in 0 .. Top.saved - 1 : m'.op[c] = m.op[c]
      <4> TAKE c \in 0 .. Top.saved - 1
      <4>1. c \in 0 .. Top.rdi /\ c # Top.rdi
        BY <2>1
      <4>2. QED BY <4>1, <2>4, <2>7
    <3>2. \A c \in 0 .. Top.base - 1 : m'.loc[c] = m.loc[c]
      <4> TAKE c \in 0 .. Top.base - 1
      <4>1. c \in 0 .. LocalCells - 1 /\ c \notin s.rbx .. s.rbx + k - 1
        BY <1>0, <2>1, <2>4
      <4>2. QED BY <4>1, <2>4, <2>7
    <3>3. Top.rdi <= m'.rdi
      BY <2>1, <2>4, <2>7
    <3>4. QED BY <3>1, <3>2, <3>3, <2>1, <2>7, <2>10, <2>11 DEF Keeps
  <2>13. LocalsAt(m', Top) = LocalsAt(m, Top)
    <3>1. ASSUME NEW x \in 1 .. Clocals[Top.fn]
          PROVE  m'.loc[Top.base + x - 1] = m.loc[Top.base + x - 1]
      <4> DEFINE c == Top.base + x - 1
      <4>1. /\ LocalCells \in Nat /\ Top.base \in Nat /\ Clocals[Top.fn] \in Nat /\ s.rbx = Top.base + Clocals[Top.fn]
            /\ Top.base + Clocals[Top.fn] <= LocalCells
        BY <1>0, <2>1, <2>4
      <4>2. c \in 0 .. LocalCells - 1 /\ c < s.rbx
        BY ONLY <4>1, x \in 1 .. Clocals[Top.fn]
      <4> HIDE DEF c
      <4>3. c \notin s.rbx .. s.rbx + k - 1
        BY <4>1, <4>2
      <4>4. m'.loc[c] = m.loc[c]
        BY <4>2, <4>3, <2>4, <2>7
      <4>5. QED BY <4>4 DEF c
    <3>2. QED BY <3>1 DEF LocalsAt
  <2>14. seen' \in Seq(Value)
    BY <2>2, <1>0
  <2>15. IInv' /\ Activations' = Wasm!WithOperands(Wasm!Rest(k + d) \o left) /\ Len(Wasm!Here) = Height
    <3>1. k + d \in 0 .. Height /\ Height - (k + d) = n
      BY <2>1, <2>8
    <3>2. OperandsAt(m', Top) = SubSeq(OperandsAt(m, Top), 1, Height - (k + d)) \o left
      BY <3>1, <2>11 DEF q, o, h
    <3>3. QED BY <3>1, <3>2, <2>3, <2>12, <2>13, <2>14, OperateStep
  <2>16. Len(args) = k /\ \A j \in 1 .. k : args[j] = h[n + j]
    <3>1. h \in Seq(Value) /\ k \in Nat /\ d \in 0 .. 1 /\ Len(h) - d - k \in Nat /\ Len(h) - d - k = n
      BY <1>0, <2>1, <2>4, <2>5
    <3>2. Len(args) = k /\ \A j \in 1 .. k : args[j] = h[Len(h) - d - k + j]
      BY ONLY <3>1, ArgumentsAre
    <3> HIDE DEF args
    <3>3. QED BY <3>1, <3>2
  <2>17. Wasm!Here = h
    BY ActivationsNow DEF Wasm!Caller, Wasm!Here, h
  <2> DEFINE given == SubSeq(Wasm!Here, Len(Wasm!Here) - d - k + 1, Len(Wasm!Here) - d)
  <2>18. given = args
    BY <2>17
  <2> HIDE DEF args
  <2>19. seen' \in [1 .. Reads[b] -> Value] /\ \A i \in 1 .. Reads[b] : i <= k => seen'[i] = args[i]
    <3>1. PICK read \in [1 .. Reads[b] -> Value] :
            /\ \A i \in 1 .. Reads[b] : s.rbx + i <= LocalCells => read[i] = s.loc[s.rbx + i - 1]
            /\ seen' = read
      BY <2>2
    <3>2. ASSUME NEW i \in 1 .. Reads[b], i <= k
          PROVE  read[i] = args[i]
      <4>1. i \in 1 .. k /\ s.rbx + i <= LocalCells
        BY <3>2, <1>0, <2>1, <2>4
      <4>2. QED BY <4>1, <3>1, <2>4, <2>16
    <3>3. QED BY <3>1, <3>2
  <2> HIDE DEF given
  <2>20. Wasm!ACallImport(b, d)
    <3>1. Wasm!Result(b, 0) = left
      BY DEF Wasm!Result, left
    <3>2. pc = "running" /\ pc' = pc
      BY <2>3 DEF Live
    <3>3. Len(Wasm!Here) >= k + d
      BY <1>0, <2>1, <2>8, <2>17
    <3>4. \A i \in 1 .. Reads[b] : i <= k => seen'[i] = given[i]
      BY <2>18, <2>19
    <3>5. QED BY <3>1, <3>2, <3>3, <3>4, <2>15, <2>19 DEF Wasm!ACallImport, given, k
  <2>21. QED BY <1>0, <2>15, <2>20 DEF Wasm!ANext, Live
<1>4. QED BY <1>2, <1>3

-----------------------------------------------------------------------------
(* Traps and returns. *)

LEMMA NothingRuns ==
  ASSUME stack' = <<>>
  PROVE  Activations' = <<>>
<1>1. Acts(m', <<>>) = [i \in 1 .. 0 |-> Act(m', <<>>, i)]
  BY DEF Acts
<1>2. QED BY <1>1, ActivationsAreActsNext

LEMMA TrappedStep ==
  ASSUME IInv, Live, NEW s \in Machine, Trapped(s)
  PROVE  IInv' /\ Wasm!ANext
<1>1. pc' = "host" /\ m' = s /\ stack' = <<>> /\ seen' = <<>>
  BY DEF Trapped
<1>2. IInv'
  <2>1. Len(<<>>) <= MaxDepth /\ <<>> \in Seq(FrameType) /\ <<>> \in Seq(Value)
    BY CallFramesAssumption
  <2>2. QED BY <1>1, <2>1 DEF IInv, TypeOK, Live, Machine, OpCells, LocCells, Word
<1>3. Wasm!ATrap
  BY <1>1, NothingRuns DEF Wasm!ATrap, Live
<1>4. QED BY <1>2, <1>3 DEF Wasm!ANext

LEMMA CallIndirectTrapStep ==
  ASSUME IInv, Live, NEW k \in 0 .. Height - 1, CallIndirectTrap(k)
  PROVE  IInv' /\ Wasm!ANext
<1>1. Calls(k, TRUE)
  BY DEF CallIndirectTrap
<1>2. CASE ~CellsToPass(k, TRUE)
  BY <1>2, OverrunStep DEF CallIndirectTrap, Live
<1>3. CASE CellsToPass(k, TRUE)
  <2>1. k \in Nat /\ TRUE \in BOOLEAN /\ 1 \in 0 .. 1 /\ 1 = IF TRUE THEN 1 ELSE 0
    BY Running
  <2>2. Passed(k, TRUE) \in Machine
    BY <1>1, <1>3, <2>1, PassedFields DEF PassedAs
  <2>3. Trapped(Passed(k, TRUE))
    BY <1>3 DEF CallIndirectTrap
  <2>4. QED BY <2>2, <2>3, TrappedStep
<1>4. QED BY <1>2, <1>3

(* The last operand is the result, if there is one. *)
LEMMA ResultIs ==
  ASSUME IInv, Live, Height >= Yield(Top.fn)
  PROVE  /\ Wasm!Caller.fn = Top.fn
         /\ Returns[Top.fn] => Len(Wasm!Here) >= 1 /\ Wasm!Here[Len(Wasm!Here)] = m.rax /\ m.rax \in Value
<1>1. /\ Wasm!Caller = [fn |-> Top.fn, locals |-> LocalsAt(m, Top), operands |-> OperandsAt(m, Top)]
      /\ Wasm!Here = OperandsAt(m, Top)
  BY ActivationsNow DEF Wasm!Caller, Wasm!Here
<1>2. ASSUME Returns[Top.fn]
      PROVE  Len(Wasm!Here) >= 1 /\ Wasm!Here[Len(Wasm!Here)] = m.rax /\ m.rax \in Value
  <2>1. Height \in 1 .. Height
    BY <1>2, Running DEF Yield
  <2>2. QED BY <2>1, <1>1, Running
<1>3. QED BY <1>1, <1>2

LEMMA ReturnStep ==
  ASSUME IInv, Live, NEW s \in Machine, s.rbx = m.rbx, s.op = m.op, s.loc = m.loc, s.rax = m.rax,
         Height >= Yield(Top.fn), Return(s)
  PROVE  IInv' /\ Wasm!ANext
<1> DEFINE f == Top.fn
           z == Len(stack)
           a == Activations
           b == Activations'
           v == Wasm!Here[Len(Wasm!Here)]
<1>0. OperandCells \in Nat \ {0} /\ LocalCells \in Nat /\ MaxDepth \in Nat \ {0}
  BY CallFramesAssumption
<1>1. /\ stack \in Seq(FrameType) /\ stack # <<>> /\ m \in Machine /\ Nested(stack) /\ Valued(m, stack)
      /\ z \in Nat \ {0} /\ Top = TopOf(stack) /\ Top = stack[z] /\ Top \in FrameType
  BY Running DEF IInv, Top
<1>2. /\ f \in Fn /\ Top.saved \in Nat /\ Top.rdi \in Nat /\ Top.base \in Nat
      /\ Top.rdi = Top.saved + 1 /\ m.rbx = Top.base /\ Top.rdi <= m.rdi /\ m.rdi \in 0 .. OperandCells
  BY Running
<1>3. Returns[f] \in BOOLEAN
  BY <1>2, CallFramesAssumption
<1>4. /\ Wasm!Caller.fn = f
      /\ Returns[f] => Len(Wasm!Here) >= 1 /\ v = m.rax /\ m.rax \in Value
  BY ResultIs
<1>5. a \in Seq(ActType) /\ Len(a) = z /\ \A i \in 1 .. z : a[i] = Act(m, stack, i)
  BY ActivationsNow
<1>6. CASE z = 1
  <2>1. /\ pc' = "host" /\ m' = s /\ stack' = <<>>
        /\ seen' = IF Returns[f] THEN <<s.rax>> ELSE <<>>
    BY <1>6 DEF Return
  <2>2. seen' = Wasm!Result(f, v) /\ seen' \in Seq(Value)
    <3>1. CASE Returns[f]
      BY <3>1, <2>1, <1>4 DEF Wasm!Result
    <3>2. CASE ~Returns[f]
      BY <3>2, <2>1 DEF Wasm!Result
    <3>3. QED BY <3>1, <3>2
  <2>3. IInv'
    <3>1. Len(<<>>) <= MaxDepth /\ <<>> \in Seq(FrameType)
      BY <1>0
    <3>2. QED BY <2>1, <2>2, <3>1 DEF IInv, TypeOK, Live, Machine, OpCells, LocCells, Word
  <2>4. Activations' = <<>>
    BY <2>1, NothingRuns
  <2>5. Wasm!AReturn
    BY <2>1, <2>2, <2>4, <1>4, <1>5, <1>6 DEF Wasm!AReturn, Live
  <2>6. QED BY <2>3, <2>5 DEF Wasm!ANext, Live
<1>7. CASE z # 1
  <2> DEFINE n == z - 1
             fr == stack[n]
             kept == KeptAt(m, fr, Top.saved)
             t == [s EXCEPT !.rdi = Top.saved, !.rbx = @ - Top.cb]
             left == IF Returns[f] THEN <<m.rax>> ELSE <<>>
             q == kept \o left
  <2>1. n \in Nat \ {0} /\ n \in 1 .. z /\ n < z /\ n + 1 = z /\ z \in 1 .. z /\ n \in 1 .. z - 1
    <3>1. z \in Nat \ {0}
      BY ONLY <1>1
    <3>2. z # 1
      BY ONLY <1>7
    <3> HIDE DEF z
    <3>3. QED BY ONLY <3>1, <3>2 DEF n
  <2>2. m' = (IF Returns[f] THEN t ELSE PopContractStack(t)) /\ stack' = SubSeq(stack, 1, z - 1)
        /\ pc' = pc /\ seen' = seen
    BY <1>7 DEF Return, AfterCall, Cleanup
  <2>3. /\ fr.fn \in Fn /\ fr.rdi \in Nat /\ fr.base \in Nat /\ Clocals[fr.fn] \in Nat /\ Top.cb \in Nat
        /\ Top.cb = Clocals[fr.fn] /\ Top.base = fr.base + Clocals[fr.fn] /\ fr.rdi < Top.saved
    <3>1. fr.fn \in Fn /\ fr.rdi \in Nat /\ fr.base \in Nat /\ Clocals[fr.fn] \in Nat
      BY <1>1, <2>1, FrameFields
    <3>2. stack[n + 1].cb = Clocals[stack[n].fn] /\ stack[n + 1].base = stack[n].base + Clocals[stack[n].fn]
          /\ stack[n].rdi < stack[z].saved
      BY <1>1, <2>1 DEF Nested
    <3>3. QED BY <3>1, <3>2, <1>1, <2>1
  <2> HIDE DEF n
  <2>4. t \in Machine /\ t.rax = m.rax /\ t.rdi = Top.saved /\ t.rbx = fr.base /\ t.op = m.op /\ t.loc = m.loc
    <3> DEFINE r == s.rbx - Top.cb
    <3>1. r = fr.base /\ r \in Nat /\ Top.saved \in 0 .. OperandCells
      BY <1>0, <1>2, <2>3
    <3>2. t = [s EXCEPT !.rdi = Top.saved, !.rbx = r]
      OBVIOUS
    <3> HIDE DEF r, t
    <3>3. QED BY <3>1, <3>2 DEF Machine
  <2> HIDE DEF t
  <2>5. /\ m' \in Machine /\ m'.rbx = fr.base /\ m'.op = m.op /\ m'.loc = m.loc
        /\ m'.rdi = Top.saved - (IF Returns[f] THEN 0 ELSE 1)
        /\ m'.rax = IF Returns[f] THEN m.rax ELSE m.op[Top.saved - 1]
    <3>1. CASE Returns[f]
      BY <3>1, <1>2, <2>2, <2>4
    <3>2. CASE ~Returns[f]
      <4>1. t.rdi >= 1
        BY <1>2, <2>3, <2>4
      <4>2. m' = PopContractStack(t)
        BY <3>2, <2>2
      <4>3. m' \in Machine /\ m'.rax = t.op[t.rdi - 1] /\ m'.rdi = t.rdi - 1 /\ m'.rbx = t.rbx /\ m'.loc = t.loc /\ m'.op = t.op
        BY <4>1, <4>2, <2>4, PopFields
      <4>4. QED BY <3>2, <4>3, <2>4
    <3>3. QED BY <3>1, <3>2
  <2>6. Act(m, stack, n) = [fn |-> fr.fn, locals |-> LocalsAt(m, fr), operands |-> kept]
    BY <1>1, <2>1 DEF Act
  <2>7. kept \in Seq(Value)
    BY <1>1, <2>1, <2>6 DEF Valued
  <2>8. /\ Len(kept) = Top.saved - fr.rdi - 1
        /\ \A p \in 1 .. Len(kept) : kept[p] = m.op[fr.rdi + p]
    <3>1. Top.saved - fr.rdi - 1 \in Nat
      BY <1>2, <2>3
    <3>2. kept = [p \in 1 .. Top.saved - fr.rdi - 1 |-> m.op[fr.rdi + p]]
      BY DEF KeptAt
    <3>3. Len(kept) = Top.saved - fr.rdi - 1
      BY <3>1, <3>2, <2>7, LenProperties
    <3>4. QED BY <3>2, <3>3
  <2>9. left \in Seq(Value) /\ Len(left) = (IF Returns[f] THEN 1 ELSE 0) /\ (Returns[f] => left[1] = m.rax)
        /\ left = Wasm!Result(f, v)
    BY <1>3, <1>4 DEF Wasm!Result
  <2> HIDE DEF left, kept, fr
  <2>10. /\ q \in Seq(Value) /\ Len(q) = Len(kept) + Len(left)
         /\ \A p \in 1 .. Len(kept) + Len(left) : q[p] = IF p <= Len(kept) THEN kept[p] ELSE left[p - Len(kept)]
    BY <2>7, <2>9, ConcatProperties
  <2> HIDE DEF q
  <2>11. OperandsAt(m', fr) = q
    <3>1. Len(kept) \in Nat
      BY <2>7, LenProperties
    <3>2. Len(q) = m'.rdi - fr.rdi
      BY <1>2, <1>3, <2>3, <2>5, <2>8, <2>9, <2>10
    <3>3. ASSUME NEW p \in 1 .. Len(q)
          PROVE  q[p] = IF p = Len(q) THEN m'.rax ELSE m'.op[fr.rdi + p]
      <4>1. CASE Returns[f]
        <5>1. Len(q) = Len(kept) + 1
          BY <4>1, <2>9, <2>10
        <5>2. CASE p = Len(kept) + 1
          <6>1. q[p] = left[1]
            BY <5>1, <5>2, <3>1, <2>9, <2>10, <4>1
          <6>2. QED BY <6>1, <4>1, <5>1, <5>2, <2>5, <2>9
        <5>3. CASE p # Len(kept) + 1
          <6>1. p \in 1 .. Len(kept)
            BY <5>1, <5>3, <3>1
          <6>2. q[p] = kept[p]
            BY <6>1, <3>1, <2>9, <2>10, <4>1
          <6>3. QED BY <6>1, <6>2, <5>1, <5>3, <2>5, <2>8
        <5>4. QED BY <5>2, <5>3
      <4>2. CASE ~Returns[f]
        <5>1. Len(q) = Len(kept) /\ p \in 1 .. Len(kept)
          BY <4>2, <3>1, <2>9, <2>10
        <5>2. q[p] = m.op[fr.rdi + p]
          BY <5>1, <3>1, <2>8, <2>9, <2>10, <4>2
        <5>3. CASE p = Len(q)
          <6>1. fr.rdi + p = Top.saved - 1
            BY <5>1, <5>3, <1>2, <2>3, <2>8
          <6>2. QED BY <6>1, <5>2, <5>3, <4>2, <2>5
        <5>4. CASE p # Len(q)
          BY <5>2, <5>4, <2>5
        <5>5. QED BY <5>3, <5>4
      <4>3. QED BY <4>1, <4>2
    <3>4. QED BY <3>2, <3>3, <2>10, OperandsAre
  <2>12. /\ stack' \in Seq(FrameType) /\ Len(stack') = n /\ \A i \in 1 .. n : stack'[i] = stack[i]
         /\ Nested(stack') /\ stack' # <<>>
    <3>1. /\ stack' \in Seq(FrameType) /\ Len(stack') = z - 1 /\ \A i \in 1 .. z - 1 : stack'[i] = stack[i]
          /\ Nested(stack')
      BY <1>1, <2>2, Front
    <3>2. z - 1 = n
      BY DEF n
    <3>3. QED BY <3>1, <3>2, <2>1
  <2>13. Rests(m', stack')
    <3>1. TopOf(stack') = fr
      BY <2>1, <2>12 DEF TopOf, fr
    <3>2. fr.rdi <= m'.rdi
      BY <1>2, <1>3, <2>3, <2>5
    <3>3. QED BY <3>1, <3>2, <2>5 DEF Rests
  <2>14. Act(m', stack', n) = [fn |-> fr.fn, locals |-> LocalsAt(m, fr), operands |-> q]
    <3>1. LocalsAt(m', fr) = LocalsAt(m, fr)
      BY <2>5 DEF LocalsAt
    <3>2. stack'[n] = fr /\ n = Len(stack')
      BY <2>1, <2>12 DEF fr
    <3>3. QED BY <3>1, <3>2, <2>11 DEF Act
  <2>15. \A i \in 1 .. n - 1 : Act(m', stack', i) = Act(m, stack, i)
    <3> TAKE i \in 1 .. n - 1
    <3>1. i \in 1 .. n /\ i + 1 \in 1 .. n /\ i # z /\ i # n
      BY <2>1
    <3>2. stack'[i] = stack[i] /\ stack'[i + 1] = stack[i + 1]
      BY <3>1, <2>12
    <3>3. /\ LocalsAt(m', stack[i]) = LocalsAt(m, stack[i])
          /\ KeptAt(m', stack[i], stack[i + 1].saved) = KeptAt(m, stack[i], stack[i + 1].saved)
      BY <2>5 DEF LocalsAt, KeptAt
    <3>4. QED BY <3>1, <3>2, <3>3, <2>12 DEF Act
  <2>16. Valued(m', stack')
    <3> SUFFICES ASSUME NEW i \in 1 .. n PROVE Act(m', stack', i).operands \in Seq(Value)
      BY <2>12 DEF Valued
    <3>1. CASE i = n
      BY <3>1, <2>10, <2>14
    <3>2. CASE i # n
      <4>1. i \in 1 .. n - 1 /\ i \in 1 .. z
        BY <3>2, <2>1
      <4>2. QED BY <4>1, <1>1, <2>15 DEF Valued
    <3>3. QED BY <3>1, <3>2
  <2>17. TypeOK'
    <3>1. Len(stack') <= MaxDepth
      BY <1>0, <2>1, <2>12 DEF IInv, TypeOK
    <3>2. seen' \in Seq(Value) /\ pc' \in {"host", "running", "overrun"}
      BY <2>2 DEF IInv, TypeOK
    <3>3. QED BY <3>1, <3>2, <2>5, <2>12 DEF TypeOK, Machine, OpCells, LocCells, Word
  <2>18. IInv'
    BY <2>2, <2>12, <2>13, <2>16, <2>17 DEF IInv, Live
  <2>19. b \in Seq(ActType) /\ Len(b) = n /\ \A i \in 1 .. n : b[i] = Act(m', stack', i)
    BY <2>5, <2>12, <2>16, ActsAreActivations, ActivationsAreActsNext
  <2> HIDE DEF a, b
  <2>20. b = Append(SubSeq(a, 1, n - 1), b[n])
    <3>1. \A i \in 1 .. n - 1 : b[i] = a[i]
      <4> TAKE i \in 1 .. n - 1
      <4>1. i \in 1 .. n /\ i \in 1 .. z
        BY <2>1
      <4>2. QED BY <4>1, <1>5, <2>15, <2>19
    <3>2. Len(b) >= 1 /\ Len(b) - 1 <= Len(a)
      BY <1>5, <2>1, <2>19
    <3>3. QED BY <3>1, <3>2, <1>5, <2>19, LastReplaced
  <2>21. b[n] = [a[n] EXCEPT !.operands = @ \o Wasm!Result(f, v)]
    <3> DEFINE y == [fn |-> fr.fn, locals |-> LocalsAt(m, fr), operands |-> kept]
    <3> DEFINE w == kept \o left
    <3>0. y.operands = kept
      OBVIOUS
    <3>1. [y EXCEPT !.operands = @ \o left] = [fn |-> fr.fn, locals |-> LocalsAt(m, fr), operands |-> w]
      <4>1. \A u : [y EXCEPT !.operands = u] = [fn |-> fr.fn, locals |-> LocalsAt(m, fr), operands |-> u]
        OBVIOUS
      <4> HIDE DEF y
      <4>2. [y EXCEPT !.operands = @ \o left] = [y EXCEPT !.operands = w]
        BY <3>0
      <4> HIDE DEF w
      <4>3. QED BY <4>1, <4>2
    <3>2. a[n] = y
      BY <1>5, <2>1, <2>6
    <3> HIDE DEF y
    <3>3. b[n] = [fn |-> fr.fn, locals |-> LocalsAt(m, fr), operands |-> kept \o left]
      BY <2>1, <2>14, <2>19 DEF q
    <3>4. QED BY <3>1, <3>2, <3>3, <2>9
  <2>22. Wasm!AReturn
    <3>1. Len(a) > 1 /\ Len(a) - 1 = n
      BY <1>5, <2>1
    <3>2. b = Append(SubSeq(a, 1, n - 1), [a[n] EXCEPT !.operands = @ \o Wasm!Result(f, v)])
      BY <2>20, <2>21
    <3>3. QED BY <3>1, <3>2, <1>4, <2>2 DEF Wasm!AReturn, Live, a, b
  <2>23. QED BY <2>18, <2>22 DEF Wasm!ANext, Live
<1>8. QED BY <1>6, <1>7

-----------------------------------------------------------------------------
(* All steps. *)

LEMMA EndStep ==
  ASSUME IInv, Live, End
  PROVE  IInv' /\ Wasm!ANext
<1> DEFINE r == Top.rdi
           s == [m EXCEPT !.rdi = r]
<1>1. OperandCells \in Nat \ {0} /\ m \in Machine
  BY CallFramesAssumption, Running
<1>2. r \in 0 .. OperandCells
  BY <1>1, Running
<1>3. Height >= Yield(Top.fn)
  BY Running DEF End, Yield
<1>4. Return(s)
  BY DEF End
<1> HIDE DEF r
<1>5. s \in Machine /\ s.rbx = m.rbx /\ s.op = m.op /\ s.loc = m.loc /\ s.rax = m.rax
  BY <1>1, <1>2 DEF Machine
<1> HIDE DEF s
<1>6. QED BY <1>3, <1>4, <1>5, ReturnStep

LEMMA RetStep ==
  ASSUME IInv, Live, Ret
  PROVE  IInv' /\ Wasm!ANext
<1>1. m \in Machine
  BY Running
<1>2. QED BY <1>1, ReturnStep DEF Ret

LEMMA TrapStep ==
  ASSUME IInv, Trap
  PROVE  IInv' /\ Wasm!ANext
<1>1. Live /\ Trapped(m)
  BY DEF Trap
<1>2. m \in Machine
  BY <1>1, Running
<1>3. QED BY <1>1, <1>2, TrappedStep

LEMMA NextStep ==
  ASSUME IInv, Next
  PROVE  IInv' /\ Wasm!ANext
<1>1. CASE \E f \in Fn, n \in 0 .. MaxArgs : \E args \in [1 .. n -> Value] : HostCall(f, args)
  BY <1>1, HostCallStep
<1>2. CASE \E v \in Value : Const(v)
  BY <1>2, ConstStep
<1>3. CASE Live /\ \E idx \in 0 .. Clocals[Top.fn] - 1 :
             ReadLocal(idx) \/ WriteLocal(idx, TRUE) \/ WriteLocal(idx, FALSE)
  <2>1. PICK idx \in 0 .. Clocals[Top.fn] - 1 : ReadLocal(idx) \/ WriteLocal(idx, TRUE) \/ WriteLocal(idx, FALSE)
    BY <1>3
  <2>2. CASE ReadLocal(idx)
    BY <1>3, <2>2, ReadLocalStep
  <2>3. CASE \E fPop \in BOOLEAN : WriteLocal(idx, fPop)
    BY <1>3, <2>3, WriteLocalStep
  <2>4. QED BY <2>1, <2>2, <2>3
<1>4. CASE Live /\ (Drop \/ End \/ Ret)
  BY <1>4, DropStep, EndStep, RetStep
<1>5. CASE \E fIndirect \in BOOLEAN : Live /\ \E f \in Fn : Call(f, fIndirect)
  BY <1>5, CallStep
<1>6. CASE \E fIndirect \in BOOLEAN : Live /\ \E b \in Import : CallImport(b, fIndirect)
  BY <1>6, CallImportStep
<1>7. CASE Live /\ \E k \in 0 .. Height - 1 : CallIndirectTrap(k)
  BY <1>7, CallIndirectTrapStep
<1>8. CASE Trap
  BY <1>8, TrapStep
<1>9. QED BY <1>1, <1>2, <1>3, <1>4, <1>5, <1>6, <1>7, <1>8 DEF Next

LEMMA InitStep ==
  ASSUME Init
  PROVE  IInv /\ Wasm!AInit
<1> DEFINE o == [c \in 0 .. OperandCells - 1 |-> 0]
           l == [c \in 0 .. LocalCells - 1 |-> 0]
<1>1. /\ OperandCells \in Nat \ {0} /\ MaxDepth \in Nat \ {0} /\ 0 \in Value
      /\ pc = "host" /\ stack = <<>> /\ seen = <<>>
      /\ m = [rax |-> Junk, rdi |-> 0, rbx |-> 0, op |-> o, loc |-> l]
  BY CallFramesAssumption DEF Init
<1>2. o \in OpCells /\ l \in LocCells /\ 0 \in 0 .. OperandCells /\ 0 \in Nat /\ Junk \in Word
  BY <1>1 DEF OpCells, LocCells, Word
<1> HIDE DEF o, l
<1>3. m \in Machine
  BY <1>1, <1>2 DEF Machine
<1>4. Len(<<>>) <= MaxDepth /\ <<>> \in Seq(FrameType) /\ <<>> \in Seq(Value)
  BY <1>1
<1>5. IInv
  BY <1>1, <1>3, <1>4 DEF IInv, TypeOK, Live, Machine, OpCells, LocCells, Word
<1>6. Activations = <<>>
  <2>1. Acts(m, <<>>) = [i \in 1 .. 0 |-> Act(m, <<>>, i)]
    BY DEF Acts
  <2>2. QED BY <1>1, <2>1, ActivationsAreActs
<1>7. Wasm!AInit
  BY <1>1, <1>6 DEF Wasm!AInit
<1>8. QED BY <1>5, <1>7

LEMMA Stutter ==
  ASSUME IInv, UNCHANGED vars
  PROVE  IInv' /\ UNCHANGED Wasm!avars
<1>1. IInv'
  BY DEF IInv, vars, TypeOK, Live
<1>2. Activations' = Activations
  BY ActivationsAreActs, ActivationsAreActsNext DEF vars
<1>3. QED BY <1>1, <1>2 DEF vars, Wasm!avars

LEMMA Disjoint ==
  ASSUME IInv
  PROVE  FramesAreDisjoint
<1> SUFFICES ASSUME Live
             PROVE  /\ m.rbx = Top.base /\ Top.rdi <= m.rdi
                    /\ \A i, j \in 1 .. Len(stack) :
                         i < j => LocalsOf(i) \cap LocalsOf(j) = {} /\ OperandsOf(i) \cap OperandsOf(j) = {}
  BY DEF FramesAreDisjoint
<1>1. stack \in Seq(FrameType) /\ Nested(stack) /\ Len(stack) \in Nat
  BY Running DEF IInv
<1>2. ASSUME NEW i \in 1 .. Len(stack), NEW j \in 1 .. Len(stack), i < j
      PROVE  LocalsOf(i) \cap LocalsOf(j) = {} /\ OperandsOf(i) \cap OperandsOf(j) = {}
  <2> DEFINE bi == stack[i].base
             bj == stack[j].base
             si == stack[i].rdi
             sj == stack[j].rdi
             top == stack[i + 1].saved
             saved == stack[j].saved
  <2>1. i + 1 \in 1 .. Len(stack) /\ i # Len(stack) /\ i \in 1 .. Len(stack) - 1
    BY <1>1, <1>2
  <2>2. /\ bi \in Nat /\ bj \in Nat /\ si \in Nat /\ sj \in Nat /\ top \in Nat /\ saved \in Nat
        /\ Clocals[stack[i].fn] \in Nat /\ Clocals[stack[j].fn] \in Nat /\ stack[i + 1].rdi \in Nat
    BY <1>1, <2>1, FrameFields
  <2>3. bi + Clocals[stack[i].fn] <= bj /\ sj = saved + 1 /\ stack[i + 1].rdi = top + 1
    BY <1>1, <1>2, <2>1 DEF Nested
  <2>4. top <= saved
    <3>1. CASE i + 1 = j
      BY <3>1, <2>2
    <3>2. CASE i + 1 # j
      <4>1. i + 1 < j
        BY <1>1, <1>2, <3>2
      <4>2. stack[i + 1].rdi < saved
        BY <1>1, <2>1, <4>1 DEF Nested
      <4>3. QED BY <2>2, <2>3, <4>2
    <3>3. QED BY <3>1, <3>2
  <2>5. LocalsOf(i) = bi .. bi + Clocals[stack[i].fn] - 1 /\ LocalsOf(j) = bj .. bj + Clocals[stack[j].fn] - 1
    BY DEF LocalsOf
  <2>6. OperandsOf(i) = si - 1 .. top - 1
    BY <2>1 DEF OperandsOf
  <2>7. \A c \in OperandsOf(j) : c \in Int /\ c >= sj - 1
    <3>1. m.rdi \in Int
      BY <1>1, Running, CallFramesAssumption
    <3>2. CASE j = Len(stack)
      BY <3>1, <3>2, <2>2 DEF OperandsOf
    <3>3. CASE j # Len(stack)
      <4>1. j + 1 \in 1 .. Len(stack)
        BY <1>1, <3>3
      <4>2. stack[j + 1].saved \in Nat
        BY <1>1, <4>1, FrameFields
      <4>3. QED BY <3>3, <4>2, <2>2 DEF OperandsOf
    <3>4. QED BY <3>2, <3>3
  <2> HIDE DEF bi, bj, si, sj, top, saved
  <2>8. LocalsOf(i) \cap LocalsOf(j) = {}
    <3>1. \A c \in LocalsOf(i) : c \in Int /\ c < bj
      BY ONLY <2>2, <2>3, <2>5
    <3>2. \A c \in LocalsOf(j) : c \in Int /\ bj <= c
      BY ONLY <2>2, <2>5
    <3>3. QED BY ONLY <3>1, <3>2, <2>2
  <2>9. OperandsOf(i) \cap OperandsOf(j) = {}
    <3>1. \A c \in OperandsOf(i) : c \in Int /\ c <= top - 1
      BY <2>2, <2>6
    <3>2. top - 1 < sj - 1
      BY ONLY <2>2, <2>3, <2>4
    <3>3. QED BY ONLY <3>1, <3>2, <2>2, <2>7
  <2>10. QED BY <2>8, <2>9
<1>3. QED BY <1>2, Running

(* Registers and cells keep their ranges, and what a function is run on is *)
(* always a value and never what the host's call left in rax.              *)
THEOREM IInvAlways == Spec => []IInv
<1>1. IInv /\ [Next]_vars => IInv'
  BY NextStep, Stutter
<1>2. Init => IInv
  BY InitStep
<1>3. QED BY <1>1, <1>2, PTL DEF Spec

(* rdi never leaves m_vecoperand and nothing but a value is ever stored in *)
(* a local: the code of a call has no check of either.                     *)
THEOREM TypeOKAlways == Spec => []TypeOK
<1>1. IInv => TypeOK
  BY DEF IInv
<1>2. QED BY <1>1, IInvAlways, PTL

(* No call, return or trap lets an activation reach the locals or operands *)
(* of another one, and a caller finds rbx and rdi where it left them.      *)
THEOREM FramesAreDisjointAlways == Spec => []FramesAreDisjoint
<1>1. IInv => FramesAreDisjoint
  BY Disjoint
<1>2. QED BY <1>1, IInvAlways, PTL

(* The code of calls, with two vectors that nothing clears and two         *)
(* registers, implements activations with locals and operands of their     *)
(* own, whatever the functions of the module.                              *)
THEOREM ImplementsActivationsAlways == Spec => ImplementsActivations
<1>1. Init => Wasm!AInit
  BY InitStep
<1>2. IInv /\ [Next]_vars => [Wasm!ANext]_(Wasm!avars)
  BY NextStep, Stutter
<1>3. QED BY <1>1, <1>2, IInvAlways, PTL DEF Spec, ImplementsActivations, Wasm!ASpec
=============================================================================
