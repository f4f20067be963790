--------------------------- MODULE JitFramesProofs ---------------------------
(***************************************************************************)
(* Generated code keeps the native stack in step with the blocks it is in, *)
(* for every bytecode, every operand and any depth of blocks, the five     *)
(* constructs it gets wrong included: those leave wrong operands, never a  *)
(* wrong frame.                                                            *)
(***************************************************************************)
EXTENDS JitFrames, SequenceTheorems, TLAPS

(* The invariant is inductive as it stands.                                *)
IInv == TypeOK /\ FramesNest /\ ReturnIsBalanced

-----------------------------------------------------------------------------
(* Sequences. *)

LEMMA Prefix ==
  ASSUME NEW S, NEW s \in Seq(S), NEW n \in 0 .. Len(s)
  PROVE  /\ SubSeq(s, 1, n) \in Seq(S)
         /\ Len(SubSeq(s, 1, n)) = n
         /\ \A k \in 1 .. n : SubSeq(s, 1, n)[k] = s[k]
<1>1. Len(s) \in Nat
  BY LenProperties
<1>2. \A k \in 1 .. n : s[k] \in S
  BY <1>1, ElementOfSeq
<1>3. /\ SubSeq(s, 1, n) \in Seq(S)
      /\ Len(SubSeq(s, 1, n)) = IF 1 <= n THEN n - 1 + 1 ELSE 0
      /\ \A k \in 1 .. n - 1 + 1 : SubSeq(s, 1, n)[k] = s[1 + k - 1]
  BY <1>1, <1>2, SubSeqProperties
<1>4. Len(SubSeq(s, 1, n)) = n
  <2>1. CASE n = 0
    BY <2>1, <1>3
  <2>2. CASE n > 0
    BY <2>2, <1>1, <1>3
  <2> QED  BY <1>1, <2>1, <2>2
<1>5. \A k \in 1 .. n : SubSeq(s, 1, n)[k] = s[k]
  <2>1. \A k \in 1 .. n : 1 + k - 1 = k /\ k \in 1 .. n - 1 + 1
    BY <1>1
  <2> QED  BY <2>1, <1>3
<1> QED  BY <1>3, <1>4, <1>5

LEMMA Extended ==
  ASSUME NEW S, NEW s \in Seq(S), NEW e \in S
  PROVE  /\ Append(s, e) \in Seq(S)
         /\ Len(Append(s, e)) = Len(s) + 1
         /\ Len(s) \in Nat
         /\ Append(s, e)[Len(s) + 1] = e
         /\ \A k \in 1 .. Len(s) : Append(s, e)[k] = s[k]
BY AppendProperties, LenProperties

-----------------------------------------------------------------------------
(* Machines. *)

LEMMA MachineFields ==
  ASSUME NEW s \in Machine
  PROVE  /\ s.rax \in Cells /\ s.rcx \in Cells
         /\ s.stk \in Seq(Cells) /\ s.msp \in Seq(Nat)
         /\ Len(s.stk) \in Nat /\ Len(s.msp) \in Nat
         /\ \A k \in 1 .. Len(s.msp) : s.msp[k] \in Nat
BY ElementOfSeq, LenProperties DEF Machine

LEMMA MachineIs ==
  ASSUME NEW s \in Machine, NEW a \in Cells, NEW c \in Cells,
         NEW t \in Seq(Cells), NEW p \in Seq(Nat)
  PROVE  /\ [s EXCEPT !.rax = a] \in Machine
         /\ [s EXCEPT !.rax = a, !.rcx = c] \in Machine
         /\ [s EXCEPT !.rcx = c, !.rax = a, !.stk = t] \in Machine
         /\ [s EXCEPT !.rax = a, !.stk = t] \in Machine
         /\ [s EXCEPT !.rcx = c, !.stk = t] \in Machine
         /\ [s EXCEPT !.stk = t] \in Machine
         /\ [s EXCEPT !.msp = p] \in Machine
         /\ [s EXCEPT !.stk = t, !.msp = p] \in Machine
BY DEF Machine

(* t is what straight-line code that pops at most k operands makes of s.   *)
Straight(s, t, k) ==
  /\ t \in Machine
  /\ t.msp = s.msp
  /\ Len(t.stk) >= Len(s.stk) - k

LEMMA TopCell ==
  ASSUME NEW s \in Machine, Len(s.stk) > 0
  PROVE  /\ Top(s.stk) \in Cells
         /\ Below(s.stk) \in Seq(Cells)
         /\ Len(Below(s.stk)) = Len(s.stk) - 1
<1>1. s.stk \in Seq(Cells) /\ Len(s.stk) \in Nat
  BY MachineFields
<1>2. Len(s.stk) \in 1 .. Len(s.stk) /\ Len(s.stk) - 1 \in 0 .. Len(s.stk)
  BY <1>1
<1>3. Top(s.stk) \in Cells
  BY <1>1, <1>2, ElementOfSeq DEF Top
<1>4. Below(s.stk) \in Seq(Cells) /\ Len(Below(s.stk)) = Len(s.stk) - 1
  BY <1>1, <1>2, Prefix DEF Below
<1> QED  BY <1>3, <1>4

LEMMA Pushed ==
  ASSUME NEW s \in Machine
  PROVE  LET t == PushExpandStack(s)
         IN t \in Machine /\ t.msp = s.msp /\ Len(t.stk) = Len(s.stk) + 1 /\ t.rax = s.rax
<1>1. s.stk \in Seq(Cells) /\ s.rax \in Cells
  BY MachineFields
<1>2. Append(s.stk, s.rax) \in Seq(Cells) /\ Len(Append(s.stk, s.rax)) = Len(s.stk) + 1
  BY <1>1, Extended
<1> QED  BY <1>1, <1>2 DEF PushExpandStack, Machine

LEMMA Contracted ==
  ASSUME NEW s \in Machine, Len(s.stk) > 0
  PROVE  LET t == PopContractStack(s)
         IN t \in Machine /\ t.msp = s.msp /\ Len(t.stk) = Len(s.stk) - 1
<1>1. Top(s.stk) \in Cells /\ Below(s.stk) \in Seq(Cells) /\ Len(Below(s.stk)) = Len(s.stk) - 1
  BY TopCell
<1> QED  BY <1>1 DEF PopContractStack, Machine

LEMMA SecondPopped ==
  ASSUME NEW s \in Machine, Len(s.stk) > 0, NEW b \in BOOLEAN
  PROVE  LET t == PopSecondParam(s, b)
         IN t \in Machine /\ t.msp = s.msp /\ Len(t.stk) = Len(s.stk) - 1
<1>1. /\ Top(s.stk) \in Cells /\ Below(s.stk) \in Seq(Cells)
      /\ Len(Below(s.stk)) = Len(s.stk) - 1
      /\ s.rax \in Cells
  BY TopCell, MachineFields
<1> QED  BY <1>1 DEF PopSecondParam, Machine

-----------------------------------------------------------------------------
(* Straight-line code. *)

LEMMA Applied ==
  ASSUME NEW x \in Cells, NEW y \in Cells
  PROVE  Apply(<<x>>) \in Cells /\ Apply(<<x, y>>) \in Cells
<1>1. 1 \in 0 .. MaxArgs + 2 /\ 2 \in 0 .. MaxArgs + 2
  BY FramesAssumption
<1>2. <<x>> \in [1 .. 1 -> Cells] /\ <<x, y>> \in [1 .. 2 -> Cells]
  OBVIOUS
<1> QED  BY <1>1, <1>2, FramesAssumption DEF Cells

LEMMA StraightIf ==
  ASSUME NEW s \in Machine, NEW t \in Machine, NEW k \in Nat,
         t.msp = s.msp, Len(t.stk) = Len(s.stk) - k
  PROVE  Straight(s, t, k)
<1>1. Len(s.stk) \in Nat
  BY MachineFields
<1> QED  BY <1>1 DEF Straight

LEMMA RaxSet ==
  ASSUME NEW s \in Machine, NEW v \in Cells
  PROVE  LET t == [s EXCEPT !.rax = v]
         IN t \in Machine /\ t.msp = s.msp /\ t.stk = s.stk
BY DEF Machine

LEMMA InRaxIsStraight ==
  ASSUME NEW s \in Machine
  PROVE  Straight(s, InRax(s), 0)
<1>1. s.rax \in Cells /\ Apply(<<s.rax>>) \in Cells /\ Len(s.stk) \in Nat
  BY MachineFields, Applied
<1>2. InRax(s) \in Machine /\ InRax(s).msp = s.msp /\ InRax(s).stk = s.stk
  BY <1>1, RaxSet DEF InRax
<1> QED  BY ONLY <1>1, <1>2 DEF Straight

LEMMA TwoOperands ==
  ASSUME NEW s \in Machine, Len(s.stk) > 0
  PROVE  /\ Straight(s, InOrder(s), 1) /\ Straight(s, Swapped(s), 1)
         /\ Straight(s, FromMemory(s), 1) /\ Straight(s, DoubleCompare(s), 1)
         /\ Len(DoubleCompare(s).stk) = Len(s.stk) - 1
<1>1. /\ s.rax \in Cells /\ Len(s.stk) \in Nat
      /\ Top(s.stk) \in Cells /\ Below(s.stk) \in Seq(Cells)
      /\ Len(Below(s.stk)) = Len(s.stk) - 1
  BY TopCell, MachineFields
<1>2. Straight(s, InOrder(s), 1)
  <2> DEFINE p == PopSecondParam(s, FALSE)
  <2>1. p \in Machine /\ p.msp = s.msp /\ Len(p.stk) = Len(s.stk) - 1
    BY SecondPopped
  <2>2. Apply(<<p.rcx, p.rax>>) \in Cells
    BY <2>1, MachineFields, Applied
  <2> HIDE DEF p
  <2>3. Straight(s, [p EXCEPT !.rax = Apply(<<p.rcx, p.rax>>)], 1)
    BY <2>1, <2>2, RaxSet, StraightIf
  <2> QED  BY <2>3 DEF InOrder, p
<1>3. Straight(s, Swapped(s), 1)
  <2> DEFINE p == PopSecondParam(s, TRUE)
  <2>1. p \in Machine /\ p.msp = s.msp /\ Len(p.stk) = Len(s.stk) - 1
    BY SecondPopped
  <2>2. Apply(<<p.rax, p.rcx>>) \in Cells
    BY <2>1, MachineFields, Applied
  <2> HIDE DEF p
  <2>3. Straight(s, [p EXCEPT !.rax = Apply(<<p.rax, p.rcx>>)], 1)
    BY <2>1, <2>2, RaxSet, StraightIf
  <2> QED  BY <2>3 DEF Swapped, p
<1>4. Straight(s, FromMemory(s), 1)
  <2>1. Apply(<<Top(s.stk), s.rax>>) \in Cells
    BY <1>1, Applied
  <2>2. /\ FromMemory(s) \in Machine /\ FromMemory(s).msp = s.msp
        /\ FromMemory(s).stk = Below(s.stk)
    BY <1>1, <2>1 DEF FromMemory, Machine
  <2> QED  BY <1>1, <2>2, StraightIf
<1>5. Straight(s, DoubleCompare(s), 1) /\ Len(DoubleCompare(s).stk) = Len(s.stk) - 1
  <2>1. Junk \in Cells
    BY DEF Cells
  <2>2. /\ DoubleCompare(s) \in Machine /\ DoubleCompare(s).msp = s.msp
        /\ DoubleCompare(s).stk = Below(s.stk)
    BY <1>1, <2>1 DEF DoubleCompare, Machine
  <2> QED  BY <1>1, <2>2, StraightIf
<1> QED  BY <1>2, <1>3, <1>4, <1>5

LEMMA ArithmeticIsStraight ==
  ASSUME NEW s \in Machine, Len(s.stk) > 0,
         NEW t \in {Add(s), Sub(s), Mul(s), Div(s), LogicOp(s, FALSE), LogicOp(s, TRUE)}
  PROVE  Straight(s, t, 1)
<1>1. t \in {InOrder(s), Swapped(s), FromMemory(s)}
  BY DEF Add, Sub, Mul, Div, LogicOp
<1> QED  BY <1>1, TwoOperands

LEMMA SelectedIsStraight ==
  ASSUME NEW s \in Machine, Len(s.stk) > 1
  PROVE  Straight(s, Selected(s), 2)
<1>1. s.stk \in Seq(Cells) /\ Len(s.stk) \in Nat
  BY MachineFields
<1>2. Len(s.stk) - 2 \in 0 .. Len(s.stk)
      /\ Len(s.stk) - 2 + 1 \in 1 .. Len(s.stk) /\ Len(s.stk) - 2 + 2 \in 1 .. Len(s.stk)
  BY <1>1
<1>3. s.stk[IF s.rax # 0 THEN Len(s.stk) - 2 + 1 ELSE Len(s.stk) - 2 + 2] \in Cells
  BY <1>1, <1>2, ElementOfSeq
<1>4. /\ SubSeq(s.stk, 1, Len(s.stk) - 2) \in Seq(Cells)
      /\ Len(SubSeq(s.stk, 1, Len(s.stk) - 2)) = Len(s.stk) - 2
  BY <1>1, <1>2, Prefix
<1>5. /\ Selected(s) \in Machine /\ Selected(s).msp = s.msp
      /\ Selected(s).stk = SubSeq(s.stk, 1, Len(s.stk) - 2)
  BY <1>1, <1>3, <1>4 DEF Selected, Machine
<1> QED  BY <1>4, <1>5, StraightIf

LEMMA PushedIsStraight ==
  ASSUME NEW s \in Machine, NEW v \in Cells
  PROVE  /\ Straight(s, [PushExpandStack(s) EXCEPT !.rax = v], 0)
         /\ Len(s.stk) \in Nat
<1> DEFINE t == PushExpandStack(s)
<1>1. t \in Machine /\ t.msp = s.msp /\ Len(t.stk) = Len(s.stk) + 1 /\ Len(s.stk) \in Nat
  BY Pushed, MachineFields
<1> HIDE DEF t
<1>2. Straight(s, [t EXCEPT !.rax = v], 0)
  BY <1>1 DEF Straight, Machine
<1> QED  BY <1>1, <1>2 DEF t

LEMMA ContractedIsStraight ==
  ASSUME NEW s \in Machine, Len(s.stk) > 0
  PROVE  /\ Straight(s, PopContractStack(s), 1)
         /\ Straight(s, PopSecondParam(s, FALSE), 1)
<1>1. FALSE \in BOOLEAN
  OBVIOUS
<1> QED  BY <1>1, Contracted, SecondPopped, StraightIf

-----------------------------------------------------------------------------
(* Frames. *)

(* Code that pops no more operands than the innermost block has leaves the *)
(* saved positions below the operand stack.                                *)
LEMMA StraightKeepsNested ==
  ASSUME NEW s \in Machine, NEW t, NEW k \in Nat, Straight(s, t, k), Nested(s),
         \A j \in 1 .. Len(s.msp) : s.msp[j] + k <= Len(s.stk)
  PROVE  Nested(t)
<1>1. Len(s.stk) \in Nat /\ Len(t.stk) \in Nat
  BY MachineFields DEF Straight
<1>2. \A j \in 1 .. Len(s.msp) : s.msp[j] \in Nat
  BY MachineFields
<1>3. \A j \in 1 .. Len(s.msp) : s.msp[j] <= Len(t.stk)
  BY <1>1, <1>2 DEF Straight
<1> QED  BY <1>3 DEF Nested, Straight

(* push rdi *)
LEMMA RdiPushed ==
  ASSUME NEW s \in Machine, Nested(s), Len(s.stk) > 0,
         \A j \in 1 .. Len(s.msp) : s.msp[j] < Len(s.stk)
  PROVE  LET t == PushRdi(s)
         IN /\ t \in Machine /\ Nested(t)
            /\ Len(t.msp) = Len(s.msp) + 1 /\ t.stk = s.stk /\ t.rax = s.rax
            /\ t.msp[Len(t.msp)] = Len(s.stk)
            /\ \A j \in 1 .. Len(s.msp) : t.msp[j] = s.msp[j]
<1> DEFINE t == PushRdi(s)
<1>1. /\ s.msp \in Seq(Nat) /\ Len(s.msp) \in Nat /\ Len(s.stk) \in Nat
      /\ \A j \in 1 .. Len(s.msp) : s.msp[j] \in Nat
  BY MachineFields
<1>2. /\ Append(s.msp, Len(s.stk)) \in Seq(Nat)
      /\ Len(Append(s.msp, Len(s.stk))) = Len(s.msp) + 1
      /\ Append(s.msp, Len(s.stk))[Len(s.msp) + 1] = Len(s.stk)
      /\ \A j \in 1 .. Len(s.msp) : Append(s.msp, Len(s.stk))[j] = s.msp[j]
  BY <1>1, Extended
<1>3. t.msp = Append(s.msp, Len(s.stk)) /\ t.stk = s.stk /\ t.rax = s.rax /\ t \in Machine
  BY <1>2 DEF PushRdi, Machine
<1> HIDE DEF t
<1>4. ASSUME NEW k \in 1 .. Len(s.msp) + 1
      PROVE  /\ 0 < t.msp[k] /\ t.msp[k] <= Len(t.stk)
             /\ \A j \in 1 .. k - 1 : t.msp[j] < t.msp[k]
  <2>1. CASE k = Len(s.msp) + 1
    BY <2>1, <1>1, <1>2, <1>3
  <2>2. CASE k # Len(s.msp) + 1
    <3>1. k \in 1 .. Len(s.msp) /\ \A j \in 1 .. k - 1 : j \in 1 .. Len(s.msp)
      BY <2>2, <1>1
    <3> QED  BY <3>1, <1>2, <1>3 DEF Nested
  <2> QED  BY <2>1, <2>2
<1>5. Nested(t)
  BY <1>2, <1>3, <1>4 DEF Nested
<1> QED  BY <1>2, <1>3, <1>5 DEF t

LEMMA BlockEntered ==
  ASSUME NEW s \in Machine, Nested(s)
  PROVE  LET t == EnterBlock(s)
         IN /\ t \in Machine /\ Nested(t)
            /\ Len(t.msp) = Len(s.msp) + 1 /\ Len(t.stk) = Len(s.stk) + 1
            /\ t.msp[Len(t.msp)] = Len(s.stk) + 1
            /\ \A j \in 1 .. Len(s.msp) : t.msp[j] = s.msp[j]
<1> DEFINE p == PushExpandStack(s)
<1>1. p \in Machine /\ p.msp = s.msp /\ Len(p.stk) = Len(s.stk) + 1
  BY Pushed
<1>2. /\ Len(s.stk) \in Nat /\ Len(s.msp) \in Nat
      /\ \A j \in 1 .. Len(s.msp) : s.msp[j] \in Nat /\ s.msp[j] <= Len(s.stk)
  BY MachineFields DEF Nested
<1> HIDE DEF p
<1>3. Nested(p)
  BY <1>1, <1>2 DEF Nested
<1>4. Len(p.stk) > 0 /\ \A j \in 1 .. Len(p.msp) : p.msp[j] < Len(p.stk)
  BY <1>1, <1>2
<1>5. EnterBlock(s) = PushRdi(p)
  BY DEF EnterBlock, p
<1> QED  BY <1>1, <1>3, <1>4, <1>5, RdiPushed

(* pop rdi, from d frames up *)
LEMMA RdiPopped ==
  ASSUME NEW s \in Machine, Nested(s), NEW d \in 1 .. Len(s.msp)
  PROVE  LET t  == PopRdi(s, d)
             at == Len(s.msp) - d + 1
         IN /\ t \in Machine /\ Nested(t)
            /\ Len(t.msp) = Len(s.msp) - d /\ Len(t.stk) = s.msp[at] /\ Len(t.stk) > 0
            /\ t.rax = s.rax
            /\ \A j \in 1 .. Len(t.msp) : t.msp[j] = s.msp[j] /\ t.msp[j] < Len(t.stk)
<1> DEFINE t  == PopRdi(s, d)
           at == Len(s.msp) - d + 1
           c  == [a \in 1 .. s.msp[at] |-> IF a <= Len(s.stk) THEN s.stk[a] ELSE Junk]
           p  == SubSeq(s.msp, 1, at - 1)
<1>1. /\ s.msp \in Seq(Nat) /\ Len(s.msp) \in Nat /\ s.stk \in Seq(Cells) /\ Len(s.stk) \in Nat
      /\ \A j \in 1 .. Len(s.msp) : s.msp[j] \in Nat
  BY MachineFields
<1>2. at \in 1 .. Len(s.msp) /\ at - 1 \in 0 .. Len(s.msp) /\ at - 1 = Len(s.msp) - d
  BY <1>1
<1>3. s.msp[at] \in Nat /\ s.msp[at] > 0
  BY <1>1, <1>2 DEF Nested
<1>4. c \in [1 .. s.msp[at] -> Cells]
  <2>1. \A a \in 1 .. s.msp[at] : a <= Len(s.stk) => s.stk[a] \in Cells
    BY <1>1, <1>3, ElementOfSeq
  <2> QED  BY <2>1 DEF Cells
<1>5. c \in Seq(Cells) /\ Len(c) = s.msp[at]
  BY <1>3, <1>4, SeqDef
<1>6. p \in Seq(Nat) /\ Len(p) = at - 1 /\ \A j \in 1 .. at - 1 : p[j] = s.msp[j]
  BY <1>1, <1>2, Prefix
<1>7. t.stk = c /\ t.msp = p /\ t.rax = s.rax /\ t \in Machine
  <2>1. t = [s EXCEPT !.stk = c, !.msp = p]
    BY DEF PopRdi
  <2> HIDE DEF t, c, p
  <2> QED  BY <2>1, <1>5, <1>6 DEF Machine
<1> HIDE DEF t, c, p
<1>8. \A j \in 1 .. at - 1 : s.msp[j] < s.msp[at]
  BY <1>2 DEF Nested
<1>9. Nested(t)
  <2>1. ASSUME NEW k \in 1 .. at - 1
        PROVE  /\ 0 < t.msp[k] /\ t.msp[k] <= Len(t.stk)
               /\ \A j \in 1 .. k - 1 : t.msp[j] < t.msp[k]
    <3>1. k \in 1 .. Len(s.msp) /\ \A j \in 1 .. k - 1 : j \in 1 .. at - 1
      BY <1>1, <1>2
    <3>2. 0 < s.msp[k] /\ s.msp[k] < s.msp[at] /\ \A j \in 1 .. k - 1 : s.msp[j] < s.msp[k]
      BY <3>1, <1>8 DEF Nested
    <3>3. s.msp[k] \in Nat
      BY <3>1, <1>1
    <3>4. t.msp[k] = s.msp[k] /\ \A j \in 1 .. k - 1 : t.msp[j] = s.msp[j]
      BY <3>1, <1>6, <1>7
    <3>5. Len(t.stk) = s.msp[at]
      BY <1>5, <1>7
    <3> QED  BY <3>2, <3>3, <3>4, <3>5, <1>3
  <2> QED  BY <2>1, <1>6, <1>7 DEF Nested
<1> QED  BY <1>2, <1>3, <1>5, <1>6, <1>7, <1>8, <1>9 DEF t

LEMMA BlockLeft ==
  ASSUME NEW s \in Machine, Nested(s), Len(s.msp) > 0, NEW r \in BOOLEAN
  PROVE  LET t == LeaveBlock(s, r)
         IN /\ t \in Machine /\ Nested(t)
            /\ Len(t.msp) = Len(s.msp) - 1
            /\ Len(t.stk) >= s.msp[Len(s.msp)] - 1
            /\ \A j \in 1 .. Len(t.msp) : t.msp[j] = s.msp[j]
<1> DEFINE p == PopRdi(s, 1)
<1>1. Len(s.msp) \in Nat /\ 1 \in 1 .. Len(s.msp) /\ Len(s.msp) - 1 + 1 = Len(s.msp)
  BY MachineFields
<1>2. /\ p \in Machine /\ Nested(p)
      /\ Len(p.msp) = Len(s.msp) - 1 /\ Len(p.stk) = s.msp[Len(s.msp)] /\ Len(p.stk) > 0
      /\ \A j \in 1 .. Len(p.msp) : p.msp[j] = s.msp[j] /\ p.msp[j] < Len(p.stk)
  BY <1>1, RdiPopped
<1>3. /\ Len(p.stk) \in Nat /\ Len(p.msp) \in Nat
      /\ \A j \in 1 .. Len(p.msp) : p.msp[j] \in Nat
  BY <1>2, MachineFields
<1> HIDE DEF p
<1>4. CASE r
  <2>1. LeaveBlock(s, r) = p
    BY <1>4 DEF LeaveBlock, p
  <2> QED  BY <2>1, <1>2, <1>3
<1>5. CASE ~r
  <2> DEFINE t == PopContractStack(p)
  <2>1. LeaveBlock(s, r) = t
    BY <1>5 DEF LeaveBlock, p
  <2>2. t \in Machine /\ t.msp = p.msp /\ Len(t.stk) = Len(p.stk) - 1
    BY <1>2, Contracted
  <2> HIDE DEF t
  <2>3. Nested(t)
    <3>1. ASSUME NEW k \in 1 .. Len(p.msp)
          PROVE  /\ 0 < p.msp[k] /\ p.msp[k] <= Len(t.stk)
                 /\ \A j \in 1 .. k - 1 : p.msp[j] < p.msp[k]
      <4>1. 0 < p.msp[k] /\ \A j \in 1 .. k - 1 : p.msp[j] < p.msp[k]
        BY <1>2 DEF Nested
      <4>2. p.msp[k] < Len(p.stk) /\ p.msp[k] \in Nat
        BY <1>2, <1>3
      <4>3. p.msp[k] <= Len(t.stk)
        BY <1>3, <2>2, <4>2
      <4> QED BY ONLY <4>1, <4>3
    <3> QED BY <2>2, <3>1, Zenon DEF Nested
  <2> QED  BY <2>1, <2>2, <2>3, <1>2, <1>3
<1> QED  BY <1>4, <1>5

LEMMA BlocksLeft ==
  ASSUME NEW s \in Machine, Nested(s), NEW d \in 0 .. Len(s.msp) - 1, NEW r \in BOOLEAN
  PROVE  LET t == LeaveBlocks(s, d, r)
         IN t \in Machine /\ Nested(t) /\ Len(t.msp) = Len(s.msp) - d - 1
<1>1. Len(s.msp) \in Nat /\ Len(s.msp) > d
  BY MachineFields
<1>2. CASE d = 0
  <2>1. LeaveBlocks(s, d, r) = LeaveBlock(s, r)
    BY <1>2 DEF LeaveBlocks
  <2> QED  BY <2>1, <1>1, <1>2, BlockLeft
<1>3. CASE d # 0
  <2> DEFINE p == PopRdi(s, d)
  <2>1. p \in Machine /\ Nested(p) /\ Len(p.msp) = Len(s.msp) - d
    BY <1>1, <1>3, RdiPopped
  <2>2. LeaveBlocks(s, d, r) = LeaveBlock(p, r)
    BY <1>3 DEF LeaveBlocks
  <2> HIDE DEF p
  <2>3. Len(p.msp) > 0
    BY <1>1, <2>1
  <2>4. LeaveBlock(p, r) \in Machine /\ Nested(LeaveBlock(p, r)) /\ Len(LeaveBlock(p, r).msp) = Len(p.msp) - 1
    BY <2>1, <2>3, BlockLeft
  <2> QED  BY <2>1, <2>2, <2>4, <1>1
<1> QED  BY <1>2, <1>3

-----------------------------------------------------------------------------
(* Steps. *)

LEMMA Running ==
  ASSUME IInv, Active
  PROVE  /\ m \in Machine /\ Nested(m)
         /\ blocks \in Seq(Blocks) /\ Level \in Nat \ {0} /\ Level <= MaxBlocks
         /\ Top(blocks) \in Blocks
         /\ \A k \in 1 .. Level : blocks[k] \in Blocks
         /\ Len(m.msp) = IF jump = NoJump THEN Level ELSE jump[1] - 1
<1>1. blocks \in Seq(Blocks) /\ Level > 0 /\ Level <= MaxBlocks /\ m \in Machine
  BY DEF IInv, TypeOK
<1>2. Level \in Nat \ {0} /\ Len(blocks) \in 1 .. Len(blocks)
  BY <1>1, LenProperties DEF Level
<1>3. Top(blocks) \in Blocks /\ \A k \in 1 .. Level : blocks[k] \in Blocks
  BY <1>1, <1>2, ElementOfSeq DEF Top, Level
<1> QED  BY <1>1, <1>2, <1>3 DEF IInv, FramesNest

LEMMA Room ==
  ASSUME IInv, Live, NEW k \in Nat, Depth >= k
  PROVE  /\ \A j \in 1 .. Len(m.msp) : m.msp[j] + k <= Len(m.stk)
         /\ Len(m.stk) > k /\ Len(m.stk) \in Nat /\ Len(m.msp) = Level
<1>1. m \in Machine /\ Nested(m) /\ Level \in Nat \ {0} /\ Len(m.msp) = Level
  BY Running DEF Live
<1>2. /\ Len(m.stk) \in Nat
      /\ \A j \in 1 .. Level : m.msp[j] \in Nat
  BY <1>1, MachineFields
<1>3. Len(m.stk) - m.msp[Level] >= k
  BY <1>1 DEF Depth, Top
<1>4. Level \in 1 .. Level /\ m.msp[Level] > 0
  BY <1>1 DEF Nested
<1>5. ASSUME NEW j \in 1 .. Level PROVE m.msp[j] <= m.msp[Level]
  <2>1. CASE j = Level
    BY <2>1, <1>2
  <2>2. CASE j # Level
    <3>1. j \in 1 .. Level - 1
      BY <2>2, <1>1
    <3> QED  BY <3>1, <1>1, <1>2, <1>4 DEF Nested
  <2> QED  BY <2>1, <2>2
<1> QED  BY <1>1, <1>2, <1>3, <1>4, <1>5

LEMMA StraightWider ==
  ASSUME NEW s \in Machine, NEW t, NEW j \in Nat, NEW k \in Nat, j <= k, Straight(s, t, j)
  PROVE  Straight(s, t, k)
<1>1. Len(s.stk) \in Nat /\ t \in Machine /\ Len(t.stk) \in Nat
  BY MachineFields DEF Straight
<1> QED  BY <1>1 DEF Straight

LEMMA StraightThen ==
  ASSUME NEW s \in Machine, NEW t, NEW u, NEW j \in Nat, NEW k \in Nat,
         Straight(s, t, j), Straight(t, u, k)
  PROVE  Straight(s, u, j + k)
<1>1. /\ Len(s.stk) \in Nat /\ t \in Machine /\ Len(t.stk) \in Nat
      /\ u \in Machine /\ Len(u.stk) \in Nat
  BY MachineFields DEF Straight
<1> QED  BY <1>1 DEF Straight

(* Straight-line code within the operands of the innermost block. *)
LEMMA OperateKeeps ==
  ASSUME IInv, NEW k \in Nat, NEW t, NEW shown \in Seq(Cells),
         Operate(k, t, shown), Straight(m, t, k)
  PROVE  IInv'
<1>1. m \in Machine /\ Nested(m) /\ Live /\ Active
  BY Running DEF Operate, Live
<1>2. \A j \in 1 .. Len(m.msp) : m.msp[j] + k <= Len(m.stk)
  BY Room, <1>1 DEF Operate
<1>3. Nested(t) /\ t \in Machine /\ t.msp = m.msp
  BY <1>1, <1>2, StraightKeepsNested DEF Straight
<1>4. m' = t /\ effect' = shown /\ UNCHANGED <<blocks, jump, returns, status>>
  BY DEF Operate
<1>5. TypeOK'
  BY <1>3, <1>4 DEF IInv, TypeOK, Level, Active
<1>6. FramesNest'
  BY <1>3, <1>4 DEF IInv, FramesNest, Nested, Level, Active
<1>7. ReturnIsBalanced'
  BY <1>3, <1>4 DEF IInv, ReturnIsBalanced
<1> QED  BY <1>5, <1>6, <1>7 DEF IInv

LEMMA TakeIsCells ==
  ASSUME IInv, Live, NEW k \in Nat, Depth >= k
  PROVE  Take(k) \in [1 .. k -> Cells] /\ Take(k) \in Seq(Cells)
<1>1. Len(m.stk) > k /\ Len(m.stk) \in Nat
  BY Room
<1>2. m.stk \in Seq(Cells) /\ m.rax \in Cells
  BY Running, MachineFields DEF Live
<1> DEFINE all == Append(m.stk, m.rax)
           n   == Len(m.stk)
<1>3. all \in Seq(Cells) /\ Len(all) = n + 1
  BY <1>2, Extended
<1> HIDE DEF all
<1>4. \A j \in n - k + 2 .. n + 1 : all[j] \in Cells
  <2>1. \A j \in n - k + 2 .. n + 1 : j \in 1 .. Len(all)
    BY <1>1, <1>3
  <2> QED  BY <2>1, <1>3, ElementOfSeq
<1>5. Take(k) = SubSeq(all, n - k + 2, n + 1)
  BY DEF Take, all
<1>6. n - k + 2 \in Int /\ n + 1 \in Int
  BY <1>1
<1>7. /\ Take(k) \in Seq(Cells)
      /\ Len(Take(k)) = IF n - k + 2 <= n + 1 THEN n + 1 - (n - k + 2) + 1 ELSE 0
  BY <1>4, <1>5, <1>6, SubSeqProperties
<1>8. Len(Take(k)) = k
  <2>1. CASE k = 0
    BY <2>1, <1>1, <1>7
  <2>2. CASE k > 0
    BY <2>2, <1>1, <1>7
  <2> QED  BY <2>1, <2>2
<1> QED  BY <1>7, <1>8, LenProperties

(* A call comes back to the frames it left, with its operands gone. *)
LEMMA CallKeeps ==
  ASSUME IInv, NEW args \in 0 .. MaxArgs, NEW r \in BOOLEAN, NEW i \in BOOLEAN, CallIfn(args, r, i)
  PROVE  IInv'
<1> DEFINE c      == args + IF i THEN 1 ELSE 0
           n      == Len(m.stk)
           popped == [m EXCEPT !.rax = Append(m.stk, m.rax)[n + 1 - c],
                               !.stk = SubSeq(@, 1, Len(@) - c)]
           saved  == EnterBlock(popped)
           back   == [saved EXCEPT !.rax = IF r THEN Apply(Take(c)) ELSE Junk, !.rcx = Junk]
           left   == LeaveBlock(back, r)
<1>1. c \in Nat /\ c \in 0 .. MaxArgs + 2
  BY FramesAssumption
<1>2. Live /\ Depth >= c /\ Operate(c, left, Take(c))
  BY DEF CallIfn
<1> HIDE DEF c
<1>3. n > c /\ n \in Nat /\ \A j \in 1 .. Len(m.msp) : m.msp[j] + c <= n
  BY <1>1, <1>2, Room
<1>4. m \in Machine /\ Nested(m) /\ m.stk \in Seq(Cells) /\ m.rax \in Cells /\ m.msp \in Seq(Nat)
  BY <1>2, Running, MachineFields DEF Live
<1>5. popped \in Machine /\ popped.msp = m.msp /\ Len(popped.stk) = n - c
  <2>1. n + 1 - c \in 1 .. n + 1 /\ n - c \in 0 .. n
    BY <1>1, <1>3
  <2>2. Append(m.stk, m.rax)[n + 1 - c] \in Cells
    <3>1. Append(m.stk, m.rax) \in Seq(Cells) /\ Len(Append(m.stk, m.rax)) = n + 1
      BY <1>4, Extended
    <3> QED  BY <2>1, <3>1, ElementOfSeq
  <2>3. SubSeq(m.stk, 1, n - c) \in Seq(Cells) /\ Len(SubSeq(m.stk, 1, n - c)) = n - c
    BY <1>4, <2>1, Prefix
  <2> QED  BY <1>4, <2>2, <2>3 DEF Machine
<1> HIDE DEF popped
<1>6. Nested(popped)
  <2>1. Straight(m, popped, c)
    BY <1>1, <1>4, <1>5, StraightIf
  <2> QED  BY <2>1, <1>1, <1>3, <1>4, StraightKeepsNested
<1>7. /\ saved \in Machine /\ Nested(saved)
      /\ Len(saved.msp) = Len(m.msp) + 1
      /\ saved.msp[Len(saved.msp)] = n - c + 1
      /\ \A j \in 1 .. Len(m.msp) : saved.msp[j] = m.msp[j]
  <2>1. /\ saved \in Machine /\ Nested(saved)
        /\ Len(saved.msp) = Len(popped.msp) + 1
        /\ saved.msp[Len(saved.msp)] = Len(popped.stk) + 1
        /\ \A j \in 1 .. Len(popped.msp) : saved.msp[j] = popped.msp[j]
    BY <1>5, <1>6, BlockEntered
  <2> HIDE DEF saved
  <2> QED  BY <2>1, <1>5
<1> HIDE DEF saved
<1>8. back \in Machine /\ back.msp = saved.msp /\ back.stk = saved.stk
  <2>1. (IF r THEN Apply(Take(c)) ELSE Junk) \in Cells
    BY <1>1, <1>2, TakeIsCells, FramesAssumption DEF Cells
  <2>2. Junk \in Cells
    BY DEF Cells
  <2> QED  BY <1>7, <2>1, <2>2 DEF Machine
<1> HIDE DEF back
<1>9. Nested(back) /\ Len(back.msp) > 0
  <2>1. Len(m.msp) \in Nat
    BY <1>4, LenProperties
  <2> QED  BY <1>7, <1>8, <2>1 DEF Nested
<1>10. /\ left \in Machine /\ Len(left.msp) = Len(m.msp)
       /\ Len(left.stk) >= n - c + 1 - 1
       /\ \A j \in 1 .. Len(left.msp) : left.msp[j] = m.msp[j]
  <2>1. /\ left \in Machine
        /\ Len(left.msp) = Len(back.msp) - 1
        /\ Len(left.stk) >= back.msp[Len(back.msp)] - 1
        /\ \A j \in 1 .. Len(left.msp) : left.msp[j] = back.msp[j]
    BY <1>8, <1>9, BlockLeft
  <2>2. Len(m.msp) \in Nat
    BY <1>4, LenProperties
  <2>3. Len(left.msp) = Len(m.msp) /\ back.msp[Len(back.msp)] = n - c + 1
    BY <2>1, <2>2, <1>7, <1>8
  <2>4. \A j \in 1 .. Len(m.msp) : left.msp[j] = m.msp[j]
    BY <2>1, <2>3, <1>7, <1>8
  <2> HIDE DEF left
  <2>5. Len(left.stk) >= n - c + 1 - 1
    BY <2>1, <2>3, <1>1, <1>3
  <2> QED  BY <2>1, <2>3, <2>4, <2>5
<1> HIDE DEF left
<1>11. left.msp = m.msp
  BY <1>4, <1>10, MachineFields, SeqEqual
<1>12. Straight(m, left, c)
  BY <1>1, <1>3, <1>10, <1>11 DEF Straight
<1>13. Take(c) \in Seq(Cells)
  BY <1>1, <1>2, TakeIsCells
<1> QED  BY <1>1, <1>2, <1>12, <1>13, OperateKeeps

(* Opcodes that open no block, close none and jump nowhere. *)
LEMMA StraightLineKeeps ==
  ASSUME IInv, Live,
         \/ \E v \in Values : Const(v) \/ ReadLocal(v) \/ ReadGlobal(v)
         \/ CurrentMemory \/ Load \/ Conversion \/ GrowMemory
         \/ IntCompare \/ Compare32 \/ Compare64 \/ Arithmetic \/ FloatOp
         \/ Drop \/ WriteLocal \/ TeeLocal \/ WriteGlobal \/ Select \/ Store
  PROVE  IInv'
<1>1. m \in Machine /\ Len(m.stk) \in Nat /\ Len(m.stk) > 0 /\ m.rax \in Cells
  <2>1. Depth >= 0
    <3>1. Level \in 1 .. Len(m.msp) /\ Len(m.msp) = Level
      BY Running DEF Live
    <3> QED  BY <3>1, Running, MachineFields DEF Live, Depth, Top, Nested
  <2> QED  BY <2>1, Room, Running, MachineFields DEF Live
<1>2. <<>> \in Seq(Cells) /\ <<m.rax>> \in Seq(Cells)
  BY <1>1
<1>3. Values \subseteq Cells /\ 0 \in Cells
  BY FramesAssumption DEF Cells
<1>4. ASSUME NEW v \in Values, Const(v) \/ ReadLocal(v) \/ ReadGlobal(v) PROVE IInv'
  <2>1. Operate(0, [PushExpandStack(m) EXCEPT !.rax = v], <<>>)
    BY <1>4 DEF Const, ReadLocal, ReadGlobal, PushC, GetLocal, GetGlobal
  <2> QED  BY <2>1, <1>1, <1>2, <1>3, PushedIsStraight, OperateKeeps
<1>5. CASE CurrentMemory
  <2>1. Straight(m, PushC(m, 0), 0)
    BY <1>1, <1>3, PushedIsStraight DEF PushC
  <2>2. Straight(PushC(m, 0), CallAsmOp(PushC(m, 0)), 0)
    BY <2>1, InRaxIsStraight DEF CallAsmOp, Straight
  <2>3. Straight(m, CallAsmOp(PushC(m, 0)), 0 + 0)
    BY <1>1, <2>1, <2>2, StraightThen
  <2>4. Straight(m, CallAsmOp(PushC(m, 0)), 0)
    BY <2>3
  <2>5. Operate(0, CallAsmOp(PushC(m, 0)), <<>>)
    BY <1>5 DEF CurrentMemory
  <2> QED  BY <2>4, <2>5, <1>2, OperateKeeps
<1>6. CASE Load \/ Conversion \/ GrowMemory
  <2>1. Operate(1, InRax(m), <<>>)
    BY <1>6 DEF Load, Conversion, GrowMemory, LoadMem, Convert, CallAsmOp
  <2>2. Straight(m, InRax(m), 1)
    BY <1>1, InRaxIsStraight, StraightWider
  <2> QED  BY <2>1, <2>2, <1>2, OperateKeeps
<1>7. CASE IntCompare \/ Compare32 \/ FloatOp
  <2>1. \E t \in {InOrder(m), FromMemory(m)} : Operate(2, t, <<>>)
    BY <1>7 DEF IntCompare, Compare32, FloatOp, Compare, FloatCompare, FloatArithmetic
  <2>2. PICK t \in {InOrder(m), FromMemory(m)} : Operate(2, t, <<>>)
    BY <2>1
  <2>3. Straight(m, t, 1)
    BY <1>1, TwoOperands
  <2>4. Straight(m, t, 2)
    BY <1>1, <2>3, StraightWider
  <2> QED  BY <2>2, <2>4, <1>2, OperateKeeps
<1>8. CASE Arithmetic
  <2>1. PICK t \in {Add(m), Sub(m), Mul(m), Div(m), LogicOp(m, FALSE), LogicOp(m, TRUE)} :
          Operate(2, t, <<>>)
    BY <1>8 DEF Arithmetic
  <2>2. Straight(m, t, 1)
    BY <1>1, ArithmeticIsStraight
  <2>3. Straight(m, t, 2)
    BY <1>1, <2>2, StraightWider
  <2> QED  BY <2>1, <2>3, <1>2, OperateKeeps
<1>9. CASE Compare64
  <2> DEFINE t == DoubleCompare(m)
  <2>1. Straight(m, t, 1) /\ Len(t.stk) = Len(m.stk) - 1
    BY <1>1, TwoOperands
  <2>2. Straight(m, t, 2)
    BY <1>1, <2>1, StraightWider
  <2>3. CASE Operate(2, t, <<>>)
    BY <2>2, <2>3, <1>2, OperateKeeps
  <2>4. CASE Operate(2, DoubleCompare(t), <<>>)
    <3>1. Depth >= 2
      BY <2>4 DEF Operate
    <3>2. Len(m.stk) > 2
      BY <3>1, Room
    <3>3. t \in Machine /\ Len(t.stk) > 0
      BY <3>2, <2>1, <1>1 DEF Straight
    <3> HIDE DEF t
    <3>4. Straight(t, DoubleCompare(t), 1)
      BY <3>3, TwoOperands
    <3>5. Straight(m, DoubleCompare(t), 1 + 1)
      BY <1>1, <2>1, <3>4, StraightThen
    <3>6. Straight(m, DoubleCompare(t), 2)
      BY <3>5
    <3> QED  BY <2>4, <3>6, <1>2, OperateKeeps
  <2> QED  BY <1>9, <2>3, <2>4 DEF Compare64
<1>10. CASE Drop \/ WriteLocal \/ WriteGlobal
  <2>1. Operate(1, PopContractStack(m), <<>>) \/ Operate(1, PopContractStack(m), <<m.rax>>)
    BY <1>10 DEF Drop, WriteLocal, WriteGlobal, SetLocal, SetGlobal
  <2> QED  BY <2>1, <1>1, <1>2, ContractedIsStraight, OperateKeeps
<1>11. CASE TeeLocal
  <2>1. Straight(m, m, 1)
    BY <1>1 DEF Straight
  <2>2. Operate(1, m, <<m.rax>>)
    BY <1>11 DEF TeeLocal, SetLocal
  <2> QED  BY <2>1, <2>2, <1>2, OperateKeeps
<1>12. CASE Select
  <2>1. Operate(3, Selected(m), <<>>) /\ Depth >= 3
    BY <1>12 DEF Select
  <2>2. Len(m.stk) > 3
    BY <2>1, Room
  <2>3. Straight(m, Selected(m), 2)
    BY <1>1, <2>2, SelectedIsStraight
  <2>4. Straight(m, Selected(m), 3)
    BY <1>1, <2>3, StraightWider
  <2> QED  BY <2>1, <2>4, <1>2, OperateKeeps
<1>13. CASE Store
  <2> DEFINE t == PopSecondParam(m, FALSE)
  <2>1. Operate(2, t, <<t.rcx, t.rax>>)
    BY <1>13 DEF Store, StoreMem
  <2>2. Straight(m, t, 1)
    BY <1>1, ContractedIsStraight
  <2>3. Straight(m, t, 2)
    <3> HIDE DEF t
    <3>1. 1 \in Nat /\ 2 \in Nat /\ 1 <= 2
      OBVIOUS
    <3> QED  BY <1>1, <2>2, <3>1, StraightWider
  <2>4. <<t.rcx, t.rax>> \in Seq(Cells)
    <3>1. t.rcx \in Cells /\ t.rax \in Cells
      BY <2>2, MachineFields DEF Straight
    <3> HIDE DEF t
    <3> QED  BY <3>1
  <2> QED  BY <2>1, <2>3, <2>4, OperateKeeps
<1> QED  BY <1>4, <1>5, <1>6, <1>7, <1>8, <1>9, <1>10, <1>11, <1>12, <1>13

(* What a step that moves between blocks has to establish. *)
LEMMA Stepped ==
  ASSUME blocks' \in Seq(Blocks), Len(blocks') <= MaxBlocks,
         jump' \in {NoJump} \cup ((1 .. Len(blocks')) \X {"end", "else"}),
         m' \in Machine, Nested(m'), effect' = <<>>, returns' \in BOOLEAN,
         status' \in {"running", "returned", "killed"},
         status' = "running" =>
           /\ Len(blocks') > 0
           /\ Len(m'.msp) = IF jump' = NoJump THEN Len(blocks') ELSE jump'[1] - 1,
         status' = "returned" => m'.msp = <<>>
  PROVE  IInv'
<1>1. effect' \in Seq(Cells)
  OBVIOUS
<1>2. TypeOK'
  BY <1>1 DEF TypeOK, Level, Active
<1>3. FramesNest'
  BY DEF FramesNest, Nested, Level, Active
<1>4. ReturnIsBalanced'
  BY DEF ReturnIsBalanced
<1> QED  BY <1>2, <1>3, <1>4 DEF IInv

LEMMA Jumping ==
  ASSUME IInv, Active, ~Live
  PROVE  /\ jump # NoJump /\ jump[1] \in 1 .. Level
         /\ jump \in (1 .. Level) \X {"end", "else"}
<1>1. jump \in (1 .. Level) \X {"end", "else"} /\ jump # NoJump
  BY DEF IInv, TypeOK, Live
<1> QED  BY <1>1

LEMMA Opened ==
  ASSUME IInv, Active, Level < MaxBlocks, NEW k \in {"block", "loop", "if"}, NEW r \in BOOLEAN
  PROVE  LET b == Append(blocks, Block(k, r))
         IN b \in Seq(Blocks) /\ Len(b) = Level + 1 /\ Len(b) <= MaxBlocks /\ Len(b) > 0
<1>1. Block(k, r) \in Blocks
  BY DEF Block, Blocks, Kinds
<1>2. blocks \in Seq(Blocks) /\ Level \in Nat /\ MaxBlocks \in Nat
  BY Running, FramesAssumption
<1> QED  BY <1>1, <1>2, Extended DEF Level

LEMMA EnterKeeps ==
  ASSUME IInv, NEW k \in {"block", "loop"}, NEW r \in BOOLEAN, Enter(k, r)
  PROVE  IInv'
<1>1. /\ Active /\ Level < MaxBlocks /\ blocks' = Append(blocks, Block(k, r))
      /\ m' = IF Live THEN EnterBlock(m) ELSE m
      /\ effect' = <<>> /\ UNCHANGED <<jump, returns, status>>
  BY DEF Enter
<1>2. blocks' \in Seq(Blocks) /\ Len(blocks') = Level + 1 /\ Len(blocks') <= MaxBlocks
  BY <1>1, Opened
<1>3. /\ m \in Machine /\ Nested(m) /\ Level \in Nat
      /\ Len(m.msp) = IF jump = NoJump THEN Level ELSE jump[1] - 1
  BY <1>1, Running
<1>4. returns \in BOOLEAN /\ status = "running"
  BY <1>1 DEF IInv, TypeOK, Active
<1>5. CASE Live
  <2>1. m' \in Machine /\ Nested(m') /\ Len(m'.msp) = Level + 1
    <3>1. Len(m.msp) = Level /\ m' = EnterBlock(m)
      BY <1>1, <1>3, <1>5 DEF Live
    <3> QED  BY <3>1, <1>3, BlockEntered
  <2> QED  BY <2>1, <1>1, <1>2, <1>3, <1>4, <1>5, Stepped DEF Live
<1>6. CASE ~Live
  <2>1. jump # NoJump /\ jump \in (1 .. Level) \X {"end", "else"} /\ jump[1] \in 1 .. Level
    BY <1>1, <1>6, Jumping
  <2>2. jump' \in (1 .. Len(blocks')) \X {"end", "else"}
    BY <2>1, <1>1, <1>2, <1>3
  <2> QED  BY <2>1, <2>2, <1>1, <1>2, <1>3, <1>4, <1>6, Stepped
<1> QED  BY <1>5, <1>6

LEMMA EnterIFKeeps ==
  ASSUME IInv, NEW r \in BOOLEAN, EnterIF(r)
  PROVE  IInv'
<1>1. /\ Active /\ Level < MaxBlocks /\ blocks' = Append(blocks, Block("if", r))
      /\ effect' = <<>> /\ UNCHANGED <<returns, status>>
      /\ Live => Depth >= 1
  BY DEF EnterIF
<1>2. blocks' \in Seq(Blocks) /\ Len(blocks') = Level + 1 /\ Len(blocks') <= MaxBlocks
  BY <1>1, Opened
<1>3. /\ m \in Machine /\ Nested(m) /\ Level \in Nat
      /\ Len(m.msp) = IF jump = NoJump THEN Level ELSE jump[1] - 1
  BY <1>1, Running
<1>4. returns \in BOOLEAN /\ status = "running"
  BY <1>1 DEF IInv, TypeOK, Active
<1>5. CASE Live
  <2> DEFINE p == PopContractStack(m)
  <2>1. Len(m.msp) = Level
    BY <1>3, <1>5 DEF Live
  <2>2. p \in Machine /\ Nested(p) /\ p.msp = m.msp
    <3>1. Len(m.stk) > 1 /\ \A j \in 1 .. Len(m.msp) : m.msp[j] + 1 <= Len(m.stk)
      BY <1>1, <1>5, Room
    <3>2. Straight(m, p, 1)
      <4>1. Len(m.stk) > 0
        BY <3>1, <1>3, MachineFields
      <4> QED  BY <4>1, <1>3, ContractedIsStraight
    <3> QED  BY <3>1, <3>2, <1>3, StraightKeepsNested DEF Straight
  <2>3. CASE m' = EnterBlock(p) /\ UNCHANGED jump
    <3> HIDE DEF p
    <3>1. m' \in Machine /\ Nested(m') /\ Len(m'.msp) = Level + 1
      BY <2>1, <2>2, <2>3, BlockEntered
    <3>2. jump' = NoJump
      BY <2>3, <1>5 DEF Live
    <3> QED  BY <3>1, <3>2, <1>1, <1>2, <1>3, <1>4, Stepped
  <2>4. CASE m' = p /\ jump' = <<Level + 1, "else">>
    <3> HIDE DEF p
    <3>1. jump' \in (1 .. Len(blocks')) \X {"end", "else"} /\ jump' # NoJump /\ jump'[1] = Level + 1
      BY <2>4, <1>2, <1>3 DEF NoJump
    <3>2. Len(m'.msp) = jump'[1] - 1
      BY <3>1, <2>1, <2>2, <2>4, <1>3
    <3> QED  BY <3>1, <3>2, <2>2, <2>4, <1>1, <1>2, <1>3, <1>4, Stepped
  <2> QED  BY <2>3, <2>4, <1>5 DEF EnterIF
<1>6. CASE ~Live
  <2>1. jump # NoJump /\ jump \in (1 .. Level) \X {"end", "else"} /\ jump[1] \in 1 .. Level
    BY <1>1, <1>6, Jumping
  <2>2. UNCHANGED <<m, jump>>
    BY <1>6 DEF EnterIF
  <2>3. jump' \in (1 .. Len(blocks')) \X {"end", "else"}
    BY <2>1, <2>2, <1>2, <1>3
  <2> QED  BY <2>1, <2>2, <2>3, <1>1, <1>2, <1>3, <1>4, Stepped
<1> QED  BY <1>5, <1>6

LEMMA ElseKeeps ==
  ASSUME IInv, Else
  PROVE  IInv'
<1>1. /\ Active /\ blocks' = [blocks EXCEPT ![Level].kind = "else"]
      /\ effect' = <<>> /\ UNCHANGED <<returns, status>>
  BY DEF Else
<1>2. /\ m \in Machine /\ Nested(m) /\ Level \in Nat \ {0} /\ Level <= MaxBlocks
      /\ blocks \in Seq(Blocks) /\ blocks[Level] \in Blocks
      /\ Len(m.msp) = IF jump = NoJump THEN Level ELSE jump[1] - 1
  BY <1>1, Running
<1>3. blocks' \in Seq(Blocks) /\ Len(blocks') = Level
  <2> DEFINE b == [blocks[Level] EXCEPT !.kind = "else"]
  <2>1. b \in Blocks
    BY <1>2 DEF Blocks, Kinds
  <2>2. blocks' = [blocks EXCEPT ![Level] = b]
    BY <1>1
  <2> HIDE DEF b
  <2>3. Level \in 1 .. Len(blocks)
    BY <1>2 DEF Level
  <2> QED  BY <2>1, <2>2, <2>3, <1>2, ExceptSeq DEF Level
<1>4. returns \in BOOLEAN /\ status = "running"
  BY <1>1 DEF IInv, TypeOK, Active
<1>5. CASE Live /\ m' = LeaveBlock(m, TRUE) /\ jump' = <<Level, "end">>
  <2>1. Len(m.msp) = Level /\ Len(m.msp) > 0
    BY <1>2, <1>5 DEF Live
  <2>2. m' \in Machine /\ Nested(m') /\ Len(m'.msp) = Level - 1
    BY <2>1, <1>2, <1>5, BlockLeft
  <2>3. jump' \in (1 .. Len(blocks')) \X {"end", "else"} /\ jump' # NoJump /\ jump'[1] = Level
    BY <1>2, <1>3, <1>5 DEF NoJump
  <2> QED  BY <2>2, <2>3, <1>1, <1>2, <1>3, <1>4, Stepped
<1>6. CASE jump = <<Level, "else">> /\ m' = EnterBlock(m) /\ jump' = NoJump
  <2>1. jump # NoJump /\ jump[1] = Level
    BY <1>2, <1>6 DEF NoJump
  <2>2. Len(m.msp) = Level - 1
    BY <2>1, <1>2
  <2>3. m' \in Machine /\ Nested(m') /\ Len(m'.msp) = Level
    BY <2>2, <1>2, <1>6, BlockEntered
  <2> QED  BY <2>3, <1>1, <1>2, <1>3, <1>4, <1>6, Stepped
<1>7. CASE ~Live /\ UNCHANGED <<m, jump>>
  <2>1. jump # NoJump /\ jump \in (1 .. Level) \X {"end", "else"}
    BY <1>1, <1>7, Jumping
  <2> QED  BY <2>1, <1>1, <1>2, <1>3, <1>4, <1>7, Stepped
<1> QED  BY <1>5, <1>6, <1>7 DEF Else

LEMMA EndKeeps ==
  ASSUME IInv, End
  PROVE  IInv'
<1>1. /\ Active /\ blocks' = Below(blocks) /\ effect' = <<>> /\ returns' = returns
      /\ status' = IF Level = 1 THEN "returned" ELSE status
  BY DEF End
<1>2. /\ m \in Machine /\ Nested(m) /\ Level \in Nat \ {0} /\ Level <= MaxBlocks
      /\ blocks \in Seq(Blocks) /\ Top(blocks) \in Blocks
      /\ Len(m.msp) = IF jump = NoJump THEN Level ELSE jump[1] - 1
  BY <1>1, Running
<1>3. blocks' \in Seq(Blocks) /\ Len(blocks') = Level - 1 /\ Len(blocks') <= MaxBlocks
  <2>1. Level - 1 \in 0 .. Len(blocks)
    BY <1>2 DEF Level
  <2>2. /\ SubSeq(blocks, 1, Level - 1) \in Seq(Blocks)
        /\ Len(SubSeq(blocks, 1, Level - 1)) = Level - 1
    BY <2>1, <1>2, Prefix
  <2> QED  BY <2>2, <1>1, <1>2, FramesAssumption DEF Below, Level
<1>4. returns' \in BOOLEAN /\ status = "running"
  BY <1>1 DEF IInv, TypeOK, Active
<1>5. status' \in {"running", "returned"} /\ (status' = "running" <=> Level # 1)
  BY <1>1, <1>4
<1>6. CASE Live /\ m' = LeaveBlock(m, HasReturn(Top(blocks))) /\ UNCHANGED jump
  <2>1. Len(m.msp) = Level /\ Len(m.msp) > 0 /\ jump' = NoJump
    BY <1>2, <1>6 DEF Live
  <2>2. m' \in Machine /\ Nested(m') /\ Len(m'.msp) = Level - 1
    BY <2>1, <1>2, <1>6, BlockLeft DEF HasReturn
  <2>3. Level = 1 => m'.msp = <<>>
    BY <2>2, MachineFields, EmptySeq
  <2>4. Len(m'.msp) = Len(blocks') /\ (status' = "running" => Len(blocks') > 0)
    BY <2>2, <1>2, <1>3, <1>5
  <2>5. status' = "returned" => m'.msp = <<>>
    BY <2>3, <1>5
  <2> QED  BY <2>1, <2>2, <2>4, <2>5, <1>1, <1>3, <1>4, <1>5, Stepped
<1>7. CASE ~Live /\ LandsAt(Level) /\ jump' = NoJump /\ UNCHANGED m
  <2>1. jump # NoJump /\ jump[1] = Level
    BY <1>1, <1>7, Jumping DEF LandsAt
  <2>2. Len(m'.msp) = Level - 1
    BY <2>1, <1>2, <1>7
  <2>3. Level = 1 => m'.msp = <<>>
    BY <2>2, <1>2, <1>7, MachineFields, EmptySeq
  <2> QED  BY <2>2, <2>3, <1>1, <1>2, <1>3, <1>4, <1>5, <1>7, Stepped
<1>8. CASE ~Live /\ ~LandsAt(Level) /\ UNCHANGED <<m, jump>>
  <2>1. /\ jump # NoJump /\ jump[1] \in 1 .. Level /\ jump[1] # Level
        /\ jump \in (1 .. Level) \X {"end", "else"}
    BY <1>1, <1>8, Jumping DEF LandsAt
  <2>2. Level > 1 /\ jump' \in (1 .. Len(blocks')) \X {"end", "else"}
    BY <2>1, <1>2, <1>3, <1>8
  <2>3. status' = "running" /\ Len(blocks') > 0
    BY <2>2, <1>2, <1>3, <1>5
  <2> QED  BY <2>1, <2>2, <2>3, <1>1, <1>2, <1>3, <1>4, <1>8, Stepped
<1> QED  BY <1>6, <1>7, <1>8 DEF End

(* Any machine with the frames of m may leave for any enclosing level.     *)
LEMMA BranchKeeps ==
  ASSUME IInv, Live, NEW level \in 1 .. Level, NEW r \in BOOLEAN,
         NEW s \in Machine, Nested(s), s.msp = m.msp, BranchTo(level, s, r)
  PROVE  IInv'
<1> DEFINE left == LeaveBlocks(s, Level - level, r)
<1>1. Active /\ jump = NoJump /\ status = "running" /\ returns \in BOOLEAN
  BY DEF Live, Active, IInv, TypeOK
<1>2. /\ Level \in Nat \ {0} /\ Level <= MaxBlocks /\ blocks \in Seq(Blocks)
      /\ Len(m.msp) = Level
  BY <1>1, Running
<1>3. left \in Machine /\ Nested(left) /\ Len(left.msp) = level - 1
  <2>1. Level - level \in 0 .. Len(s.msp) - 1
    BY <1>2
  <2>2. left \in Machine /\ Nested(left) /\ Len(left.msp) = Len(s.msp) - (Level - level) - 1
    BY <2>1, BlocksLeft
  <2> QED  BY <2>2, <1>2
<1>4. effect' = <<>> /\ returns' \in BOOLEAN /\ status' = "running"
  BY <1>1 DEF BranchTo
<1>5. CASE m' = EnterBlock(left) /\ blocks' = SubSeq(blocks, 1, level) /\ UNCHANGED jump
  <2> HIDE DEF left
  <2>1. m' \in Machine /\ Nested(m') /\ Len(m'.msp) = level
    <3>1. Len(left.msp) + 1 = level
      BY <1>3, <1>2
    <3> QED  BY <3>1, <1>3, <1>5, BlockEntered
  <2>2. blocks' \in Seq(Blocks) /\ Len(blocks') = level /\ level > 0 /\ level <= MaxBlocks
    <3>1. level \in 0 .. Len(blocks) /\ level <= MaxBlocks /\ level > 0
      BY <1>2, FramesAssumption DEF Level
    <3> QED  BY <3>1, <1>2, <1>5, Prefix
  <2> QED  BY <2>1, <2>2, <1>1, <1>4, <1>5, Stepped
<1>6. CASE m' = left /\ jump' = <<level, "end">> /\ UNCHANGED blocks
  <2> HIDE DEF left
  <2>1. jump' \in (1 .. Len(blocks')) \X {"end", "else"} /\ jump' # NoJump /\ jump'[1] = level
    BY <1>6 DEF NoJump, Level
  <2> QED  BY <2>1, <1>2, <1>3, <1>4, <1>6, Stepped DEF Level
<1> QED  BY <1>5, <1>6 DEF BranchTo

LEMMA BrKeeps ==
  ASSUME IInv, NEW level \in 1 .. Level, Br(level)
  PROVE  IInv'
<1>1. Live /\ BranchTo(level, m, HasReturn(blocks[level]))
  BY DEF Br
<1> QED  BY <1>1, Running, BranchKeeps DEF Live, HasReturn

LEMMA BrIfKeeps ==
  ASSUME IInv, NEW level \in 1 .. Level, BrIf(level)
  PROVE  IInv'
<1> DEFINE p == PopContractStack(m)
<1>1. Live /\ Depth >= 1
  <2>1. Live /\ Depth >= 1 + Arity(blocks[level])
    BY DEF BrIf
  <2>2. Depth \in Int
    <3>1. m \in Machine /\ Len(m.msp) = Level /\ Level \in Nat \ {0}
      BY <2>1, Running DEF Live
    <3>2. Level \in 1 .. Len(m.msp)
      BY <3>1
    <3> QED  BY <3>1, <3>2, MachineFields DEF Depth, Top
  <2> QED  BY <2>1, <2>2 DEF Arity
<1>2. m \in Machine /\ Nested(m)
  BY <1>1, Running DEF Live
<1>3. Len(m.stk) > 1 /\ Len(m.stk) > 0 /\ \A j \in 1 .. Len(m.msp) : m.msp[j] + 1 <= Len(m.stk)
  BY <1>1, Room
<1>4. Straight(m, p, 1)
  BY <1>2, <1>3, ContractedIsStraight
<1>5. p \in Machine /\ Nested(p) /\ p.msp = m.msp
  BY <1>2, <1>3, <1>4, StraightKeepsNested DEF Straight
<1>6. CASE BranchTo(level, p, HasReturn(blocks[level]))
  BY <1>1, <1>5, <1>6, BranchKeeps DEF HasReturn
<1>7. CASE Operate(1, p, <<>>)
  <2>1. <<>> \in Seq(Cells) /\ 1 \in Nat
    OBVIOUS
  <2> HIDE DEF p
  <2> QED  BY <2>1, <1>4, <1>7, OperateKeeps
<1> QED  BY <1>6, <1>7 DEF BrIf, JumpNIf

LEMMA BrTableKeeps ==
  ASSUME IInv, NEW level \in 1 .. Level, NEW dflt \in 1 .. Level, BrTable(level, dflt)
  PROVE  IInv'
<1> DEFINE p == [m EXCEPT !.rax = Top(m.stk)]
<1>1. Live /\ BranchTo(level, p, HasReturn(blocks[dflt]))
  BY DEF BrTable
<1>2. m \in Machine /\ Nested(m) /\ Level \in Nat \ {0} /\ Len(m.msp) = Level
  BY <1>1, Running DEF Live
<1>3. Len(m.stk) > 0
  <2>1. Level \in 1 .. Len(m.msp)
    BY <1>2
  <2> QED  BY <2>1, <1>2, MachineFields DEF Nested
<1>4. p \in Machine /\ p.msp = m.msp /\ p.stk = m.stk
  BY <1>2, <1>3, TopCell, RaxSet
<1>5. Nested(p)
  BY <1>2, <1>4 DEF Nested
<1> HIDE DEF p
<1> QED  BY <1>1, <1>4, <1>5, BranchKeeps DEF HasReturn

LEMMA RetKeeps ==
  ASSUME IInv, Ret
  PROVE  IInv'
<1>1. Live /\ m' = PopBlocks(m) /\ status' = "returned" /\ effect' = <<>> /\ UNCHANGED <<blocks, jump, returns>>
  BY DEF Ret
<1>2. /\ m \in Machine /\ blocks \in Seq(Blocks) /\ Level <= MaxBlocks
      /\ Len(m.msp) = Level /\ Level \in Nat \ {0}
  BY <1>1, Running DEF Live
<1>3. SubSeq(m.msp, 1, Len(m.msp) - Level) = <<>>
  BY <1>2, SubSeqEmpty
<1>4. m' \in Machine /\ m'.msp = <<>>
  <2>1. m' = [m EXCEPT !.msp = SubSeq(m.msp, 1, Len(m.msp) - Level)]
    BY <1>1 DEF PopBlocks
  <2>2. <<>> \in Seq(Nat)
    OBVIOUS
  <2> QED  BY <2>1, <2>2, <1>2, <1>3 DEF Machine
<1>5. Nested(m')
  BY <1>4 DEF Nested
<1>6. returns \in BOOLEAN /\ jump = NoJump
  BY <1>1 DEF IInv, TypeOK, Live
<1> QED  BY <1>1, <1>2, <1>4, <1>5, <1>6, Stepped DEF Level

-----------------------------------------------------------------------------

LEMMA InitIInv == Init => IInv
<1> SUFFICES ASSUME Init PROVE IInv
  OBVIOUS
<1>1. m = FnPrologue(Start) /\ returns \in BOOLEAN /\ blocks = <<Body(returns)>>
      /\ jump = NoJump /\ effect = <<>> /\ status = "running"
  BY DEF Init
<1>2. Start \in Machine /\ Len(Start.msp) = 0
  BY DEF Start, Machine, Cells
<1>3. Nested(Start)
  BY <1>2 DEF Nested
<1>4. m \in Machine /\ Nested(m) /\ Len(m.msp) = 1
  <2>1. m = EnterBlock(Start)
    BY <1>1 DEF FnPrologue
  <2>2. m \in Machine /\ Nested(m) /\ Len(m.msp) = Len(Start.msp) + 1
    BY <2>1, <1>2, <1>3, BlockEntered
  <2> QED  BY <2>2, <1>2
<1>5. blocks \in Seq(Blocks) /\ Level = 1
  <2>1. Body(returns) \in Blocks
    BY <1>1 DEF Body, Blocks, Kinds
  <2> QED  BY <2>1, <1>1 DEF Level
<1>6. TypeOK
  BY <1>1, <1>4, <1>5, FramesAssumption DEF TypeOK, Active
<1>7. FramesNest
  BY <1>1, <1>4, <1>5 DEF FramesNest
<1>8. ReturnIsBalanced
  BY <1>1 DEF ReturnIsBalanced
<1> QED  BY <1>6, <1>7, <1>8 DEF IInv

LEMMA NextKeeps == IInv /\ [Next]_vars => IInv'
<1> SUFFICES ASSUME IInv, [Next]_vars PROVE IInv'
  OBVIOUS
<1>1. CASE \/ \E v \in Values : Const(v) \/ ReadLocal(v) \/ ReadGlobal(v)
           \/ CurrentMemory \/ Load \/ Conversion \/ GrowMemory
           \/ IntCompare \/ Compare32 \/ Compare64 \/ Arithmetic \/ FloatOp
           \/ Drop \/ WriteLocal \/ TeeLocal \/ WriteGlobal \/ Select \/ Store
  <2>1. Live
    BY <1>1 DEF Const, ReadLocal, ReadGlobal, CurrentMemory, Load, Conversion, GrowMemory,
         IntCompare, Compare32, Compare64, Arithmetic, FloatOp, Drop, WriteLocal, TeeLocal,
         WriteGlobal, Select, Store, Operate
  <2> QED  BY <1>1, <2>1, StraightLineKeeps
<1>2. ASSUME NEW c \in 0 .. MaxArgs, NEW r \in BOOLEAN, NEW i \in BOOLEAN, CallIfn(c, r, i)
      PROVE  IInv'
  BY <1>2, CallKeeps
<1>3. ASSUME NEW k \in {"block", "loop"}, NEW r \in BOOLEAN, Enter(k, r) PROVE IInv'
  BY <1>3, EnterKeeps
<1>4. ASSUME NEW r \in BOOLEAN, EnterIF(r) PROVE IInv'
  BY <1>4, EnterIFKeeps
<1>5. CASE Else
  BY <1>5, ElseKeeps
<1>6. CASE End
  BY <1>6, EndKeeps
<1>7. ASSUME NEW level \in 1 .. Level, Br(level) \/ BrIf(level) PROVE IInv'
  BY <1>7, BrKeeps, BrIfKeeps
<1>8. ASSUME NEW level \in 1 .. Level, NEW dflt \in 1 .. Level, BrTable(level, dflt) PROVE IInv'
  BY <1>8, BrTableKeeps
<1>9. CASE Ret
  BY <1>9, RetKeeps
<1>10. CASE Unreachable
  <2>1. status' = "killed" /\ effect' = <<>> /\ UNCHANGED <<blocks, jump, m, returns>>
    BY <1>10 DEF Unreachable
  <2> QED  BY <2>1, Stepped DEF IInv, TypeOK, FramesNest, Level
<1>11. CASE UNCHANGED vars
  BY <1>11 DEF vars, IInv, TypeOK, FramesNest, ReturnIsBalanced, Nested, Level, Active
<1> QED  BY <1>1, <1>2, <1>3, <1>4, <1>5, <1>6, <1>7, <1>8, <1>9, <1>10, <1>11 DEF Next

LEMMA IInvAlways == Spec => []IInv
BY InitIInv, NextKeeps, PTL DEF Spec

(* On every path through every body, at any depth of blocks, the native    *)
(* stack holds one rdi for each block the path is in, in order, and each   *)
(* lies above the operands around its block: EnterBlock, LeaveBlock and    *)
(* the branches of CompileFn always pair.                                  *)
THEOREM FramesNestAlways == Spec => []FramesNest
<1>1. IInv => FramesNest
  BY DEF IInv
<1> QED  BY <1>1, IInvAlways, PTL

(* Every way out of a function leaves the native stack at the return       *)
(* address: the ret of FnEpilogue never pops a saved rdi.                  *)
THEOREM ReturnIsBalancedAlways == Spec => []ReturnIsBalanced
<1>1. IInv => ReturnIsBalanced
  BY DEF IInv
<1> QED  BY <1>1, IInvAlways, PTL

(* Registers, memory below rdi and saved positions stay what they are.     *)
THEOREM TypeOKAlways == Spec => []TypeOK
<1>1. IInv => TypeOK
  BY DEF IInv
<1> QED  BY <1>1, IInvAlways, PTL

-----------------------------------------------------------------------------
(***************************************************************************)
(* Generated code does what the bytecode means, for every body that uses   *)
(* none of the five constructs: whatever its blocks, branches and calls,   *)
(* each instruction finds its operands where the ones before it left them. *)
(***************************************************************************)

(* The invariant.                                                          *)

(* The function's own block is the outermost one, and for the others the   *)
(* type that is pushed says whether they have a result.                    *)
BlocksInv ==
  \A k \in 1 .. Level :
    IF k = 1 THEN blocks[k] = Body(returns)
             ELSE blocks[k].kind # "fn" /\ (HasReturn(blocks[k]) <=> blocks[k].yields)

(* The top operand and the others, as one sequence. *)
Row(s) == Append(s.stk, s.rax)

(* Where the operands of the k-th block end. *)
High(s, k) == IF k = Len(s.msp) THEN Len(s.stk) + 1 ELSE s.msp[k + 1]

-----------------------------------------------------------------------------
(* Sequences.                                                              *)

LEMMA Part ==
  ASSUME NEW S, NEW s \in Seq(S), NEW a \in Nat \ {0}, NEW b \in Nat, b <= Len(s), a <= b + 1
  PROVE  /\ SubSeq(s, a, b) \in Seq(S)
         /\ Len(SubSeq(s, a, b)) = b - a + 1
         /\ \A i \in 1 .. b - a + 1 : SubSeq(s, a, b)[i] = s[a + i - 1]
<1>1. Len(s) \in Nat
  BY LenProperties
<1>2. \A i \in a .. b : s[i] \in S
  BY <1>1, ElementOfSeq
<1>3. /\ SubSeq(s, a, b) \in Seq(S)
      /\ Len(SubSeq(s, a, b)) = IF a <= b THEN b - a + 1 ELSE 0
      /\ \A i \in 1 .. b - a + 1 : SubSeq(s, a, b)[i] = s[a + i - 1]
  BY <1>2, SubSeqProperties
<1>4. (IF a <= b THEN b - a + 1 ELSE 0) = b - a + 1
  OBVIOUS
<1> QED BY ONLY <1>3, <1>4

(* A sequence of sequences with another one at its end.                    *)
LEMMA WithTopIs ==
  ASSUME NEW S, NEW fs \in Seq(S), Len(fs) > 0, NEW e \in S
  PROVE  /\ Wasm!WithTop(fs, e) \in Seq(S)
         /\ Len(Wasm!WithTop(fs, e)) = Len(fs)
         /\ Wasm!WithTop(fs, e)[Len(fs)] = e
         /\ \A k \in 1 .. Len(fs) - 1 : Wasm!WithTop(fs, e)[k] = fs[k]
<1> DEFINE low == SubSeq(fs, 1, Len(fs) - 1)
<1>1. Len(fs) \in Nat /\ Len(fs) - 1 \in 0 .. Len(fs)
  BY LenProperties
<1>2. low \in Seq(S) /\ Len(low) = Len(fs) - 1 /\ \A k \in 1 .. Len(fs) - 1 : low[k] = fs[k]
  BY <1>1, Prefix
<1>3. Wasm!WithTop(fs, e) = Append(low, e)
  BY DEF Wasm!WithTop, Wasm!Below
<1> HIDE DEF low
<1>4. /\ Append(low, e) \in Seq(S) /\ Len(Append(low, e)) = Len(low) + 1
      /\ Append(low, e)[Len(low) + 1] = e
      /\ \A k \in 1 .. Len(low) : Append(low, e)[k] = low[k]
  BY <1>2, Extended
<1>5. Len(low) + 1 = Len(fs)
  BY <1>1, <1>2
<1> QED BY <1>2, <1>3, <1>4, <1>5

-----------------------------------------------------------------------------
(* The operands of each block, read off the machine.                       *)

LEMMA RowIs ==
  ASSUME NEW s \in Machine
  PROVE  /\ Row(s) \in Seq(Cells) /\ Len(s.stk) \in Nat /\ Len(Row(s)) = Len(s.stk) + 1
         /\ Row(s)[Len(s.stk) + 1] = s.rax
         /\ \A i \in 1 .. Len(s.stk) : Row(s)[i] = s.stk[i]
<1>1. s.stk \in Seq(Cells) /\ s.rax \in Cells
  BY MachineFields
<1> QED BY <1>1, Extended DEF Row

LEMMA FramesAre ==
  ASSUME NEW s \in Machine, Nested(s)
  PROVE  /\ Frames(s) \in Seq(Seq(Cells)) /\ Len(Frames(s)) = Len(s.msp)
         /\ \A k \in 1 .. Len(s.msp) :
              /\ s.msp[k] \in Nat /\ High(s, k) \in Nat
              /\ s.msp[k] + 1 <= High(s, k) /\ High(s, k) <= Len(s.stk) + 1
              /\ Frames(s)[k] \in Seq(Cells)
              /\ Len(Frames(s)[k]) = High(s, k) - s.msp[k] - 1
              /\ \A i \in 1 .. High(s, k) - s.msp[k] - 1 : Frames(s)[k][i] = Row(s)[s.msp[k] + 1 + i]
<1> DEFINE n == Len(s.msp)
<1>1. /\ Row(s) \in Seq(Cells) /\ Len(s.stk) \in Nat /\ Len(Row(s)) = Len(s.stk) + 1
      /\ n \in Nat /\ \A k \in 1 .. n : s.msp[k] \in Nat
  BY RowIs, MachineFields
<1>2. ASSUME NEW k \in 1 .. n
      PROVE  High(s, k) \in Nat /\ s.msp[k] + 1 <= High(s, k) /\ High(s, k) <= Len(s.stk) + 1
  <2>1. s.msp[k] \in Nat /\ s.msp[k] <= Len(s.stk)
    BY <1>1 DEF Nested
  <2>2. CASE k = n
    BY <1>1, <2>1, <2>2 DEF High
  <2>3. CASE k # n
    <3>1. k + 1 \in 1 .. n /\ k \in 1 .. k + 1 - 1
      BY <1>1, <2>3
    <3>2. s.msp[k + 1] \in Nat /\ s.msp[k + 1] <= Len(s.stk) /\ s.msp[k] < s.msp[k + 1]
      BY <1>1, <3>1 DEF Nested
    <3>3. High(s, k) = s.msp[k + 1]
      BY <2>3 DEF High
    <3> QED BY ONLY <1>1, <2>1, <3>2, <3>3
  <2> QED BY <2>2, <2>3
<1>3. Frames(s) = [k \in 1 .. n |-> SubSeq(Row(s), s.msp[k] + 2, High(s, k))]
  <2>1. \A k \in 1 .. n : High(s, k) = IF k = n THEN Len(Row(s)) ELSE s.msp[k + 1]
    BY <1>1 DEF High
  <2>2. Frames(s) = [k \in 1 .. n |-> SubSeq(Row(s), s.msp[k] + 2, IF k = n THEN Len(Row(s)) ELSE s.msp[k + 1])]
    BY DEF Frames, Row
  <2> HIDE DEF n
  <2> QED BY ONLY <2>1, <2>2
<1>4. ASSUME NEW k \in 1 .. n
      PROVE  /\ SubSeq(Row(s), s.msp[k] + 2, High(s, k)) \in Seq(Cells)
             /\ Len(SubSeq(Row(s), s.msp[k] + 2, High(s, k))) = High(s, k) - s.msp[k] - 1
             /\ \A i \in 1 .. High(s, k) - s.msp[k] - 1 :
                  SubSeq(Row(s), s.msp[k] + 2, High(s, k))[i] = Row(s)[s.msp[k] + 1 + i]
  <2> DEFINE l == s.msp[k]
             h == High(s, k)
             r == Row(s)
             f == SubSeq(Row(s), s.msp[k] + 2, High(s, k))
  <2>1. /\ l \in Nat /\ h \in Nat /\ h <= Len(r) /\ l + 1 <= h
        /\ r \in Seq(Cells) /\ f = SubSeq(r, l + 2, h)
    BY <1>1, <1>2
  <2> HIDE DEF l, h, r, f
  <2>2. f \in Seq(Cells) /\ Len(f) = h - l - 1 /\ \A i \in 1 .. h - l - 1 : f[i] = r[l + 1 + i]
    <3>1. /\ l + 2 \in Nat \ {0} /\ l + 2 <= h + 1 /\ h - (l + 2) + 1 = h - l - 1
          /\ \A i \in 1 .. h - l - 1 : (l + 2) + i - 1 = l + 1 + i
      BY ONLY <2>1
    <3>2. /\ f \in Seq(Cells) /\ Len(f) = h - (l + 2) + 1
          /\ \A i \in 1 .. h - (l + 2) + 1 : f[i] = r[(l + 2) + i - 1]
      <4> DEFINE a == l + 2
      <4>1. a \in Nat \ {0} /\ a <= h + 1
        BY <3>1
      <4>2. f = SubSeq(r, a, h) /\ r \in Seq(Cells) /\ h \in Nat /\ h <= Len(r)
        BY <2>1
      <4> HIDE DEF a
      <4>3. /\ f \in Seq(Cells) /\ Len(f) = h - a + 1
            /\ \A i \in 1 .. h - a + 1 : f[i] = r[a + i - 1]
        BY ONLY <4>1, <4>2, Part
      <4> QED BY ONLY <4>3 DEF a
    <3> QED BY ONLY <3>1, <3>2
  <2> QED BY <2>2 DEF l, h, r, f
<1>5. Frames(s) \in Seq(Seq(Cells)) /\ Len(Frames(s)) = n
  <2>1. Frames(s) \in [1 .. n -> Seq(Cells)]
    BY <1>3, <1>4
  <2> HIDE DEF n
  <2> QED BY <1>1, <2>1, SeqDef
<1> QED BY <1>1, <1>2, <1>3, <1>4, <1>5

(* f is the part of r above the cell l and up to h, but for the one cell    *)
(* that EnterBlock pushed.                                                 *)
Spans(f, r, l, h) ==
  /\ l \in Nat /\ h \in Nat /\ l + 1 <= h
  /\ f \in Seq(Cells) /\ Len(f) = h - l - 1
  /\ \A i \in 1 .. h - l - 1 : f[i] = r[l + 1 + i]

LEMMA FrameIs ==
  ASSUME NEW s \in Machine, Nested(s), NEW k \in 1 .. Len(s.msp)
  PROVE  Spans(Frames(s)[k], Row(s), s.msp[k], High(s, k)) /\ High(s, k) <= Len(s.stk) + 1
<1>1. \A j \in 1 .. Len(s.msp) :
        /\ s.msp[j] \in Nat /\ High(s, j) \in Nat
        /\ s.msp[j] + 1 <= High(s, j) /\ High(s, j) <= Len(s.stk) + 1
        /\ Frames(s)[j] \in Seq(Cells)
        /\ Len(Frames(s)[j]) = High(s, j) - s.msp[j] - 1
        /\ \A i \in 1 .. High(s, j) - s.msp[j] - 1 : Frames(s)[j][i] = Row(s)[s.msp[j] + 1 + i]
  BY FramesAre
<1> QED BY <1>1, Zenon DEF Spans

Agree(r, u, h) == \A i \in 1 .. h : r[i] = u[i]

(* Parts of two rows that agree are the same.                              *)
LEMMA SpansAgree ==
  ASSUME NEW f, NEW g, NEW r, NEW u, NEW l, NEW h, Spans(f, r, l, h), Spans(g, u, l, h), Agree(r, u, h)
  PROVE  f = g
<1>1. \A i \in 1 .. h - l - 1 : l + 1 + i \in 1 .. h
  BY DEF Spans
<1>2. \A i \in 1 .. h - l - 1 : f[i] = g[i]
  BY <1>1 DEF Spans, Agree
<1>3. f \in Seq(Cells) /\ g \in Seq(Cells) /\ Len(f) = h - l - 1 /\ Len(g) = h - l - 1
  BY DEF Spans
<1> QED BY ONLY <1>2, <1>3, SeqEqual

(* The operands of a block are the same in two machines whose rows agree.  *)
LEMMA SameFrame ==
  ASSUME NEW s \in Machine, Nested(s), NEW t \in Machine, Nested(t),
         NEW k \in 1 .. Len(s.msp), k \in 1 .. Len(t.msp), s.msp[k] = t.msp[k], High(s, k) = High(t, k),
         Agree(Row(s), Row(t), High(s, k))
  PROVE  Frames(s)[k] = Frames(t)[k]
<1>1. Spans(Frames(s)[k], Row(s), s.msp[k], High(s, k))
  BY FrameIs
<1>2. Spans(Frames(t)[k], Row(t), t.msp[k], High(t, k))
  BY FrameIs
<1>3. Spans(Frames(t)[k], Row(t), s.msp[k], High(s, k))
  BY <1>2
<1> QED BY <1>1, <1>3, SpansAgree, Zenon

(* The operands of the innermost block. *)
LEMMA InnermostIs ==
  ASSUME NEW s \in Machine, Nested(s), NEW n, n = Len(s.msp), n > 0
  PROVE  /\ n \in 1 .. n /\ n \in Nat /\ s.msp[n] > 0 /\ s.msp[n] <= Len(s.stk) /\ Len(s.stk) \in Nat
         /\ Spans(Frames(s)[n], Row(s), s.msp[n], Len(s.stk) + 1)
<1>1. n \in Nat /\ n \in 1 .. n /\ Len(s.stk) \in Nat
  BY MachineFields
<1>2. s.msp[n] > 0 /\ s.msp[n] <= Len(s.stk)
  BY <1>1 DEF Nested
<1>3. High(s, n) = Len(s.stk) + 1
  BY DEF High
<1>4. Spans(Frames(s)[n], Row(s), s.msp[n], High(s, n))
  BY <1>1, FrameIs
<1> QED BY ONLY <1>1, <1>2, <1>3, <1>4

(* What t has that straight-line code makes of s when it takes k operands  *)
(* and leaves some.                                                        *)
Leaves(s, t, k, left) ==
  /\ t.msp = s.msp /\ Len(t.stk) = Len(s.stk) - k + Len(left)
  /\ Agree(Row(s), Row(t), Len(s.stk) + 1 - k)
  /\ \A j \in 1 .. Len(left) : Row(t)[Len(s.stk) + 1 - k + j] = left[j]

(* The first operands of a block, then others. *)
LEMMA CutAnd ==
  ASSUME NEW here \in Seq(Cells), NEW e \in Nat, e <= Len(here), NEW left \in Seq(Cells)
  PROVE  LET made == SubSeq(here, 1, e) \o left
         IN /\ made \in Seq(Cells) /\ Len(made) = e + Len(left) /\ Len(left) \in Nat
            /\ \A i \in 1 .. e + Len(left) : made[i] = IF i <= e THEN here[i] ELSE left[i - e]
<1> DEFINE rest == SubSeq(here, 1, e)
           made == rest \o left
<1>1. e \in 0 .. Len(here) /\ Len(left) \in Nat
  BY LenProperties
<1>2. rest \in Seq(Cells) /\ Len(rest) = e /\ \A i \in 1 .. e : rest[i] = here[i]
  BY <1>1, Prefix
<1> HIDE DEF rest
<1>3. /\ made \in Seq(Cells) /\ Len(made) = Len(rest) + Len(left)
      /\ \A i \in 1 .. Len(rest) + Len(left) : made[i] = IF i <= Len(rest) THEN rest[i] ELSE left[i - Len(rest)]
  BY <1>2, ConcatProperties
<1> HIDE DEF made
<1>4. \A i \in 1 .. e + Len(left) : i <= e => i \in 1 .. e
  BY <1>1
<1>5. /\ made \in Seq(Cells) /\ Len(made) = e + Len(left)
      /\ \A i \in 1 .. e + Len(left) : made[i] = IF i <= e THEN here[i] ELSE left[i - e]
  BY ONLY <1>2, <1>3, <1>4
<1>6. made = SubSeq(here, 1, e) \o left
  BY DEF made, rest
<1> QED BY <1>1, <1>5, <1>6

(* All of a sequence. *)
LEMMA WholeIs ==
  ASSUME NEW S, NEW s \in Seq(S), NEW n, n = Len(s)
  PROVE  SubSeq(s, 1, n) = s
<1>1. n \in 0 .. Len(s)
  BY LenProperties
<1> DEFINE r == SubSeq(s, 1, n)
<1>2. r \in Seq(S) /\ Len(r) = n /\ \A i \in 1 .. n : r[i] = s[i]
  BY <1>1, Prefix
<1> HIDE DEF r
<1>3. r = s
  BY <1>2, SeqEqual
<1> QED BY <1>3 DEF r

(* t has the first n blocks of s.  Up to a cell q of the n-th, the rows    *)
(* agree; above it t has only left.                                        *)
Keeps(s, t, n, q, left) ==
  /\ s \in Machine /\ Nested(s) /\ t \in Machine /\ Nested(t)
  /\ n = Len(t.msp) /\ n > 0 /\ n <= Len(s.msp) /\ \A j \in 1 .. n : t.msp[j] = s.msp[j]
  /\ q \in Nat /\ s.msp[n] < q /\ q <= High(s, n)
  /\ left \in Seq(Cells) /\ Len(t.stk) + 1 = q + Len(left)
  /\ Agree(Row(s), Row(t), q)
  /\ \A j \in 1 .. Len(left) : Row(t)[q + j] = left[j]

(* Then its last block has what s has there up to q, and left.             *)
LEMMA KeptTop ==
  ASSUME NEW s, NEW t, NEW n, NEW q, NEW left, Keeps(s, t, n, q, left)
  PROVE  /\ Frames(t)[n] = SubSeq(Frames(s)[n], 1, q - s.msp[n] - 1) \o left
         /\ Frames(t)[n] \in Seq(Cells)
<1> DEFINE l == s.msp[n]
           e == q - s.msp[n] - 1
           here == Frames(s)[n]
           there == Frames(t)[n]
           made == SubSeq(here, 1, e) \o left
           a == Len(left)
           c == Len(t.stk)
           h == High(s, n)
<1>1. /\ n \in 1 .. Len(s.msp) /\ n \in 1 .. Len(t.msp) /\ n = Len(t.msp) /\ t.msp[n] = l
      /\ l < q /\ q <= h /\ q \in Nat /\ s \in Machine /\ Nested(s) /\ t \in Machine /\ Nested(t)
  <2>1. /\ s \in Machine /\ Nested(s) /\ t \in Machine /\ Nested(t) /\ q \in Nat
        /\ n = Len(t.msp) /\ n > 0 /\ n <= Len(s.msp) /\ l < q /\ q <= h
    BY DEF Keeps
  <2>2. Len(t.msp) \in Nat /\ Len(s.msp) \in Nat
    BY <2>1, MachineFields
  <2>3. n \in 1 .. Len(s.msp) /\ n \in 1 .. Len(t.msp) /\ n \in 1 .. n
    BY ONLY <2>1, <2>2
  <2>4. t.msp[n] = l
    BY <2>3 DEF Keeps
  <2> QED BY <2>1, <2>3, <2>4
<1>e. e = q - l - 1
  OBVIOUS
<1>2. /\ left \in Seq(Cells) /\ c \in Nat /\ a \in Nat /\ c + 1 = q + a
      /\ \A j \in 1 .. a : Row(t)[q + j] = left[j]
  BY LenProperties, MachineFields DEF Keeps
<1>3. \A i \in 1 .. q : Row(t)[i] = Row(s)[i]
  BY DEF Keeps, Agree
<1>4. Spans(here, Row(s), l, h)
  BY <1>1, FrameIs, Zenon
<1>5. Spans(there, Row(t), l, c + 1)
  <2>1. High(t, n) = c + 1
    BY <1>1 DEF High
  <2>2. Spans(there, Row(t), t.msp[n], High(t, n))
    BY <1>1, FrameIs, Zenon
  <2> QED BY ONLY <1>1, <2>1, <2>2
<1> HIDE DEF l, e, here, there, made, a, c, h
<1>6. l \in Nat /\ h \in Nat /\ here \in Seq(Cells) /\ Len(here) = h - l - 1 /\ there \in Seq(Cells)
      /\ Len(there) = (c + 1) - l - 1
  BY ONLY <1>4, <1>5 DEF Spans
<1>7. e \in Nat /\ e <= h - l - 1 /\ (c + 1) - l - 1 = e + a /\ q = l + 1 + e
  BY ONLY <1>1, <1>2, <1>6, <1>e
<1>8. /\ made \in Seq(Cells) /\ Len(made) = e + a
      /\ \A i \in 1 .. e + a : made[i] = IF i <= e THEN here[i] ELSE left[i - e]
  <2>1. here \in Seq(Cells) /\ e \in Nat /\ e <= Len(here) /\ left \in Seq(Cells)
    BY ONLY <1>2, <1>6, <1>7
  <2> QED BY ONLY <2>1, CutAnd DEF a, made
<1>9. ASSUME NEW i \in 1 .. e + a PROVE there[i] = made[i]
  <2>0. i \in 1 .. e + a
    OBVIOUS
  <2>1. there[i] = Row(t)[l + 1 + i]
    <3>1. \A x \in 1 .. (c + 1) - l - 1 : there[x] = Row(t)[l + 1 + x]
      BY ONLY <1>5 DEF Spans
    <3> QED BY ONLY <3>1, <2>0, <1>7
  <2>2. CASE i <= e
    <3>1. l + 1 + i \in 1 .. q /\ i \in 1 .. h - l - 1
      BY ONLY <1>6, <1>7, <2>0, <2>2
    <3>2. Row(t)[l + 1 + i] = Row(s)[l + 1 + i]
      BY ONLY <1>3, <3>1
    <3>3. \A x \in 1 .. h - l - 1 : here[x] = Row(s)[l + 1 + x]
      BY ONLY <1>4 DEF Spans
    <3>4. here[i] = Row(s)[l + 1 + i]
      BY ONLY <3>1, <3>3
    <3>5. made[i] = here[i]
      BY ONLY <1>8, <2>0, <2>2
    <3> QED BY ONLY <2>1, <3>2, <3>4, <3>5
  <2>3. CASE ~(i <= e)
    <3>1. i - e \in 1 .. a /\ l + 1 + i = q + (i - e)
      BY ONLY <1>2, <1>6, <1>7, <2>0, <2>3
    <3>2. Row(t)[q + (i - e)] = left[i - e]
      BY ONLY <1>2, <3>1
    <3>3. made[i] = left[i - e]
      BY ONLY <1>8, <2>0, <2>3
    <3> QED BY ONLY <2>1, <3>1, <3>2, <3>3
  <2> QED BY <2>2, <2>3
<1>10. there = made
  <2>1. Len(there) = Len(made) /\ \A i \in 1 .. Len(there) : there[i] = made[i]
    BY ONLY <1>6, <1>7, <1>8, <1>9
  <2> QED BY ONLY <1>6, <1>8, <2>1, SeqEqual
<1> QED BY ONLY <1>6, <1>10 DEF there, made, here, e

(* And its other blocks have what they have in s.                          *)
LEMMA KeptBelow ==
  ASSUME NEW s, NEW t, NEW n, NEW q, NEW left, Keeps(s, t, n, q, left), NEW j \in 1 .. n - 1
  PROVE  Frames(s)[j] = Frames(t)[j]
<1>1. /\ n \in Nat /\ n = Len(t.msp) /\ n <= Len(s.msp) /\ Len(s.msp) \in Nat /\ q \in Nat /\ s.msp[n] < q
      /\ s \in Machine /\ Nested(s) /\ t \in Machine /\ Nested(t)
  BY MachineFields DEF Keeps
<1>2. /\ j \in 1 .. n /\ j # n /\ j # Len(s.msp) /\ j + 1 \in 1 .. n /\ n \in 1 .. Len(s.msp)
      /\ j \in 1 .. Len(s.msp) /\ j + 1 \in 1 .. Len(s.msp)
  BY <1>1
<1>3. s.msp[j] = t.msp[j] /\ s.msp[j + 1] = t.msp[j + 1]
  BY <1>2 DEF Keeps
<1>4. High(s, j) = s.msp[j + 1] /\ High(s, j) = High(t, j)
  BY <1>1, <1>2, <1>3 DEF High
<1>5. s.msp[j + 1] \in Nat /\ s.msp[n] \in Nat
  BY <1>1, <1>2, MachineFields
<1>6. s.msp[j + 1] < q
  <2>1. CASE j + 1 = n
    BY <2>1, <1>1
  <2>2. CASE j + 1 # n
    <3>1. j + 1 \in 1 .. n - 1
      BY <1>1, <1>2, <2>2
    <3>2. s.msp[j + 1] < s.msp[n]
      BY <1>1, <1>2, <3>1 DEF Nested
    <3> QED BY ONLY <1>1, <1>5, <3>2
  <2> QED BY <2>1, <2>2
<1>7. Agree(Row(s), Row(t), High(s, j))
  <2>1. \A i \in 1 .. High(s, j) : i \in 1 .. q
    BY ONLY <1>1, <1>4, <1>5, <1>6
  <2>2. \A i \in 1 .. q : Row(s)[i] = Row(t)[i]
    BY DEF Keeps, Agree
  <2> QED BY ONLY <2>1, <2>2 DEF Agree
<1>8. j \in 1 .. Len(t.msp)
  BY <1>1, <1>2
<1> QED BY ONLY <1>1, <1>2, <1>3, <1>4, <1>7, <1>8, SameFrame

LEMMA KeptFrames ==
  ASSUME NEW s, NEW t, NEW n, NEW q, NEW left, Keeps(s, t, n, q, left)
  PROVE  Frames(t) = Wasm!WithTop(SubSeq(Frames(s), 1, n), SubSeq(Frames(s)[n], 1, q - s.msp[n] - 1) \o left)
<1> DEFINE fs == Frames(s)
           ft == Frames(t)
           made == SubSeq(Frames(s)[n], 1, q - s.msp[n] - 1) \o left
           outer == SubSeq(fs, 1, n)
           new == Wasm!WithTop(outer, made)
<1>1. /\ fs \in Seq(Seq(Cells)) /\ n \in 0 .. Len(fs) /\ n > 0 /\ n \in Nat
      /\ ft \in Seq(Seq(Cells)) /\ Len(ft) = n
  <2>1. /\ s \in Machine /\ Nested(s) /\ t \in Machine /\ Nested(t)
        /\ n = Len(t.msp) /\ n > 0 /\ n <= Len(s.msp)
    BY DEF Keeps
  <2>2. n \in Nat
    BY <2>1, MachineFields
  <2>3. fs \in Seq(Seq(Cells)) /\ Len(fs) = Len(s.msp) /\ ft \in Seq(Seq(Cells)) /\ Len(ft) = Len(t.msp)
    BY <2>1, FramesAre
  <2>4. Len(s.msp) \in Nat
    BY <2>1, MachineFields
  <2> HIDE DEF fs, ft
  <2> QED BY ONLY <2>1, <2>2, <2>3, <2>4
<1>2. ft[n] = made /\ made \in Seq(Cells)
  <2>1. ft[n] = made /\ ft[n] \in Seq(Cells)
    BY KeptTop, Zenon
  <2> HIDE DEF ft, made
  <2> QED BY ONLY <2>1
<1>3. \A j \in 1 .. n - 1 : fs[j] = ft[j]
  BY KeptBelow, Zenon
<1> HIDE DEF fs, ft, made
<1>4. outer \in Seq(Seq(Cells)) /\ Len(outer) = n /\ \A j \in 1 .. n : outer[j] = fs[j]
  BY ONLY <1>1, Prefix
<1> HIDE DEF outer
<1>5. /\ new \in Seq(Seq(Cells)) /\ Len(new) = n /\ new[n] = made
      /\ \A j \in 1 .. n - 1 : new[j] = outer[j]
  <2>1. Len(outer) > 0
    BY ONLY <1>1, <1>4
  <2>2. /\ new \in Seq(Seq(Cells)) /\ Len(new) = Len(outer) /\ new[Len(outer)] = made
        /\ \A j \in 1 .. Len(outer) - 1 : new[j] = outer[j]
    <3> DEFINE S == Seq(Cells)
    <3>1. outer \in Seq(S) /\ made \in S
      BY <1>2, <1>4
    <3> HIDE DEF S
    <3>2. /\ new \in Seq(S) /\ Len(new) = Len(outer) /\ new[Len(outer)] = made
          /\ \A j \in 1 .. Len(outer) - 1 : new[j] = outer[j]
      BY ONLY <2>1, <3>1, WithTopIs
    <3> QED BY ONLY <3>2 DEF S
  <2> QED BY ONLY <1>4, <2>2
<1> HIDE DEF new
<1>6. \A j \in 1 .. n : ft[j] = new[j]
  <2>1. \A j \in 1 .. n : j = n \/ j \in 1 .. n - 1
    BY ONLY <1>1
  <2> QED BY ONLY <1>2, <1>3, <1>4, <1>5, <2>1, Zenon
<1>7. ft = new
  BY ONLY <1>1, <1>5, <1>6, SeqEqual
<1> QED BY ONLY <1>7 DEF new, outer, made, fs, ft

LEMMA StraightFrames ==
  ASSUME NEW s \in Machine, Nested(s), NEW n, n = Len(s.msp), n > 0,
         NEW t \in Machine, Nested(t), NEW k \in Nat, NEW left \in Seq(Cells), Leaves(s, t, k, left),
         s.msp[n] + k <= Len(s.stk)
  PROVE  Frames(t) = Wasm!WithTop(Frames(s), SubSeq(Frames(s)[n], 1, Len(Frames(s)[n]) - k) \o left)
<1> DEFINE q == Len(s.stk) + 1 - k
           l == s.msp[n]
<1>1. /\ n \in 1 .. n /\ n \in Nat /\ l \in Nat /\ Len(s.stk) \in Nat /\ Len(left) \in Nat
      /\ Len(Frames(s)[n]) = Len(s.stk) - l
  BY InnermostIs, LenProperties DEF Spans
<1>2. /\ t.msp = s.msp /\ Len(t.stk) = Len(s.stk) - k + Len(left)
      /\ Agree(Row(s), Row(t), q)
      /\ \A j \in 1 .. Len(left) : Row(t)[q + j] = left[j]
  BY DEF Leaves
<1>3. /\ q \in Nat /\ l < q /\ q <= High(s, n) /\ Len(t.stk) + 1 = q + Len(left)
      /\ q - l - 1 = Len(Frames(s)[n]) - k
  <2>1. High(s, n) = Len(s.stk) + 1
    BY DEF High
  <2>2. l + k <= Len(s.stk) /\ k \in Nat
    OBVIOUS
  <2>3. q = Len(s.stk) + 1 - k
    OBVIOUS
  <2> DEFINE c == Len(s.stk)
             e == Len(left)
             w == Len(Frames(s)[n])
             h == High(s, n)
             z == Len(t.stk)
  <2>4. /\ l \in Nat /\ c \in Nat /\ e \in Nat /\ w = c - l /\ z = c - k + e /\ h = c + 1
        /\ l + k <= c /\ k \in Nat /\ q = c + 1 - k
    BY ONLY <1>1, <1>2, <2>1, <2>2, <2>3
  <2> HIDE DEF q, l, c, e, w, h, z
  <2>5. q \in Nat /\ l < q /\ q <= h /\ z + 1 = q + e /\ q - l - 1 = w - k
    BY ONLY <2>4
  <2> QED BY ONLY <2>5 DEF c, e, w, h, z
<1>4. Frames(s) \in Seq(Seq(Cells)) /\ Len(Frames(s)) = n
  BY FramesAre
<1>5. SubSeq(Frames(s), 1, n) = Frames(s)
  BY <1>4, WholeIs, Zenon
<1>6. Keeps(s, t, n, q, left)
  <2>1. n = Len(t.msp) /\ n <= Len(s.msp) /\ \A j \in 1 .. n : t.msp[j] = s.msp[j]
    BY <1>1, <1>2
  <2> HIDE DEF q
  <2> QED BY <1>2, <1>3, <2>1, Zenon DEF Keeps
<1>7. Frames(t) = Wasm!WithTop(SubSeq(Frames(s), 1, n), SubSeq(Frames(s)[n], 1, q - s.msp[n] - 1) \o left)
  <2> HIDE DEF q
  <2> QED BY ONLY <1>6, KeptFrames
<1>8. q - s.msp[n] - 1 = Len(Frames(s)[n]) - k
  BY ONLY <1>3
<1> QED BY ONLY <1>5, <1>7, <1>8

(* A path that leaves blocks with some values.                             *)
Carries(s, t, level, left) ==
  /\ Len(t.msp) = level - 1 /\ \A j \in 1 .. level - 1 : t.msp[j] = s.msp[j]
  /\ left \in Seq(Cells) /\ Len(t.stk) + 1 = s.msp[level] + Len(left)
  /\ Agree(Row(s), Row(t), s.msp[level])
  /\ \A j \in 1 .. Len(left) : Row(t)[s.msp[level] + j] = left[j]

LEMMA LeftFrames ==
  ASSUME NEW s \in Machine, Nested(s), NEW t \in Machine, Nested(t),
         NEW level \in 1 .. Len(s.msp), NEW left, Carries(s, t, level, left),
         NEW outer, outer = SubSeq(Frames(s), 1, level - 1)
  PROVE  /\ level = 1 => Frames(t) = <<>>
         /\ level # 1 => Frames(t) = Wasm!WithTop(outer, outer[Len(outer)] \o left)
<1> DEFINE n == level - 1
           q == s.msp[level]
           here == Frames(s)[n]
<1>1. n \in Nat /\ Len(s.msp) \in Nat /\ n <= Len(s.msp) /\ n + 1 = level /\ n # Len(s.msp) /\ q \in Nat
  BY MachineFields
<1>2. /\ Frames(s) \in Seq(Seq(Cells)) /\ Len(Frames(s)) = Len(s.msp)
      /\ Frames(t) \in Seq(Seq(Cells)) /\ Len(Frames(t)) = n
  BY FramesAre DEF Carries
<1>3. CASE level = 1
  <2>1. Len(Frames(t)) = 0
    BY <1>2, <1>3
  <2>2. Frames(t) = <<>>
    BY <1>2, <2>1, EmptySeq
  <2> QED BY <1>3, <2>2
<1>4. CASE level # 1
  <2>1. n > 0 /\ n \in 1 .. level - 1 /\ n \in 1 .. Len(s.msp)
    BY <1>1, <1>4
  <2>2. High(s, n) = q
    BY <1>1 DEF High
  <2>3. s.msp[n] < q /\ s.msp[n] \in Nat
    BY <2>1, MachineFields DEF Nested
  <2>4. Len(outer) = n /\ outer[n] = here
    <3> DEFINE fs == Frames(s)
    <3>1. fs \in Seq(Seq(Cells)) /\ n \in 0 .. Len(fs) /\ outer = SubSeq(fs, 1, n)
      BY <1>1, <1>2
    <3> HIDE DEF fs, n
    <3>2. Len(outer) = n /\ \A j \in 1 .. n : outer[j] = fs[j]
      BY ONLY <3>1, Prefix
    <3>3. n \in 1 .. n
      BY ONLY <1>1, <2>1
    <3> QED BY ONLY <3>2, <3>3 DEF fs
  <2>5. SubSeq(here, 1, q - s.msp[n] - 1) = here
    <3>1. Spans(here, Row(s), s.msp[n], High(s, n))
      BY <2>1, FrameIs
    <3>2. here \in Seq(Cells) /\ q - s.msp[n] - 1 = Len(here)
      BY ONLY <2>2, <3>1 DEF Spans
    <3> HIDE DEF here
    <3> QED BY ONLY <3>2, WholeIs
  <2>6. Keeps(s, t, n, q, left)
    <3>1. /\ n = Len(t.msp) /\ q <= High(s, n) /\ Len(t.stk) + 1 = q + Len(left) /\ left \in Seq(Cells)
          /\ \A j \in 1 .. n : t.msp[j] = s.msp[j]
      BY <1>1, <2>2 DEF Carries
    <3>2. Agree(Row(s), Row(t), q) /\ \A j \in 1 .. Len(left) : Row(t)[q + j] = left[j]
      BY DEF Carries
    <3> HIDE DEF q, n
    <3> QED BY <1>1, <2>1, <2>3, <3>1, <3>2, Zenon DEF Keeps
  <2>7. Frames(t) = Wasm!WithTop(outer, SubSeq(here, 1, q - s.msp[n] - 1) \o left)
    <3>1. outer = SubSeq(Frames(s), 1, n)
      OBVIOUS
    <3>2. Frames(t) = Wasm!WithTop(SubSeq(Frames(s), 1, n), SubSeq(Frames(s)[n], 1, q - s.msp[n] - 1) \o left)
      <4> HIDE DEF q, n
      <4> QED BY ONLY <2>6, KeptFrames
    <3> QED BY <3>1, <3>2
  <2> HIDE DEF q, n, here
  <2> QED BY ONLY <1>4, <2>4, <2>5, <2>7
<1> QED BY <1>3, <1>4

(* A block that begins has no operands and hides none of the others.       *)
LEMMA EnteredFrames ==
  ASSUME NEW s \in Machine, Nested(s)
  PROVE  Frames(EnterBlock(s)) = Append(Frames(s), <<>>)
<1> DEFINE t == EnterBlock(s)
           n == Len(s.msp)
           c == Len(s.stk)
           more == Append(Frames(s), <<>>)
<1>1. /\ t \in Machine /\ Nested(t) /\ Len(t.msp) = n + 1 /\ Len(t.stk) = c + 1
      /\ t.msp[n + 1] = c + 1 /\ \A j \in 1 .. n : t.msp[j] = s.msp[j]
  BY BlockEntered
<1>2. n \in Nat /\ c \in Nat /\ Row(s) \in Seq(Cells) /\ Len(Row(s)) = c + 1
  BY MachineFields, RowIs
<1>3. t.stk = Row(s)
  BY DEF EnterBlock, PushRdi, PushExpandStack, Row, Machine
<1> HIDE DEF t, n, c
<1>4. /\ Frames(s) \in Seq(Seq(Cells)) /\ Len(Frames(s)) = n
      /\ Frames(t) \in Seq(Seq(Cells)) /\ Len(Frames(t)) = n + 1
  BY <1>1, FramesAre DEF n
<1>5. <<>> \in Seq(Cells) /\ Len(<<>>) = 0
  BY EmptySeq
<1>6. /\ more \in Seq(Seq(Cells)) /\ Len(more) = n + 1 /\ more[n + 1] = <<>>
      /\ \A j \in 1 .. n : more[j] = Frames(s)[j]
  BY <1>4, <1>5, Extended
<1>7. Frames(t)[n + 1] = <<>>
  <2> DEFINE k == n + 1
             f == Frames(t)[k]
  <2>1. k = Len(t.msp) /\ k > 0 /\ t.msp[k] = c + 1
    BY <1>1, <1>2
  <2>2. Spans(f, Row(t), t.msp[k], Len(t.stk) + 1)
    <3> HIDE DEF k
    <3> QED BY <1>1, <2>1, InnermostIs
  <2> HIDE DEF k, f
  <2>3. f \in Seq(Cells) /\ Len(f) = (Len(t.stk) + 1) - t.msp[k] - 1
    BY ONLY <2>2 DEF Spans
  <2>4. Len(f) = 0
    BY ONLY <1>1, <1>2, <2>1, <2>3
  <2>5. f = <<>>
    BY ONLY <2>3, <2>4, EmptySeq
  <2> QED BY <2>5 DEF k, f
<1>8. ASSUME NEW j \in 1 .. n PROVE Frames(s)[j] = Frames(t)[j]
  <2>1. j \in 1 .. n + 1 /\ j # n + 1
    BY <1>2
  <2>2. High(t, j) = t.msp[j + 1]
    BY <1>1, <2>1 DEF High
  <2>3. High(s, j) = High(t, j) /\ High(s, j) \in Nat /\ High(s, j) <= c + 1
    <3>1. CASE j = n
      BY <1>1, <1>2, <2>2, <3>1 DEF High, n, c
    <3>2. CASE j # n
      <4>1. j + 1 \in 1 .. n
        BY <1>2, <3>2
      <4>2. High(s, j) = s.msp[j + 1] /\ s.msp[j + 1] \in Nat /\ s.msp[j + 1] <= c
        BY <3>2, <4>1, MachineFields DEF High, Nested, n, c
      <4> QED BY <1>1, <1>2, <2>2, <4>1, <4>2
    <3> QED BY <3>1, <3>2
  <2>4. Agree(Row(s), Row(t), High(s, j))
    <3>1. \A i \in 1 .. c + 1 : Row(t)[i] = t.stk[i]
      BY <1>1, RowIs
    <3> QED BY <1>2, <1>3, <2>3, <3>1 DEF Agree
  <2> QED BY <1>1, <2>1, <2>3, <2>4, SameFrame DEF n
<1>9. \A j \in 1 .. n + 1 : Frames(t)[j] = more[j]
  <2>1. \A j \in 1 .. n + 1 : j = n + 1 \/ j \in 1 .. n
    BY <1>2
  <2> QED BY <1>6, <1>7, <1>8, <2>1, Zenon
<1>10. Frames(t) = more
  BY ONLY <1>4, <1>6, <1>9, SeqEqual
<1> QED BY <1>10 DEF t
-----------------------------------------------------------------------------
(* Ways out of blocks.                                                     *)

(* The top cell moves to rax: the row loses the old rax.                   *)
LEMMA ContractedRow ==
  ASSUME NEW s \in Machine, Len(s.stk) > 0
  PROVE  LET t == PopContractStack(s)
         IN /\ t \in Machine /\ t.msp = s.msp /\ Len(t.stk) = Len(s.stk) - 1 /\ t.rax = Top(s.stk)
            /\ Agree(s.stk, Row(t), Len(s.stk))
<1> DEFINE t == PopContractStack(s)
           c == Len(s.stk)
<1>1. t \in Machine /\ t.msp = s.msp /\ Len(t.stk) = c - 1
  BY Contracted
<1>2. s.stk \in Seq(Cells) /\ c \in Nat /\ c > 0
  BY MachineFields
<1>3. t.stk = SubSeq(s.stk, 1, c - 1) /\ t.rax = s.stk[c]
  BY <1>2 DEF PopContractStack, Below, Top, Machine
<1> HIDE DEF t
<1>4. \A i \in 1 .. c - 1 : t.stk[i] = s.stk[i]
  <2> DEFINE z == s.stk
  <2>1. c - 1 \in 0 .. Len(z) /\ z \in Seq(Cells)
    BY <1>2
  <2>2. t.stk = SubSeq(z, 1, c - 1)
    BY <1>3
  <2> HIDE DEF z, c
  <2>3. \A i \in 1 .. c - 1 : t.stk[i] = z[i]
    BY ONLY <2>1, <2>2, Prefix
  <2> QED BY ONLY <2>3 DEF z
<1>5. Row(t)[Len(t.stk) + 1] = t.rax /\ \A i \in 1 .. Len(t.stk) : Row(t)[i] = t.stk[i]
  BY ONLY <1>1, RowIs
<1>6. \A i \in 1 .. c : s.stk[i] = Row(t)[i]
  <2>1. \A i \in 1 .. c : i = c \/ i \in 1 .. c - 1
    BY ONLY <1>2
  <2>2. Len(t.stk) + 1 = c
    BY ONLY <1>1, <1>2
  <2> QED BY ONLY <1>1, <1>3, <1>4, <1>5, <2>1, <2>2
<1>7. t.rax = Top(s.stk)
  BY <1>3 DEF Top
<1> QED BY ONLY <1>1, <1>6, <1>7 DEF t, c, Agree

(* pop rdi, from the frame at: what is below the saved position stays.     *)
LEMMA RdiBack ==
  ASSUME NEW s \in Machine, Nested(s), NEW at \in 1 .. Len(s.msp)
  PROVE  LET t == PopRdi(s, Len(s.msp) + 1 - at)
         IN /\ t \in Machine /\ Nested(t) /\ t.rax = s.rax
            /\ Len(t.msp) = at - 1 /\ \A j \in 1 .. at - 1 : t.msp[j] = s.msp[j]
            /\ Len(t.stk) = s.msp[at] /\ Agree(s.stk, t.stk, s.msp[at])
            /\ s.msp[at] \in Nat /\ s.msp[at] > 0 /\ s.msp[at] <= Len(s.stk) /\ Len(s.stk) \in Nat
<1> DEFINE n == Len(s.msp)
           d == n + 1 - at
           t == PopRdi(s, d)
<1>1. n \in Nat /\ d \in 1 .. n /\ n - d + 1 = at /\ n - d = at - 1 /\ Len(s.stk) \in Nat
  <2>1. n \in Nat /\ at \in 1 .. n /\ Len(s.stk) \in Nat
    BY MachineFields
  <2> HIDE DEF n
  <2> QED BY ONLY <2>1
<1> HIDE DEF d
<1>2. /\ t \in Machine /\ Nested(t)
      /\ Len(t.msp) = n - d /\ Len(t.stk) = s.msp[n - d + 1] /\ Len(t.stk) > 0
      /\ t.rax = s.rax
      /\ \A j \in 1 .. Len(t.msp) : t.msp[j] = s.msp[j]
  BY <1>1, RdiPopped
<1>3. s.msp[at] \in Nat /\ s.msp[at] <= Len(s.stk)
  BY MachineFields DEF Nested
<1>4. t.stk = [a \in 1 .. s.msp[at] |-> IF a <= Len(s.stk) THEN s.stk[a] ELSE Junk]
  <2>1. t.stk = [a \in 1 .. s.msp[n - d + 1] |-> IF a <= Len(s.stk) THEN s.stk[a] ELSE Junk]
    BY DEF PopRdi, Machine
  <2> QED BY <1>1, <2>1
<1> HIDE DEF t, n
<1>5. \A i \in 1 .. s.msp[at] : s.stk[i] = t.stk[i]
  <2>1. \A i \in 1 .. s.msp[at] : i <= Len(s.stk)
    BY ONLY <1>1, <1>3
  <2> QED BY ONLY <1>4, <2>1
<1>6. /\ t \in Machine /\ Nested(t) /\ t.rax = s.rax
      /\ Len(t.msp) = at - 1 /\ (\A j \in 1 .. at - 1 : t.msp[j] = s.msp[j])
      /\ Len(t.stk) = s.msp[at] /\ Len(t.stk) > 0
  BY ONLY <1>1, <1>2
<1>7. Agree(s.stk, t.stk, s.msp[at])
  BY <1>5 DEF Agree
<1> QED BY <1>1, <1>3, <1>6, <1>7 DEF t, d, n

(* LeaveBlock from the innermost block: its position is restored, and the  *)
(* result if there is one.                                                 *)
LEMMA LeavesOne ==
  ASSUME NEW s \in Machine, Nested(s), NEW level, level = Len(s.msp), level > 0, NEW r \in BOOLEAN
  PROVE  LET t == LeaveBlock(s, r)
         IN /\ t \in Machine /\ Nested(t)
            /\ Carries(s, t, level, IF r THEN <<s.rax>> ELSE <<>>)
            /\ r => t.rax = s.rax
<1> DEFINE p == PopRdi(s, 1)
           q == s.msp[level]
           t == LeaveBlock(s, r)
<1>1. level \in Nat /\ level \in 1 .. Len(s.msp) /\ Len(s.msp) + 1 - level = 1 /\ level > 0
  BY MachineFields
<1>2. /\ p \in Machine /\ Nested(p) /\ p.rax = s.rax
      /\ Len(p.msp) = level - 1 /\ \A j \in 1 .. level - 1 : p.msp[j] = s.msp[j]
  <2>1. p = PopRdi(s, Len(s.msp) + 1 - level)
    BY <1>1
  <2> HIDE DEF p
  <2> QED BY <1>1, <2>1, RdiBack
<1>3. /\ Len(p.stk) = q /\ q \in Nat /\ q > 0 /\ q <= Len(s.stk) /\ Len(s.stk) \in Nat
      /\ \A i \in 1 .. q : s.stk[i] = p.stk[i]
  BY <1>1, RdiBack DEF Agree
<1>4. /\ s.rax \in Cells /\ \A i \in 1 .. Len(s.stk) : Row(s)[i] = s.stk[i]
  BY RowIs, MachineFields
<1>5. \A i \in 1 .. q : Row(s)[i] = p.stk[i]
  <2>1. \A i \in 1 .. q : i \in 1 .. Len(s.stk)
    BY <1>3
  <2> QED BY <1>3, <1>4, <2>1
<1>6. t \in Machine /\ Nested(t) /\ t.msp = p.msp
  <2>1. t \in Machine /\ Nested(t)
    BY <1>1, BlockLeft
  <2>2. t.msp = p.msp
    BY <1>2, <1>3, Contracted DEF LeaveBlock
  <2> QED BY <2>1, <2>2
<1>7. CASE r
  <2>1. t = p
    BY <1>7 DEF LeaveBlock
  <2> HIDE DEF t, p, q
  <2>2. /\ Row(p)[q + 1] = s.rax /\ \A i \in 1 .. q : Row(p)[i] = p.stk[i]
    BY ONLY <1>2, <1>3, RowIs
  <2>3. <<s.rax>> \in Seq(Cells) /\ Len(<<s.rax>>) = 1 /\ <<s.rax>>[1] = s.rax
    BY <1>4
  <2>4. /\ \A j \in 1 .. Len(<<s.rax>>) : Row(t)[q + j] = <<s.rax>>[j]
    BY ONLY <2>1, <2>2, <2>3
  <2>5. Agree(Row(s), Row(t), q) /\ Len(t.stk) + 1 = q + Len(<<s.rax>>)
    BY ONLY <1>3, <1>5, <2>1, <2>2, <2>3 DEF Agree
  <2>6. Carries(s, t, level, <<s.rax>>)
    BY ONLY <1>2, <1>6, <2>3, <2>4, <2>5 DEF Carries, q
  <2> QED BY <1>2, <1>6, <1>7, <2>1, <2>6 DEF t
<1>8. CASE ~r
  <2>1. t = PopContractStack(p)
    BY <1>8 DEF LeaveBlock
  <2> HIDE DEF t, p, q
  <2>2. Len(t.stk) = q - 1 /\ Agree(p.stk, Row(t), q)
    BY ONLY <1>2, <1>3, <2>1, ContractedRow
  <2>3. <<>> \in Seq(Cells) /\ Len(<<>>) = 0
    OBVIOUS
  <2>4. \A j \in 1 .. Len(<<>>) : Row(t)[q + j] = <<>>[j]
    BY ONLY <2>3
  <2>5. Agree(Row(s), Row(t), q) /\ Len(t.stk) + 1 = q + Len(<<>>)
    BY ONLY <1>3, <1>5, <2>2, <2>3 DEF Agree
  <2>6. Carries(s, t, level, <<>>)
    BY ONLY <1>2, <1>6, <2>3, <2>4, <2>5 DEF Carries, q
  <2> QED BY <1>6, <1>8, <2>6 DEF t
<1> QED BY <1>7, <1>8

(* LeaveBlocks from any depth. *)
LEMMA LeavesAll ==
  ASSUME NEW s \in Machine, Nested(s), NEW level \in 1 .. Len(s.msp), NEW r \in BOOLEAN
  PROVE  LET t == LeaveBlocks(s, Len(s.msp) - level, r)
         IN /\ t \in Machine /\ Nested(t)
            /\ Carries(s, t, level, IF r THEN <<s.rax>> ELSE <<>>)
            /\ r => t.rax = s.rax
<1> DEFINE n == Len(s.msp)
           d == n - level
<1>1. n \in Nat /\ d \in Nat /\ level \in Nat /\ level > 0
  BY MachineFields
<1>2. CASE d = 0
  <2>1. level = n
    BY <1>1, <1>2
  <2>2. LeaveBlocks(s, d, r) = LeaveBlock(s, r)
    BY <1>2 DEF LeaveBlocks
  <2> QED BY <1>1, <2>1, <2>2, LeavesOne
<1>3. CASE d # 0
  <2> DEFINE p == PopRdi(s, d)
             t == LeaveBlock(p, r)
             at == level + 1
  <2>1. at \in 1 .. n /\ d = n + 1 - at /\ at - 1 = level /\ level \in 1 .. level /\ level \in 1 .. at - 1
    <3>1. level \in 1 .. n /\ n \in Nat /\ n - level # 0
      BY <1>1, <1>3
    <3> HIDE DEF n
    <3> QED BY ONLY <3>1
  <2> HIDE DEF d, at
  <2>2. /\ p \in Machine /\ Nested(p) /\ p.rax = s.rax
        /\ Len(p.msp) = level /\ \A j \in 1 .. level : p.msp[j] = s.msp[j]
    BY <2>1, RdiBack
  <2>3. Len(p.stk) = s.msp[at] /\ Agree(s.stk, p.stk, s.msp[at]) /\ s.msp[at] <= Len(s.stk)
        /\ s.msp[at] \in Nat /\ Len(s.stk) \in Nat
    BY <2>1, RdiBack
  <2> HIDE DEF p
  <2>4. s.msp[level] \in Nat /\ s.msp[level] < s.msp[at]
    BY <2>1, MachineFields DEF Nested
  <2>5. Agree(Row(s), Row(p), s.msp[level])
    <3>1. \A i \in 1 .. s.msp[level] : i \in 1 .. s.msp[at] /\ i \in 1 .. Len(s.stk)
      BY ONLY <2>3, <2>4
    <3>2. \A i \in 1 .. Len(s.stk) : Row(s)[i] = s.stk[i]
      BY RowIs
    <3>3. \A i \in 1 .. s.msp[at] : Row(p)[i] = p.stk[i]
      BY ONLY <2>2, <2>3, RowIs
    <3>4. \A i \in 1 .. s.msp[at] : s.stk[i] = p.stk[i]
      BY ONLY <2>3 DEF Agree
    <3> QED BY ONLY <3>1, <3>2, <3>3, <3>4 DEF Agree
  <2>6. /\ t \in Machine /\ Nested(t)
        /\ Carries(p, t, level, IF r THEN <<p.rax>> ELSE <<>>)
        /\ r => t.rax = p.rax
    BY <1>1, <2>2, LeavesOne
  <2> HIDE DEF t
  <2>7. Carries(s, t, level, IF r THEN <<s.rax>> ELSE <<>>)
    <3> DEFINE left == IF r THEN <<s.rax>> ELSE <<>>
    <3>1. Carries(p, t, level, left)
      BY ONLY <2>2, <2>6
    <3> HIDE DEF left
    <3>2. p.msp[level] = s.msp[level]
      BY ONLY <2>1, <2>2
    <3>3. /\ Len(t.msp) = level - 1 /\ left \in Seq(Cells) /\ Len(t.stk) + 1 = s.msp[level] + Len(left)
          /\ \A j \in 1 .. Len(left) : Row(t)[s.msp[level] + j] = left[j]
      BY ONLY <3>1, <3>2 DEF Carries
    <3>4. \A j \in 1 .. level - 1 : t.msp[j] = s.msp[j]
      <4>1. \A j \in 1 .. level - 1 : j \in 1 .. level
        BY ONLY <1>1
      <4>2. \A j \in 1 .. level - 1 : t.msp[j] = p.msp[j]
        BY ONLY <3>1 DEF Carries
      <4> QED BY ONLY <2>2, <4>1, <4>2
    <3>5. Agree(Row(s), Row(t), s.msp[level])
      <4>1. Agree(Row(p), Row(t), s.msp[level])
        BY ONLY <3>1, <3>2 DEF Carries
      <4> QED BY ONLY <2>5, <4>1 DEF Agree
    <3>6. Carries(s, t, level, left)
      BY ONLY <3>3, <3>4, <3>5 DEF Carries
    <3> QED BY ONLY <3>6 DEF left
  <2>8. LeaveBlocks(s, d, r) = t
    BY <1>3 DEF LeaveBlocks, t, p
  <2> QED BY <2>2, <2>6, <2>7, <2>8 DEF d
<1> QED BY <1>2, <1>3

-----------------------------------------------------------------------------
(* The operands of an instruction.                                         *)

LEMMA HereIs ==
  ASSUME IInv, Live
  PROVE  /\ Wasm!Live /\ m \in Machine /\ Nested(m) /\ Level \in Nat \ {0} /\ Len(m.msp) = Level
         /\ m.msp # <<>> /\ Wasm!Here = Frames(m)[Level] /\ Top(m.msp) = m.msp[Level]
         /\ Spans(Wasm!Here, Row(m), Top(m.msp), Len(m.stk) + 1)
         /\ Len(Wasm!Here) = Depth /\ Depth \in Nat /\ Wasm!Level = Level
         /\ Len(m.stk) \in Nat /\ Top(m.msp) \in Nat
<1>1. m \in Machine /\ Nested(m) /\ Level \in Nat \ {0} /\ Len(m.msp) = Level /\ Active /\ jump = NoJump
  BY Running DEF Live
<1>2. Wasm!Live
  BY <1>1 DEF Wasm!Live, Wasm!Active, Wasm!NoJump, Active, NoJump
<1>3. m.msp # <<>>
  BY <1>1
<1>4. Len(Frames(m)) = Level
  BY <1>1, FramesAre
<1>5. Wasm!Here = Frames(m)[Level] /\ Top(m.msp) = m.msp[Level]
  BY <1>1, <1>4 DEF Wasm!Here, Wasm!Top, Top
<1>6. /\ m.msp[Level] > 0 /\ m.msp[Level] <= Len(m.stk) /\ Len(m.stk) \in Nat
      /\ Spans(Frames(m)[Level], Row(m), m.msp[Level], Len(m.stk) + 1)
  BY <1>1, InnermostIs
<1> DEFINE f == Frames(m)[Level]
<1>7. m.msp[Level] \in Nat /\ Len(f) = (Len(m.stk) + 1) - m.msp[Level] - 1
  BY ONLY <1>6 DEF Spans
<1> HIDE DEF f
<1>8. Len(f) = Depth /\ Depth \in Nat
  BY ONLY <1>5, <1>6, <1>7 DEF Depth
<1>9. Wasm!Level = Level
  BY DEF Wasm!Level, Level
<1> QED BY ONLY <1>1, <1>2, <1>3, <1>5, <1>6, <1>7, <1>8, <1>9 DEF f

LEMMA TakeIs ==
  ASSUME IInv, Live, NEW k \in Nat, Depth >= k
  PROVE  Wasm!Take(k) = Take(k) /\ Take(k) \in Seq(Cells) /\ Len(Take(k)) = k
<1> DEFINE here == Wasm!Here
           r == Row(m)
           l == Top(m.msp)
           c == Len(m.stk)
           d == Depth
           a == d - k + 1
           b == c - k + 2
           h == c + 1
           x == SubSeq(here, a, d)
           y == SubSeq(r, b, h)
<1>1. Spans(here, r, l, h) /\ Len(here) = d /\ d \in Nat /\ c \in Nat /\ l \in Nat /\ d = c - l /\ k <= d
  BY HereIs DEF Depth
<1>2. r \in Seq(Cells) /\ Len(r) = h
  BY HereIs, RowIs
<1>3. x = Wasm!Take(k) /\ y = Take(k)
  BY <1>1 DEF Wasm!Take, Take, Row
<1> HIDE DEF here, r, l, c, d, x, y
<1>4. /\ here \in Seq(Cells) /\ \A i \in 1 .. d : here[i] = r[l + 1 + i]
  <2>1. h - l - 1 = d
    BY ONLY <1>1
  <2>2. here \in Seq(Cells) /\ \A i \in 1 .. h - l - 1 : here[i] = r[l + 1 + i]
    BY ONLY <1>1 DEF Spans
  <2> QED BY ONLY <2>1, <2>2
<1>5. /\ a \in Nat \ {0} /\ a <= d + 1 /\ b \in Nat \ {0} /\ b <= h + 1 /\ h \in Nat
      /\ d - a + 1 = k /\ h - b + 1 = k
      /\ \A i \in 1 .. k : a + i - 1 \in 1 .. d /\ l + 1 + (a + i - 1) = b + i - 1
  <2>1. k \in Nat
    OBVIOUS
  <2> QED BY ONLY <1>1, <2>1
<1> HIDE DEF a, b, h
<1>6. x \in Seq(Cells) /\ Len(x) = d - a + 1 /\ \A i \in 1 .. d - a + 1 : x[i] = here[a + i - 1]
  BY ONLY <1>1, <1>4, <1>5, Part DEF x
<1>7. y \in Seq(Cells) /\ Len(y) = h - b + 1 /\ \A i \in 1 .. h - b + 1 : y[i] = r[b + i - 1]
  BY ONLY <1>2, <1>5, Part DEF y
<1>8. ASSUME NEW i \in 1 .. k PROVE x[i] = y[i]
  <2> DEFINE o == a + i - 1
  <2>1. x[i] = here[o] /\ y[i] = r[b + i - 1]
    BY ONLY <1>5, <1>6, <1>7
  <2>2. o \in 1 .. d /\ l + 1 + o = b + i - 1
    BY ONLY <1>5
  <2> HIDE DEF o
  <2>3. here[o] = r[l + 1 + o]
    BY ONLY <1>4, <2>2
  <2> QED BY ONLY <2>1, <2>2, <2>3
<1>9. x = y
  BY ONLY <1>5, <1>6, <1>7, <1>8, SeqEqual
<1>10. y \in Seq(Cells) /\ Len(y) = k
  BY ONLY <1>5, <1>7
<1> QED BY <1>3, <1>9, <1>10

(* The last operands by name. *)
LEMMA OperandsAre ==
  ASSUME IInv, Live
  PROVE  /\ Depth >= 1 => /\ Take(1) = <<m.rax>> /\ Wasm!Take(1) = <<m.rax>>
                          /\ Wasm!Top(Wasm!Here) = m.rax
         /\ Depth >= 2 => Take(2) = <<Top(m.stk), m.rax>> /\ Wasm!Take(2) = <<Top(m.stk), m.rax>>
         /\ Depth >= 3 => LET c == Len(m.stk)
                              w == Wasm!Take(3)
                          IN w[1] = m.stk[c - 1] /\ w[2] = m.stk[c] /\ w[3] = m.rax
<1> DEFINE c == Len(m.stk)
           r == Row(m)
<1>1. /\ r \in Seq(Cells) /\ c \in Nat /\ Len(r) = c + 1 /\ r[c + 1] = m.rax
      /\ \A i \in 1 .. c : r[i] = m.stk[i]
  BY HereIs, RowIs
<1>2. Depth <= c /\ Depth \in Nat
  <2>1. Depth = Len(m.stk) - Top(m.msp) /\ Depth \in Nat /\ Len(m.stk) \in Nat /\ Top(m.msp) \in Nat
    BY HereIs DEF Depth
  <2> QED BY ONLY <2>1
<1>3. ASSUME NEW k \in 1 .. 3, Depth >= k
      PROVE  /\ Wasm!Take(k) = Take(k) /\ Take(k) \in Seq(Cells) /\ Len(Take(k)) = k
             /\ \A i \in 1 .. k : Take(k)[i] = r[c + 1 - k + i]
  <2>1. Take(k) = SubSeq(r, c - k + 2, c + 1)
    BY DEF Take, Row
  <2> HIDE DEF r, c
  <2> DEFINE a == c - k + 2
             h == c + 1
  <2>2. /\ a \in Nat \ {0} /\ a <= h + 1 /\ h \in Nat /\ h <= Len(r) /\ h - a + 1 = k /\ k \in Nat
        /\ \A i \in 1 .. k : a + i - 1 = c + 1 - k + i
    BY <1>1, <1>2, <1>3
  <2> HIDE DEF a, h
  <2>3. \A i \in 1 .. h - a + 1 : SubSeq(r, a, h)[i] = r[a + i - 1]
    BY ONLY <1>1, <2>2, Part
  <2>4. Wasm!Take(k) = Take(k) /\ Take(k) \in Seq(Cells) /\ Len(Take(k)) = k
    BY <1>3, <2>2, TakeIs
  <2>5. \A i \in 1 .. k : SubSeq(r, a, h)[i] = r[c + 1 - k + i]
    BY ONLY <2>2, <2>3
  <2> QED BY ONLY <2>1, <2>4, <2>5 DEF a, h
<1> HIDE DEF r
<1>4. ASSUME Depth >= 1
      PROVE  Take(1) = <<m.rax>> /\ Wasm!Take(1) = <<m.rax>> /\ Wasm!Top(Wasm!Here) = m.rax
  <2> DEFINE w == Take(1)
  <2>1. Wasm!Take(1) = w /\ w \in Seq(Cells) /\ Len(w) = 1 /\ w[1] = r[c + 1 - 1 + 1]
    BY <1>3, <1>4
  <2> HIDE DEF w
  <2>2. c + 1 - 1 + 1 = c + 1
    BY ONLY <1>1
  <2>3. w = <<m.rax>>
    BY ONLY <1>1, <2>1, <2>2
  <2>4. Wasm!Top(Wasm!Here) = m.rax
    <3> DEFINE here == Wasm!Here
               l == Top(m.msp)
    <3>1. /\ Spans(here, Row(m), l, c + 1) /\ Len(here) = Depth /\ Depth = c - l /\ l \in Nat
      BY HereIs DEF Depth
    <3>2. Wasm!Top(here) = here[Depth]
      BY <3>1 DEF Wasm!Top
    <3> HIDE DEF here, l
    <3>3. \A i \in 1 .. (c + 1) - l - 1 : here[i] = Row(m)[l + 1 + i]
      BY ONLY <3>1 DEF Spans
    <3>4. Depth \in 1 .. (c + 1) - l - 1 /\ l + 1 + Depth = c + 1
      BY ONLY <1>1, <1>2, <1>4, <3>1
    <3>5. here[Depth] = Row(m)[c + 1]
      BY ONLY <3>3, <3>4
    <3> QED BY <1>1, <3>2, <3>5 DEF here, r
  <2> QED BY <2>1, <2>3, <2>4 DEF w
<1>5. ASSUME Depth >= 2
      PROVE  Take(2) = <<Top(m.stk), m.rax>> /\ Wasm!Take(2) = <<Top(m.stk), m.rax>>
  <2> DEFINE w == Take(2)
  <2>1. /\ Wasm!Take(2) = w /\ w \in Seq(Cells) /\ Len(w) = 2
        /\ w[1] = r[c + 1 - 2 + 1] /\ w[2] = r[c + 1 - 2 + 2]
    BY <1>3, <1>5
  <2>2. c + 1 - 2 + 1 = c /\ c + 1 - 2 + 2 = c + 1 /\ c \in 1 .. c
    BY ONLY <1>1, <1>2, <1>5
  <2>3. r[c] = Top(m.stk)
    BY <1>1, <2>2 DEF Top
  <2> HIDE DEF w, c
  <2>4. w = <<Top(m.stk), m.rax>>
    BY ONLY <1>1, <2>1, <2>2, <2>3
  <2> QED BY <2>1, <2>4 DEF w
<1>6. ASSUME Depth >= 3
      PROVE  LET w == Wasm!Take(3)
             IN w[1] = m.stk[c - 1] /\ w[2] = m.stk[c] /\ w[3] = m.rax
  <2> DEFINE w == Take(3)
  <2>1. /\ Wasm!Take(3) = w
        /\ w[1] = r[c + 1 - 3 + 1] /\ w[2] = r[c + 1 - 3 + 2] /\ w[3] = r[c + 1 - 3 + 3]
    BY <1>3, <1>6
  <2>2. c + 1 - 3 + 1 = c - 1 /\ c + 1 - 3 + 2 = c /\ c + 1 - 3 + 3 = c + 1 /\ c \in 1 .. c /\ c - 1 \in 1 .. c
    BY ONLY <1>1, <1>2, <1>6
  <2> HIDE DEF w, c
  <2> QED BY ONLY <1>1, <2>1, <2>2
<1> QED BY <1>4, <1>5, <1>6

-----------------------------------------------------------------------------
(* What each code sequence leaves.                                         *)

(* Code that takes k operands and ends with a value in rax.                *)
LEMMA ValueAbove ==
  ASSUME NEW s \in Machine, NEW t \in Machine, NEW k \in Nat, k <= Len(s.stk) + 1,
         NEW v \in Cells, t.rax = v, t.msp = s.msp,
         Len(t.stk) = Len(s.stk) + 1 - k, Agree(Row(s), t.stk, Len(s.stk) + 1 - k)
  PROVE  Leaves(s, t, k, <<v>>)
<1> DEFINE c == Len(s.stk)
           e == c + 1 - k
<1>1. c \in Nat /\ e \in Nat /\ Len(t.stk) = e /\ \A i \in 1 .. e : Row(s)[i] = t.stk[i]
  BY MachineFields DEF Agree
<1>2. Row(t)[Len(t.stk) + 1] = v /\ \A i \in 1 .. Len(t.stk) : Row(t)[i] = t.stk[i]
  BY RowIs
<1>3. Len(<<v>>) = 1 /\ <<v>>[1] = v
  OBVIOUS
<1>4. e = c - k + Len(<<v>>)
  BY <1>1, <1>3
<1> HIDE DEF e
<1>5. Agree(Row(s), Row(t), e) /\ \A j \in 1 .. Len(<<v>>) : Row(t)[e + j] = <<v>>[j]
  BY ONLY <1>1, <1>2, <1>3 DEF Agree
<1> QED BY <1>1, <1>4, <1>5 DEF Leaves, e

(* Code that takes one operand and leaves none.                            *)
LEMMA PopLeaves ==
  ASSUME NEW s \in Machine, Len(s.stk) > 0
  PROVE  Leaves(s, PopContractStack(s), 1, <<>>) /\ PopContractStack(s) \in Machine
<1> DEFINE t == PopContractStack(s)
           c == Len(s.stk)
<1>1. t \in Machine /\ t.msp = s.msp /\ Len(t.stk) = c - 1 /\ Agree(s.stk, Row(t), c)
  BY ContractedRow
<1>2. c \in Nat /\ \A i \in 1 .. c : Row(s)[i] = s.stk[i]
  BY RowIs
<1> HIDE DEF t, c
<1>3. Agree(Row(s), Row(t), c) /\ c + 1 - 1 = c /\ Len(<<>>) = 0
  BY ONLY <1>1, <1>2 DEF Agree
<1>4. Len(t.stk) = c - 1 + Len(<<>>) /\ Agree(Row(s), Row(t), c + 1 - 1)
  BY ONLY <1>1, <1>2, <1>3
<1>5. \A j \in 1 .. Len(<<>>) : Row(t)[c + 1 - 1 + j] = <<>>[j]
  BY ONLY <1>3
<1> QED BY ONLY <1>1, <1>4, <1>5 DEF Leaves, t, c

(* Memory below rdi, cut.                                                  *)
LEMMA CutStk ==
  ASSUME NEW s \in Machine, NEW e \in 0 .. Len(s.stk)
  PROVE  /\ SubSeq(s.stk, 1, e) \in Seq(Cells) /\ Len(SubSeq(s.stk, 1, e)) = e
         /\ Agree(Row(s), SubSeq(s.stk, 1, e), e)
<1> DEFINE z == s.stk
<1>1. z \in Seq(Cells) /\ e \in 0 .. Len(z) /\ Len(z) \in Nat /\ \A i \in 1 .. Len(z) : Row(s)[i] = z[i]
  BY RowIs, MachineFields
<1> HIDE DEF z
<1>2. /\ SubSeq(z, 1, e) \in Seq(Cells) /\ Len(SubSeq(z, 1, e)) = e
      /\ \A i \in 1 .. e : SubSeq(z, 1, e)[i] = z[i]
  BY ONLY <1>1, Prefix
<1>3. \A i \in 1 .. e : i \in 1 .. Len(z)
  BY ONLY <1>1
<1>4. Agree(Row(s), SubSeq(z, 1, e), e)
  BY ONLY <1>1, <1>2, <1>3 DEF Agree
<1> QED BY ONLY <1>2, <1>4 DEF z

LEMMA PushLeaves ==
  ASSUME NEW s \in Machine, NEW v \in Cells
  PROVE  LET t == [PushExpandStack(s) EXCEPT !.rax = v]
         IN t \in Machine /\ t.rax = v /\ Leaves(s, t, 0, <<v>>)
<1> DEFINE t == [PushExpandStack(s) EXCEPT !.rax = v]
<1>1. Row(s) \in Seq(Cells) /\ Len(s.stk) \in Nat /\ Len(Row(s)) = Len(s.stk) + 1
  BY RowIs
<1>2. t \in Machine /\ t.rax = v /\ t.msp = s.msp /\ t.stk = Row(s)
  BY <1>1 DEF PushExpandStack, Row, Machine
<1> HIDE DEF t
<1>3. Len(t.stk) = Len(s.stk) + 1 - 0 /\ Agree(Row(s), t.stk, Len(s.stk) + 1 - 0)
  BY <1>1, <1>2 DEF Agree
<1>4. 0 \in Nat /\ 0 <= Len(s.stk) + 1
  BY <1>1
<1>5. Leaves(s, t, 0, <<v>>)
  BY <1>2, <1>3, <1>4, ValueAbove
<1> QED BY <1>2, <1>5 DEF t

(* rax computed in place. *)
LEMMA RaxLeaves ==
  ASSUME NEW s \in Machine, NEW v \in Cells
  PROVE  LET t == [s EXCEPT !.rax = v]
         IN t \in Machine /\ Leaves(s, t, 1, <<v>>)
<1> DEFINE t == [s EXCEPT !.rax = v]
           c == Len(s.stk)
<1>1. t \in Machine /\ t.rax = v /\ t.msp = s.msp /\ t.stk = s.stk
  BY DEF Machine
<1>2. c \in Nat /\ \A i \in 1 .. c : Row(s)[i] = s.stk[i]
  BY RowIs
<1> HIDE DEF t
<1>3. 1 \in Nat /\ 1 <= c + 1 /\ c + 1 - 1 = c
  BY <1>2
<1>4. Len(t.stk) = c + 1 - 1 /\ Agree(Row(s), t.stk, c + 1 - 1)
  BY <1>1, <1>2, <1>3 DEF Agree
<1>5. Leaves(s, t, 1, <<v>>)
  BY <1>1, <1>3, <1>4, ValueAbove
<1> QED BY <1>1, <1>5 DEF t

(* rax computed from what was there and k cells below rdi. *)
LEMMA BelowLeaves ==
  ASSUME NEW s \in Machine, NEW k \in Nat, k <= Len(s.stk), NEW t \in Machine, NEW v \in Cells,
         t.rax = v, t.msp = s.msp, t.stk = SubSeq(s.stk, 1, Len(s.stk) - k)
  PROVE  Leaves(s, t, k + 1, <<v>>)
<1> DEFINE c == Len(s.stk)
           e == c - k
<1>1. c \in Nat /\ e \in 0 .. c /\ k + 1 \in Nat /\ k + 1 <= c + 1 /\ c + 1 - (k + 1) = e
  <2>1. c \in Nat /\ k \in Nat /\ k <= c
    BY MachineFields
  <2> HIDE DEF c
  <2> QED BY ONLY <2>1
<1> HIDE DEF e
<1>2. t.stk = SubSeq(s.stk, 1, e)
  BY DEF e
<1>3. Len(t.stk) = e /\ Agree(Row(s), t.stk, e)
  BY <1>1, <1>2, CutStk
<1> QED BY <1>1, <1>3, ValueAbove

LEMMA TwoLeave ==
  ASSUME NEW s \in Machine, Len(s.stk) > 0
  PROVE  LET v == Apply(<<Top(s.stk), s.rax>>)
         IN /\ v \in Cells
            /\ \A t \in {InOrder(s), Swapped(s), FromMemory(s)} : t \in Machine /\ Leaves(s, t, 2, <<v>>)
<1> DEFINE v == Apply(<<Top(s.stk), s.rax>>)
<1>1. s.rax \in Cells /\ Top(s.stk) \in Cells /\ Below(s.stk) \in Seq(Cells) /\ Len(s.stk) \in Nat
  BY TopCell, MachineFields
<1>2. v \in Cells
  BY <1>1, Applied
<1>3. Below(s.stk) = SubSeq(s.stk, 1, Len(s.stk) - 1) /\ 1 \in Nat /\ 1 <= Len(s.stk) /\ 1 + 1 = 2
  BY <1>1 DEF Below
<1> HIDE DEF v
<1>4. ASSUME NEW t \in {InOrder(s), Swapped(s), FromMemory(s)}
      PROVE  t \in Machine /\ t.rax = v /\ t.msp = s.msp /\ t.stk = Below(s.stk)
  <2>1. CASE t = InOrder(s)
    BY <1>1, <1>2, <2>1 DEF InOrder, PopSecondParam, Machine, v
  <2>2. CASE t = Swapped(s)
    BY <1>1, <1>2, <2>2 DEF Swapped, PopSecondParam, Machine, v
  <2>3. CASE t = FromMemory(s)
    BY <1>1, <1>2, <2>3 DEF FromMemory, Machine, v
  <2> QED BY <2>1, <2>2, <2>3
<1>5. ASSUME NEW t \in {InOrder(s), Swapped(s), FromMemory(s)}
      PROVE  t \in Machine /\ Leaves(s, t, 2, <<v>>)
  <2>1. t \in Machine /\ t.rax = v /\ t.msp = s.msp /\ t.stk = SubSeq(s.stk, 1, Len(s.stk) - 1)
    BY <1>3, <1>4
  <2>2. Leaves(s, t, 1 + 1, <<v>>)
    BY <1>2, <1>3, <2>1, BelowLeaves
  <2> QED BY <1>3, <2>1, <2>2
<1> QED BY <1>2, <1>5 DEF v

LEMMA SelectLeaves ==
  ASSUME NEW s \in Machine, Len(s.stk) > 1
  PROVE  LET c == Len(s.stk)
             v == IF s.rax # 0 THEN s.stk[c - 1] ELSE s.stk[c]
         IN v \in Cells /\ Selected(s) \in Machine /\ Leaves(s, Selected(s), 3, <<v>>)
<1> DEFINE c == Len(s.stk)
           v == IF s.rax # 0 THEN s.stk[c - 1] ELSE s.stk[c]
           t == Selected(s)
<1>1. s.stk \in Seq(Cells) /\ c \in Nat /\ c - 1 \in 1 .. c /\ c \in 1 .. c
  BY MachineFields
<1>2. v \in Cells
  BY <1>1, ElementOfSeq
<1>3. t \in Machine
  BY SelectedIsStraight DEF Straight
<1>4. t.rax = v /\ t.msp = s.msp /\ t.stk = SubSeq(s.stk, 1, c - 2)
  <2>1. c - 2 + 1 = c - 1 /\ c - 2 + 2 = c
    BY <1>1
  <2>2. /\ t.rax = s.stk[IF s.rax # 0 THEN c - 2 + 1 ELSE c - 2 + 2]
        /\ t.msp = s.msp /\ t.stk = SubSeq(s.stk, 1, c - 2)
    BY DEF Selected, Machine
  <2> HIDE DEF t, c
  <2> QED BY <2>1, <2>2
<1> HIDE DEF t, v
<1>5. 2 \in Nat /\ 2 <= c
  BY <1>1
<1>6. Leaves(s, t, 2 + 1, <<v>>)
  BY <1>2, <1>3, <1>4, <1>5, BelowLeaves
<1> QED BY <1>2, <1>3, <1>6 DEF t, v

-----------------------------------------------------------------------------
(* Straight-line instructions.                                             *)

(* Code that leaves what an instruction does is that instruction.          *)
LEMMA OperateIs ==
  ASSUME IInv, NEW k \in Nat, NEW t \in Machine, NEW left \in Seq(Cells), NEW shown,
         Operate(k, t, shown), Leaves(m, t, k, left)
  PROVE  Wasm!Operate(k, left, shown)
<1>1. Live /\ Depth >= k /\ m' = t /\ effect' = shown /\ UNCHANGED <<blocks, jump, returns, status>>
  BY DEF Operate
<1>2. /\ Wasm!Live /\ m \in Machine /\ Nested(m) /\ Level \in Nat \ {0} /\ Len(m.msp) = Level
      /\ m.msp # <<>> /\ Wasm!Here = Frames(m)[Level] /\ Top(m.msp) = m.msp[Level]
      /\ Len(Wasm!Here) = Depth /\ Len(m.stk) \in Nat /\ Top(m.msp) \in Nat
  BY <1>1, HereIs
<1>3. t.msp = m.msp /\ Len(t.stk) = Len(m.stk) - k + Len(left) /\ Len(left) \in Nat
  BY LenProperties DEF Leaves
<1>4. Nested(t)
  <2>1. Straight(m, t, k)
    BY <1>2, <1>3 DEF Straight
  <2>2. \A j \in 1 .. Len(m.msp) : m.msp[j] + k <= Len(m.stk)
    BY <1>1, Room
  <2> QED BY <1>2, <2>1, <2>2, StraightKeepsNested
<1>5. m.msp[Level] + k <= Len(m.stk)
  BY <1>1, <1>2 DEF Depth
<1>6. Frames(t) = Wasm!WithTop(Frames(m), SubSeq(Frames(m)[Level], 1, Len(Frames(m)[Level]) - k) \o left)
  <2>1. Level = Len(m.msp) /\ Level > 0
    BY <1>2
  <2>2. m \in Machine /\ Nested(m) /\ t \in Machine /\ k \in Nat /\ left \in Seq(Cells) /\ Leaves(m, t, k, left)
    BY <1>2
  <2> DEFINE l == Level
  <2> HIDE DEF l
  <2>3. l = Len(m.msp) /\ l > 0 /\ m.msp[l] + k <= Len(m.stk)
    BY ONLY <1>5, <2>1 DEF l
  <2>4. Frames(t) = Wasm!WithTop(Frames(m), SubSeq(Frames(m)[l], 1, Len(Frames(m)[l]) - k) \o left)
    BY ONLY <1>4, <2>2, <2>3, StraightFrames
  <2> QED BY ONLY <2>4 DEF l
<1>7. Frames(m)' = Wasm!WithTop(Frames(m), Wasm!Rest(k) \o left)
  BY <1>1, <1>2, <1>6 DEF Wasm!Rest, Frames
<1>8. UNCHANGED (IF m.msp = <<>> /\ returns THEN m.rax ELSE NoValue)
  BY <1>1, <1>2, <1>3
<1> QED BY <1>1, <1>2, <1>7, <1>8 DEF Wasm!Operate

LEMMA StraightLineRefines ==
  ASSUME IInv, Constructs = {},
         \/ \E v \in Values : Const(v) \/ ReadLocal(v) \/ ReadGlobal(v)
         \/ CurrentMemory \/ Load \/ Conversion \/ GrowMemory
         \/ IntCompare \/ Compare32 \/ Compare64 \/ Arithmetic \/ FloatOp
         \/ Drop \/ WriteLocal \/ TeeLocal \/ WriteGlobal \/ Select \/ Store
  PROVE  Wasm!WNext
<1>1. Live
  <2>1. ASSUME NEW k, NEW t, NEW shown, Operate(k, t, shown) PROVE Live
    BY <2>1 DEF Operate
  <2> QED BY <2>1 DEF Const, ReadLocal, ReadGlobal, CurrentMemory, Load, Conversion, GrowMemory,
               IntCompare, Compare32, Compare64, Arithmetic, FloatOp,
               Drop, WriteLocal, TeeLocal, WriteGlobal, Select, Store
<1>2. m \in Machine /\ m.rax \in Cells /\ Len(m.stk) \in Nat /\ Nested(m) /\ Len(m.stk) > 0
  <2>1. m \in Machine /\ Nested(m) /\ Len(m.stk) \in Nat /\ 0 \in Nat /\ Depth >= 0
    BY <1>1, HereIs
  <2> QED BY <1>1, <2>1, Room, MachineFields
<1>3. \A v \in Values : v \in Cells
  BY DEF Cells
<1>4. <<>> \in Seq(Cells) /\ \A v \in Cells : <<v>> \in Seq(Cells)
  OBVIOUS
<1>5. 0 \in Nat /\ 1 \in Nat /\ 2 \in Nat /\ 3 \in Nat /\ 1 \in 1 .. 2 /\ 2 \in 1 .. 2
  OBVIOUS
<1>6. ASSUME NEW v \in Values, Operate(0, [PushExpandStack(m) EXCEPT !.rax = v], <<>>)
      PROVE  Wasm!WNext
  <2> DEFINE t == [PushExpandStack(m) EXCEPT !.rax = v]
  <2>1. t \in Machine /\ Leaves(m, t, 0, <<v>>) /\ <<v>> \in Seq(Cells) /\ Operate(0, t, <<>>)
    BY <1>2, <1>3, <1>4, <1>6, PushLeaves
  <2> HIDE DEF t
  <2>2. Wasm!Operate(0, <<v>>, <<>>)
    BY <1>5, <2>1, OperateIs
  <2> QED BY <2>2 DEF Wasm!WNext, Wasm!Const
<1>7. ASSUME NEW v \in Values, Const(v) \/ ReadLocal(v) \/ ReadGlobal(v)
      PROVE  Wasm!WNext
  BY <1>6, <1>7 DEF Const, ReadLocal, ReadGlobal, PushC, GetLocal, GetGlobal
<1>8. CASE CurrentMemory
  <2>1. Apply(<<0>>) \in Values
    <3>1. 1 \in 0 .. MaxArgs + 2 /\ <<0>> \in [1 .. 1 -> Values]
      BY FramesAssumption
    <3> QED BY <3>1, FramesAssumption
  <2>2. CallAsmOp(PushC(m, 0)) = [PushExpandStack(m) EXCEPT !.rax = Apply(<<0>>)]
    <3> DEFINE p == PushExpandStack(m)
    <3>1. p \in Machine
      BY <1>2, Pushed
    <3> HIDE DEF p
    <3>2. [[p EXCEPT !.rax = 0] EXCEPT !.rax = Apply(<<[p EXCEPT !.rax = 0].rax>>)] = [p EXCEPT !.rax = Apply(<<0>>)]
      BY <3>1 DEF Machine
    <3> QED BY <3>2 DEF p, CallAsmOp, PushC, InRax
  <2> QED BY <1>6, <1>8, <2>1, <2>2 DEF CurrentMemory
<1>9. CASE Load \/ Conversion \/ GrowMemory
  <2> DEFINE v == Apply(<<m.rax>>)
             t == InRax(m)
  <2>1. Operate(1, t, <<>>)
    BY <1>9 DEF Load, Conversion, GrowMemory, LoadMem, Convert, CallAsmOp
  <2>2. Depth >= 1
    BY <2>1 DEF Operate
  <2>3. v \in Cells /\ <<v>> \in Seq(Cells)
    BY <1>2, <1>4, Applied
  <2>4. t = [m EXCEPT !.rax = v]
    BY DEF InRax
  <2> HIDE DEF t, v
  <2>5. t \in Machine /\ Leaves(m, t, 1, <<v>>)
    BY <1>2, <2>3, <2>4, RaxLeaves
  <2>6. Wasm!Operate(1, <<v>>, <<>>)
    BY <1>5, <2>1, <2>3, <2>5, OperateIs
  <2>7. Wasm!Take(1) = <<m.rax>>
    BY <1>1, <2>2, OperandsAre
  <2>8. Wasm!Compute(1)
    BY <2>6, <2>7 DEF Wasm!Compute, v
  <2> QED BY <1>5, <2>8 DEF Wasm!WNext
<1>10. CASE IntCompare \/ Compare32 \/ Arithmetic \/ FloatOp
  <2>1. PICK t \in {InOrder(m), Swapped(m), FromMemory(m)} : Operate(2, t, <<>>)
    BY <1>10 DEF IntCompare, Compare32, Arithmetic, FloatOp, Compare, FloatCompare, FloatArithmetic,
                 Add, Sub, Mul, Div, LogicOp
  <2>2. Depth >= 2
    BY <2>1 DEF Operate
  <2> DEFINE v == Apply(<<Top(m.stk), m.rax>>)
  <2>3. v \in Cells /\ t \in Machine /\ Leaves(m, t, 2, <<v>>)
    BY <1>2, TwoLeave
  <2>4. Wasm!Take(2) = <<Top(m.stk), m.rax>>
    BY <1>1, <2>2, OperandsAre
  <2> HIDE DEF v
  <2>5. <<v>> \in Seq(Cells)
    BY <1>4, <2>3
  <2>6. Wasm!Operate(2, <<v>>, <<>>)
    BY <1>5, <2>1, <2>3, <2>5, OperateIs
  <2>7. Wasm!Compute(2)
    BY <2>4, <2>6 DEF Wasm!Compute, v
  <2> QED BY <1>5, <2>7 DEF Wasm!WNext
<1>11. ASSUME NEW shown, Operate(1, PopContractStack(m), shown)
       PROVE  Wasm!Operate(1, <<>>, shown) /\ Wasm!Take(1) = <<m.rax>>
  <2> DEFINE t == PopContractStack(m)
  <2>1. t \in Machine /\ Leaves(m, t, 1, <<>>) /\ Operate(1, t, shown) /\ Depth >= 1
    BY <1>2, <1>11, PopLeaves DEF Operate
  <2> HIDE DEF t
  <2>2. Wasm!Operate(1, <<>>, shown)
    BY <1>4, <1>5, <2>1, OperateIs
  <2>3. Wasm!Take(1) = <<m.rax>>
    BY <1>1, <2>1, OperandsAre
  <2> QED BY <2>2, <2>3
<1>12. CASE Drop
  <2>1. Wasm!Operate(1, <<>>, <<>>)
    BY <1>11, <1>12 DEF Drop
  <2> QED BY <2>1 DEF Wasm!WNext, Wasm!Drop
<1>13. CASE WriteLocal \/ WriteGlobal
  <2>1. Wasm!Operate(1, <<>>, <<m.rax>>) /\ Wasm!Take(1) = <<m.rax>>
    BY <1>11, <1>13 DEF WriteLocal, WriteGlobal, SetLocal, SetGlobal
  <2> QED BY <2>1 DEF Wasm!WNext, Wasm!Set
<1>14. CASE TeeLocal
  <2>1. Operate(1, m, <<m.rax>>) /\ Depth >= 1
    BY <1>14 DEF TeeLocal, SetLocal, Operate
  <2>2. Leaves(m, m, 1, <<m.rax>>)
    <3>1. [m EXCEPT !.rax = m.rax] = m
      BY <1>2 DEF Machine
    <3>2. Leaves(m, [m EXCEPT !.rax = m.rax], 1, <<m.rax>>)
      BY <1>2, RaxLeaves
    <3> QED BY <3>1, <3>2
  <2>3. <<m.rax>> \in Seq(Cells)
    BY <1>2, <1>4
  <2>4. Wasm!Operate(1, <<m.rax>>, <<m.rax>>)
    BY <1>2, <1>5, <2>1, <2>2, <2>3, OperateIs
  <2>5. Wasm!Take(1) = <<m.rax>>
    BY <1>1, <2>1, OperandsAre
  <2> QED BY <2>4, <2>5 DEF Wasm!WNext, Wasm!Tee
<1>15. CASE Select
  <2> DEFINE c == Len(m.stk)
             v == IF m.rax # 0 THEN m.stk[c - 1] ELSE m.stk[c]
             t == Selected(m)
             w == Wasm!Take(3)
  <2>1. Operate(3, t, <<>>) /\ Depth >= 3
    BY <1>15 DEF Select
  <2>2. Len(m.stk) > 1
    <3>1. Len(m.stk) > 3
      BY <1>1, <1>5, <2>1, Room
    <3> QED BY <1>2, <3>1
  <2>3. v \in Cells /\ t \in Machine /\ Leaves(m, t, 3, <<v>>)
    BY <1>2, <2>2, SelectLeaves
  <2>4. w[1] = m.stk[c - 1] /\ w[2] = m.stk[c] /\ w[3] = m.rax
    BY <1>1, <2>1, OperandsAre
  <2>5. v = w[IF w[3] # 0 THEN 1 ELSE 2]
    <3> HIDE DEF w, c
    <3> QED BY <2>4
  <2> HIDE DEF v, t
  <2>6. Wasm!Operate(3, <<v>>, <<>>)
    BY <1>4, <1>5, <2>1, <2>3, OperateIs
  <2>7. Wasm!Live /\ Len(Wasm!Here) >= 3
    BY <2>6 DEF Wasm!Operate
  <2>8. Wasm!Select
    BY <2>5, <2>6, <2>7 DEF Wasm!Select
  <2> QED BY <2>8 DEF Wasm!WNext
<1>16. ~Compare64 /\ ~Store
  BY DEF Compare64, Store
<1> QED BY <1>7, <1>8, <1>9, <1>10, <1>12, <1>13, <1>14, <1>15, <1>16

(* A call leaves the operands below its own, and its result if it has one. *)
LEMMA CallLeaves ==
  ASSUME IInv, NEW args \in 0 .. MaxArgs, NEW r \in BOOLEAN, NEW i \in BOOLEAN,
         NEW c, c = args + IF i THEN 1 ELSE 0, CallIfn(args, r, i)
  PROVE  /\ c \in Nat /\ Live /\ Depth >= c
         /\ \E t \in Machine : \E v \in Cells :
              /\ Operate(c, t, Take(c)) /\ Leaves(m, t, c, IF r THEN <<v>> ELSE <<>>)
              /\ r => v = Apply(Take(c))
<1> DEFINE n      == Len(m.stk)
           e      == n + 1 - c
           popped == [m EXCEPT !.rax = Append(m.stk, m.rax)[n + 1 - c],
                               !.stk = SubSeq(@, 1, Len(@) - c)]
           saved  == EnterBlock(popped)
           v      == IF r THEN Apply(Take(c)) ELSE Junk
           back   == [saved EXCEPT !.rax = v, !.rcx = Junk]
           t      == LeaveBlock(back, r)
           level  == Len(m.msp) + 1
           left   == IF r THEN <<v>> ELSE <<>>
<1>1. c \in Nat /\ c \in 0 .. MaxArgs + 2
  BY FramesAssumption
<1>2. Live /\ Depth >= c /\ Operate(c, t, Take(c))
  BY DEF CallIfn
<1>3. /\ m \in Machine /\ Nested(m) /\ m.stk \in Seq(Cells) /\ m.rax \in Cells
      /\ n > c /\ n \in Nat /\ \A j \in 1 .. Len(m.msp) : m.msp[j] + c <= n
  BY <1>1, <1>2, HereIs, Room, MachineFields
<1>4. e \in Nat \ {0} /\ e \in 1 .. n + 1 /\ n - c \in 0 .. n /\ n - c + 1 = e /\ n - c = e - 1 /\ e - 1 \in 0 .. n
  <2> HIDE DEF n
  <2> QED BY ONLY <1>1, <1>3
<1>5. Row(m) \in Seq(Cells) /\ Len(Row(m)) = n + 1 /\ Row(m)[e] \in Cells
  BY <1>3, <1>4, RowIs, ElementOfSeq
<1>6. /\ SubSeq(m.stk, 1, e - 1) \in Seq(Cells) /\ Len(SubSeq(m.stk, 1, e - 1)) = e - 1
      /\ Agree(Row(m), SubSeq(m.stk, 1, e - 1), e - 1)
  BY <1>3, <1>4, CutStk
<1>7. popped \in Machine /\ popped.msp = m.msp /\ popped.rax = Row(m)[e] /\ popped.stk = SubSeq(m.stk, 1, e - 1)
  <2>1. popped = [m EXCEPT !.rax = Row(m)[e], !.stk = SubSeq(m.stk, 1, e - 1)]
    BY <1>4 DEF Row
  <2> HIDE DEF popped, e
  <2> QED BY <1>3, <1>5, <1>6, <2>1 DEF Machine
<1> HIDE DEF popped
<1>8. Nested(popped) /\ Len(popped.stk) = e - 1
  <2>1. Straight(m, popped, c)
    BY <1>1, <1>3, <1>4, <1>6, <1>7, StraightIf
  <2> QED BY <2>1, <1>1, <1>3, <1>6, <1>7, StraightKeepsNested
<1>9. /\ saved \in Machine /\ Nested(saved) /\ Len(saved.msp) = level /\ saved.msp[level] = e
      /\ \A j \in 1 .. Len(m.msp) : saved.msp[j] = m.msp[j]
  <2>1. /\ saved \in Machine /\ Nested(saved)
        /\ Len(saved.msp) = Len(popped.msp) + 1
        /\ saved.msp[Len(saved.msp)] = Len(popped.stk) + 1
        /\ \A j \in 1 .. Len(popped.msp) : saved.msp[j] = popped.msp[j]
    BY <1>7, <1>8, BlockEntered
  <2> HIDE DEF saved
  <2> QED BY <1>4, <1>7, <1>8, <2>1
<1>10. saved.stk = Row(popped)
  BY <1>7 DEF EnterBlock, PushRdi, PushExpandStack, Row, Machine
<1> HIDE DEF saved
<1>11. v \in Cells /\ Junk \in Cells
  <2>1. r => Apply(Take(c)) \in Cells
    BY <1>1, <1>2, TakeIsCells, FramesAssumption DEF Cells
  <2> QED BY <2>1 DEF Cells
<1> HIDE DEF v
<1>12. back \in Machine /\ back.msp = saved.msp /\ back.stk = saved.stk /\ back.rax = v
  BY <1>9, <1>11 DEF Machine
<1> HIDE DEF back
<1>13. Nested(back) /\ level = Len(back.msp) /\ level > 0 /\ level - 1 = Len(m.msp)
  <2>1. Len(m.msp) \in Nat
    BY <1>3, MachineFields
  <2> QED BY <1>9, <1>12, <2>1 DEF Nested
<1> HIDE DEF level
<1>14. t \in Machine /\ Carries(back, t, level, IF r THEN <<back.rax>> ELSE <<>>)
  BY <1>12, <1>13, LeavesOne
<1>15. Carries(back, t, level, left)
  BY ONLY <1>12, <1>14 DEF left
<1> HIDE DEF t, left, e, n
<1>16. Agree(Row(m), Row(back), e)
  <2>1. /\ \A x \in 1 .. Len(back.stk) : Row(back)[x] = back.stk[x]
        /\ Row(popped)[e] = Row(m)[e] /\ \A x \in 1 .. e - 1 : Row(popped)[x] = popped.stk[x]
    <3>1. \A x \in 1 .. Len(back.stk) : Row(back)[x] = back.stk[x]
      BY ONLY <1>12, RowIs
    <3>2. /\ Row(popped)[Len(popped.stk) + 1] = popped.rax
          /\ \A x \in 1 .. Len(popped.stk) : Row(popped)[x] = popped.stk[x]
      BY ONLY <1>7, RowIs
    <3>3. Len(popped.stk) + 1 = e /\ Len(popped.stk) = e - 1
      BY ONLY <1>4, <1>8
    <3> QED BY ONLY <1>7, <3>1, <3>2, <3>3
  <2>2. Len(back.stk) = e /\ back.stk = Row(popped)
    <3>1. Len(Row(popped)) = Len(popped.stk) + 1
      BY ONLY <1>7, RowIs
    <3> QED BY ONLY <1>4, <1>8, <1>10, <1>12, <3>1
  <2>3. \A x \in 1 .. e - 1 : Row(m)[x] = popped.stk[x]
    BY ONLY <1>6, <1>7 DEF Agree
  <2>4. \A x \in 1 .. e : x = e \/ x \in 1 .. e - 1
    BY ONLY <1>4
  <2> QED BY ONLY <2>1, <2>2, <2>3, <2>4 DEF Agree
<1>17. Leaves(m, t, c, left)
  <2>1. /\ Len(t.msp) = level - 1 /\ (\A j \in 1 .. level - 1 : t.msp[j] = back.msp[j])
        /\ left \in Seq(Cells) /\ Len(t.stk) + 1 = e + Len(left)
        /\ Agree(Row(back), Row(t), e) /\ \A j \in 1 .. Len(left) : Row(t)[e + j] = left[j]
    BY ONLY <1>9, <1>12, <1>15 DEF Carries
  <2>2. t.msp = m.msp
    <3>1. Len(t.msp) = Len(m.msp) /\ \A j \in 1 .. Len(m.msp) : t.msp[j] = m.msp[j]
      BY ONLY <1>9, <1>12, <1>13, <2>1
    <3>2. t.msp \in Seq(Nat) /\ m.msp \in Seq(Nat)
      BY <1>3, <1>14, MachineFields
    <3> QED BY ONLY <3>1, <3>2, SeqEqual
  <2>3. Len(t.stk) = n - c + Len(left)
    <3>1. Len(t.stk) \in Nat /\ Len(left) \in Nat
      BY ONLY <1>14, <2>1, MachineFields, LenProperties
    <3>2. Len(t.stk) + 1 = e + Len(left)
      BY ONLY <2>1
    <3>3. c \in Nat /\ n \in Nat /\ n - c + 1 = e
      BY ONLY <1>1, <1>3, <1>4
    <3> QED BY ONLY <3>1, <3>2, <3>3
  <2>4. Agree(Row(m), Row(t), e)
    BY ONLY <1>16, <2>1 DEF Agree
  <2> QED BY <2>1, <2>2, <2>3, <2>4 DEF Leaves, n, e
<1>18. r => v = Apply(Take(c))
  BY DEF v
<1> QED BY <1>1, <1>2, <1>11, <1>14, <1>17, <1>18 DEF left, t

LEMMA CallRefines ==
  ASSUME IInv, NEW args \in 0 .. MaxArgs, NEW r \in BOOLEAN, NEW i \in BOOLEAN, CallIfn(args, r, i)
  PROVE  Wasm!WNext
<1> DEFINE c == args + IF i THEN 1 ELSE 0
<1>1. /\ c \in Nat /\ Live /\ Depth >= c
      /\ \E t \in Machine : \E v \in Cells :
           /\ Operate(c, t, Take(c)) /\ Leaves(m, t, c, IF r THEN <<v>> ELSE <<>>)
           /\ r => v = Apply(Take(c))
  BY CallLeaves
<1> HIDE DEF c
<1>2. PICK t \in Machine, v \in Cells :
           /\ Operate(c, t, Take(c)) /\ Leaves(m, t, c, IF r THEN <<v>> ELSE <<>>)
           /\ r => v = Apply(Take(c))
  BY <1>1
<1> DEFINE left == IF r THEN <<v>> ELSE <<>>
<1>3. left \in Seq(Cells)
  BY <1>2
<1>4. left = IF r THEN <<Apply(Take(c))>> ELSE <<>>
  BY <1>2
<1>5. Operate(c, t, Take(c)) /\ Leaves(m, t, c, left)
  BY <1>2
<1> HIDE DEF left
<1>6. Wasm!Operate(c, left, Take(c))
  BY <1>1, <1>3, <1>5, OperateIs
<1>7. Wasm!Take(c) = Take(c)
  BY <1>1, TakeIs
<1>8. Wasm!Call(c, r)
  BY <1>4, <1>6, <1>7 DEF Wasm!Call
<1>9. Wasm!Live /\ c \in 0 .. Len(Wasm!Here)
  BY <1>1, HereIs
<1> QED BY <1>8, <1>9 DEF Wasm!WNext

-----------------------------------------------------------------------------
(* Instructions that move between blocks.                                  *)

LEMMA NothingMore ==
  ASSUME NEW S, NEW s \in Seq(S)
  PROVE  s \o <<>> = s
<1>1. <<>> \in Seq(S) /\ Len(<<>>) = 0 /\ Len(s) \in Nat
  BY EmptySeq, LenProperties
<1> DEFINE u == s \o <<>>
<1>2. u \in Seq(S) /\ Len(u) = Len(s) + 0 /\ \A i \in 1 .. Len(s) + 0 : u[i] = IF i <= Len(s) THEN s[i] ELSE <<>>[i - Len(s)]
  BY <1>1, ConcatProperties
<1> HIDE DEF u
<1>3. Len(u) = Len(s) /\ \A i \in 1 .. Len(s) : u[i] = s[i]
  BY ONLY <1>1, <1>2
<1>4. u = s
  BY <1>2, <1>3, SeqEqual
<1> QED BY ONLY <1>4 DEF u

(* A sequence of sequences whose last one stays as it is.                  *)
LEMMA SameTop ==
  ASSUME NEW fs \in Seq(Seq(Cells)), Len(fs) > 0
  PROVE  Wasm!WithTop(fs, Wasm!Top(fs) \o <<>>) = fs
<1> DEFINE e == fs[Len(fs)]
           S == Seq(Cells)
           u == Wasm!WithTop(fs, e)
<1>1. Len(fs) \in Nat /\ Len(fs) \in 1 .. Len(fs)
  BY LenProperties
<1>2. e \in Seq(Cells)
  BY <1>1, ElementOfSeq
<1>3. Wasm!Top(fs) \o <<>> = e
  <2> HIDE DEF e
  <2>1. e \o <<>> = e
    BY <1>2, NothingMore
  <2> QED BY <2>1 DEF e, Wasm!Top
<1> HIDE DEF S, e
<1>4. fs \in Seq(S) /\ e \in S
  BY <1>2 DEF S
<1>5. u \in Seq(S) /\ Len(u) = Len(fs) /\ u[Len(fs)] = e /\ \A k \in 1 .. Len(fs) - 1 : u[k] = fs[k]
  BY <1>4, WithTopIs
<1> HIDE DEF u
<1>6. \A k \in 1 .. Len(fs) : u[k] = fs[k]
  <2>1. \A k \in 1 .. Len(fs) : k = Len(fs) \/ k \in 1 .. Len(fs) - 1
    BY ONLY <1>1
  <2> QED BY <1>5, <2>1 DEF e
<1>7. u = fs
  BY <1>4, <1>5, <1>6, SeqEqual
<1> QED BY ONLY <1>3, <1>7 DEF u

(* What a branch carries from below its c operands.                        *)
LEMMA CarriedIs ==
  ASSUME IInv, Live, NEW c \in 0 .. 1, NEW v \in 0 .. 1, Depth >= c + v
  PROVE  LET here == Wasm!Here
         IN SubSeq(here, Len(here) - c - v + 1, Len(here) - c)
              = IF v = 1 THEN <<Row(m)[Len(m.stk) + 1 - c]>> ELSE <<>>
<1> DEFINE here == Wasm!Here
           d == Len(here)
           l == Top(m.msp)
           n == Len(m.stk)
           a == d - c - v + 1
           b == d - c
           x == SubSeq(here, a, b)
<1>1. /\ Spans(here, Row(m), l, n + 1) /\ d = Depth /\ d \in Nat /\ n \in Nat /\ l \in Nat /\ d = n - l
      /\ c \in 0 .. 1 /\ v \in 0 .. 1 /\ d >= c + v
  BY HereIs DEF Depth
<1> HIDE DEF here, d, l, n
<1>2. here \in Seq(Cells) /\ Len(here) = d /\ \A i \in 1 .. (n + 1) - l - 1 : here[i] = Row(m)[l + 1 + i]
  BY ONLY <1>1 DEF Spans, d
<1>3. /\ a \in Nat \ {0} /\ b \in Nat /\ a <= b + 1 /\ b <= d /\ b - a + 1 = v
      /\ v = 1 => a = b /\ b \in 1 .. (n + 1) - l - 1 /\ l + 1 + b = n + 1 - c /\ 1 + a - 1 = b
  BY ONLY <1>1
<1> HIDE DEF a, b
<1>4. x \in Seq(Cells) /\ Len(x) = b - a + 1 /\ \A i \in 1 .. b - a + 1 : x[i] = here[a + i - 1]
  BY ONLY <1>2, <1>3, Part
<1> HIDE DEF x
<1>5. CASE v = 1
  <2>1. x[1] = here[b]
    <3>1. 1 \in 1 .. b - a + 1 /\ a + 1 - 1 = b
      BY ONLY <1>3, <1>5
    <3> QED BY ONLY <1>4, <3>1
  <2>2. here[b] = Row(m)[n + 1 - c]
    BY ONLY <1>2, <1>3, <1>5
  <2> DEFINE y == Row(m)[n + 1 - c]
  <2>3. x \in Seq(Cells) /\ Len(x) = 1 /\ x[1] = y
    BY ONLY <1>3, <1>4, <1>5, <2>1, <2>2
  <2> HIDE DEF y
  <2>4. x = <<y>>
    BY ONLY <2>3
  <2> QED BY <1>5, <2>4 DEF x, a, b, n, d, here, y
<1>6. CASE v = 0
  <2>1. x = <<>>
    BY <1>3, <1>4, <1>6, EmptySeq
  <2> QED BY <1>6, <2>1 DEF x, a, b, n, d, here
<1> QED BY <1>1, <1>5, <1>6

(* What a machine, a level and a type must be for the path to leave there  *)
(* with v values, and what it leaves behind.                               *)
Leaving(s, level, v, r) ==
  /\ IInv /\ Live /\ s \in Machine /\ Nested(s) /\ level \in 1 .. Level /\ s.msp = m.msp
  /\ Agree(Row(m), Row(s), m.msp[level])
  /\ v \in 0 .. 1 /\ r \in BOOLEAN
  /\ level = 1 => (v = 1 <=> returns)
  /\ v = 1 => r
  /\ level # 1 => (r <=> v = 1)
Left(s, level, v, r) ==
  LET t == LeaveBlocks(s, Level - level, r)
      outer == SubSeq(Frames(m), 1, level - 1)
      taken == IF v = 1 THEN <<s.rax>> ELSE <<>>
  IN /\ t \in Machine /\ Nested(t) /\ (t.msp = <<>> <=> level = 1)
     /\ level = 1 => Frames(t) = <<>>
     /\ level # 1 => Frames(t) = Wasm!WithTop(outer, Wasm!Top(outer) \o taken)
     /\ (t.msp = <<>> /\ returns) <=> (level = 1 /\ v = 1)
     /\ t.msp = <<>> /\ returns => t.rax = s.rax


(* A path that leaves the block at a level, from a machine that agrees     *)
(* with m below it, and carries v values out.                              *)
LEMMA LeaveIs ==
  ASSUME NEW s, NEW level, NEW v, NEW r, Leaving(s, level, v, r)
  PROVE  Left(s, level, v, r)
<1> DEFINE t == LeaveBlocks(s, Level - level, r)
           outer == SubSeq(Frames(m), 1, level - 1)
           taken == IF v = 1 THEN <<s.rax>> ELSE <<>>
           left == IF r THEN <<s.rax>> ELSE <<>>
<1>0. /\ IInv /\ Live /\ s \in Machine /\ Nested(s) /\ level \in 1 .. Level /\ s.msp = m.msp
      /\ Agree(Row(m), Row(s), m.msp[level]) /\ v \in 0 .. 1 /\ r \in BOOLEAN
      /\ level = 1 => (v = 1 <=> returns)
      /\ v = 1 => r
      /\ level # 1 => (r <=> v = 1)
  BY DEF Leaving
<1>1. m \in Machine /\ Nested(m) /\ Len(m.msp) = Level /\ Level \in Nat
  BY <1>0, HereIs
<1>2. t \in Machine /\ Nested(t) /\ Carries(s, t, level, left) /\ (r => t.rax = s.rax)
  <2>1. level \in 1 .. Len(s.msp) /\ Level - level = Len(s.msp) - level
    BY <1>0, <1>1
  <2> QED BY <1>0, <2>1, LeavesAll
<1>3. Carries(m, t, level, left)
  <2>1. \A x \in 1 .. m.msp[level] : Row(t)[x] = Row(m)[x]
    BY <1>0, <1>2 DEF Carries, Agree
  <2> QED BY <1>0, <1>2, <2>1 DEF Carries, Agree
<1>4. level # 1 => left = taken
  BY <1>0
<1> HIDE DEF left, t, outer, taken
<1>5. /\ level = 1 => Frames(t) = <<>>
      /\ level # 1 => Frames(t) = Wasm!WithTop(outer, Wasm!Top(outer) \o left)
  <2>1. Wasm!Top(outer) = outer[Len(outer)]
    BY DEF Wasm!Top
  <2>2. level \in 1 .. Len(m.msp)
    BY <1>0, <1>1
  <2>3. outer = SubSeq(Frames(m), 1, level - 1)
    BY DEF outer
  <2>4. /\ level = 1 => Frames(t) = <<>>
        /\ level # 1 => Frames(t) = Wasm!WithTop(outer, outer[Len(outer)] \o left)
    BY ONLY <1>1, <1>2, <1>3, <2>2, <2>3, LeftFrames
  <2> QED BY ONLY <2>1, <2>4
<1>6. t.msp = <<>> <=> level = 1
  <2>1. Len(t.msp) = level - 1 /\ t.msp \in Seq(Nat)
    BY <1>2, MachineFields DEF Carries
  <2> QED BY <1>0, <2>1, EmptySeq
<1>7. (t.msp = <<>> /\ returns) <=> (level = 1 /\ v = 1)
  BY <1>0, <1>6
<1>8. t.msp = <<>> /\ returns => t.rax = s.rax
  BY <1>0, <1>2, <1>7
<1> QED BY <1>2, <1>4, <1>5, <1>6, <1>7, <1>8 DEF Left, t, outer, taken

LEMMA ActiveIs ==
  /\ Wasm!Active = Active /\ Wasm!Live = Live /\ Wasm!Level = Level /\ Wasm!NoJump = NoJump
  /\ \A k, r : Wasm!Block(k, r) = Block(k, r)
  /\ \A b : Wasm!Arity(b) = Arity(b) /\ Wasm!Yield(b) = Yield(b)
  /\ Wasm!Top(blocks) = Top(blocks) /\ Wasm!Below(blocks) = Below(blocks)
BY DEF Wasm!Active, Wasm!Live, Wasm!Level, Wasm!NoJump, Wasm!Block, Wasm!Arity, Wasm!Yield, Wasm!Top, Wasm!Below,
       Active, Live, Level, NoJump, Block, Arity, Yield, Top, Below

(* In a block, the function has no answer yet.                             *)
LEMMA NoAnswer ==
  ASSUME m.msp # <<>>, m'.msp # <<>>
  PROVE  UNCHANGED (IF m.msp = <<>> /\ returns THEN m.rax ELSE NoValue)
OBVIOUS

LEMMA EnterRefines ==
  ASSUME IInv, NEW k \in {"block", "loop"}, NEW r \in BOOLEAN, Enter(k, r)
  PROVE  Wasm!WNext
<1>1. /\ Active /\ blocks' = Append(blocks, Block(k, r)) /\ m' = IF Live THEN EnterBlock(m) ELSE m
      /\ effect' = <<>> /\ UNCHANGED <<jump, returns, status>>
  BY DEF Enter
<1>2. CASE Live
  <2>1. m \in Machine /\ Nested(m) /\ m.msp # <<>> /\ m' = EnterBlock(m)
    BY <1>1, <1>2, HereIs
  <2>2. Frames(m)' = Append(Frames(m), <<>>)
    BY <2>1, EnteredFrames DEF Frames
  <2>3. m'.msp # <<>>
    <3>1. Len(m'.msp) = Len(m.msp) + 1 /\ Len(m.msp) \in Nat
      BY <2>1, BlockEntered, MachineFields
    <3> QED BY <3>1
  <2>4. UNCHANGED (IF m.msp = <<>> /\ returns THEN m.rax ELSE NoValue)
    BY <2>1, <2>3, NoAnswer
  <2>5. Wasm!Enter(k, r)
    BY <1>1, <1>2, <2>2, <2>4, ActiveIs DEF Wasm!Enter
  <2> QED BY <2>5 DEF Wasm!WNext
<1>3. CASE ~Live
  <2>1. m' = m
    BY <1>1, <1>3
  <2>2. Frames(m)' = Frames(m) /\ UNCHANGED (IF m.msp = <<>> /\ returns THEN m.rax ELSE NoValue)
    BY <1>1, <2>1 DEF Frames
  <2>3. Wasm!Enter(k, r)
    BY <1>1, <1>3, <2>2, ActiveIs DEF Wasm!Enter
  <2> QED BY <2>3 DEF Wasm!WNext
<1> QED BY <1>2, <1>3

(* The condition of an if or a branch is dropped.                          *)
LEMMA Dropped ==
  ASSUME IInv, Live, Depth >= 1
  PROVE  LET t == PopContractStack(m)
         IN /\ t \in Machine /\ Nested(t) /\ t.msp = m.msp /\ t.rax = Top(m.stk)
            /\ Frames(t) = Wasm!WithTop(Frames(m), Wasm!Rest(1))
            /\ Agree(Row(m), Row(t), Len(m.stk))
            /\ \A level \in 1 .. Level : m.msp[level] + 1 <= Len(m.stk)
<1> DEFINE t == PopContractStack(m)
           here == Wasm!Here
           rest == SubSeq(here, 1, Len(here) - 1)
<1>1. /\ m \in Machine /\ Nested(m) /\ Level \in Nat \ {0} /\ Len(m.msp) = Level
      /\ here = Frames(m)[Level] /\ Top(m.msp) = m.msp[Level] /\ Len(here) = Depth /\ Depth \in Nat
      /\ Len(m.stk) \in Nat /\ Top(m.msp) \in Nat /\ here \in Seq(Cells)
  BY HereIs DEF Spans
<1>2. 1 \in Nat /\ Len(m.stk) > 1 /\ Len(m.stk) > 0 /\ \A j \in 1 .. Len(m.msp) : m.msp[j] + 1 <= Len(m.stk)
  BY <1>1, Room
<1>3. /\ t \in Machine /\ t.msp = m.msp /\ Len(t.stk) = Len(m.stk) - 1 /\ t.rax = Top(m.stk)
      /\ Agree(m.stk, Row(t), Len(m.stk)) /\ Leaves(m, t, 1, <<>>)
  BY <1>1, <1>2, ContractedRow, PopLeaves
<1> HIDE DEF t
<1>4. Nested(t)
  <2>1. Straight(m, t, 1)
    BY <1>1, <1>2, <1>3, StraightIf
  <2> QED BY <1>1, <1>2, <2>1, StraightKeepsNested
<1>5. Frames(t) = Wasm!WithTop(Frames(m), SubSeq(Frames(m)[Level], 1, Len(Frames(m)[Level]) - 1) \o <<>>)
  <2> DEFINE l == Level
             left == <<>>
  <2> HIDE DEF l, left
  <2>1. l = Len(m.msp) /\ l > 0 /\ m.msp[l] + 1 <= Len(m.stk) /\ m \in Machine /\ Nested(m) /\ 1 \in Nat
    BY <1>1, <1>2 DEF l
  <2>2. left \in Seq(Cells) /\ Leaves(m, t, 1, left)
    BY <1>3 DEF left
  <2>3. Frames(t) = Wasm!WithTop(Frames(m), SubSeq(Frames(m)[l], 1, Len(Frames(m)[l]) - 1) \o left)
    BY ONLY <1>3, <1>4, <2>1, <2>2, StraightFrames
  <2> QED BY ONLY <2>3 DEF l, left
<1>6. Frames(t) = Wasm!WithTop(Frames(m), rest \o <<>>)
  BY ONLY <1>1, <1>5
<1>7. rest \o <<>> = rest
  <2>1. Len(here) - 1 \in 0 .. Len(here)
    BY <1>1
  <2> HIDE DEF here
  <2>2. rest \in Seq(Cells)
    BY ONLY <1>1, <2>1, Prefix
  <2> HIDE DEF rest
  <2> QED BY ONLY <2>2, NothingMore
<1>8. rest = Wasm!Rest(1)
  BY DEF Wasm!Rest
<1>9. Agree(Row(m), Row(t), Len(m.stk))
  <2>1. \A x \in 1 .. Len(m.stk) : Row(m)[x] = m.stk[x]
    BY <1>1, RowIs
  <2> QED BY <1>3, <2>1 DEF Agree
<1> QED BY <1>1, <1>2, <1>3, <1>4, <1>6, <1>7, <1>8, <1>9 DEF t

LEMMA EnterIFRefines ==
  ASSUME IInv, NEW r \in BOOLEAN, EnterIF(r)
  PROVE  Wasm!WNext
<1>1. /\ Active /\ blocks' = Append(blocks, Block("if", r))
      /\ effect' = <<>> /\ UNCHANGED <<returns, status>>
      /\ Live => Depth >= 1
  BY DEF EnterIF
<1> DEFINE t == PopContractStack(m)
<1>2. CASE Live
  <2>1. /\ t \in Machine /\ Nested(t) /\ t.msp = m.msp
        /\ Frames(t) = Wasm!WithTop(Frames(m), Wasm!Rest(1)) /\ m.msp # <<>>
        /\ Len(Wasm!Here) >= 1 /\ Wasm!Top(Wasm!Here) = m.rax
    BY <1>1, <1>2, Dropped, HereIs, OperandsAre
  <2>2. \/ m.rax # 0 /\ m' = EnterBlock(t) /\ UNCHANGED jump
        \/ m.rax = 0 /\ m' = t /\ jump' = <<Level + 1, "else">>
    BY <1>2 DEF EnterIF
  <2>5. /\ Wasm!Active /\ Wasm!Live /\ Wasm!Level = Level /\ Len(Wasm!Here) >= 1 /\ Wasm!Top(Wasm!Here) = m.rax
        /\ blocks' = Append(blocks, Wasm!Block("if", r)) /\ effect' = <<>> /\ UNCHANGED status
    BY <1>1, <1>2, <2>1, ActiveIs
  <2> HIDE DEF t
  <2>3. CASE m.rax # 0 /\ m' = EnterBlock(t) /\ UNCHANGED jump
    <3>1. Frames(m)' = Append(Wasm!WithTop(Frames(m), Wasm!Rest(1)), <<>>)
      BY <2>1, <2>3, EnteredFrames DEF Frames
    <3>2. m'.msp # <<>>
      <4>1. Len(m'.msp) = Len(t.msp) + 1 /\ Len(t.msp) \in Nat
        BY <2>1, <2>3, BlockEntered, MachineFields
      <4> QED BY <4>1
    <3>3. UNCHANGED (IF m.msp = <<>> /\ returns THEN m.rax ELSE NoValue)
      BY <2>1, <3>2, NoAnswer
    <3>4. Wasm!If(r)
      <4>1. Wasm!Top(Wasm!Here) # 0 /\ UNCHANGED jump
        BY ONLY <2>3, <2>5
      <4> QED BY ONLY <2>5, <3>1, <3>3, <4>1, SMTT(30) DEF Wasm!If
    <3> QED BY <3>4 DEF Wasm!WNext
  <2>4. CASE m.rax = 0 /\ m' = t /\ jump' = <<Level + 1, "else">>
    <3>1. Frames(m)' = Wasm!WithTop(Frames(m), Wasm!Rest(1))
      BY <2>1, <2>4 DEF Frames
    <3>2. m'.msp # <<>>
      BY <2>1, <2>4
    <3>3. UNCHANGED (IF m.msp = <<>> /\ returns THEN m.rax ELSE NoValue)
      BY <2>1, <3>2, NoAnswer
    <3>4. Wasm!If(r)
      BY ONLY <2>4, <2>5, <3>1, <3>3 DEF Wasm!If
    <3> QED BY <3>4 DEF Wasm!WNext
  <2> QED BY <2>2, <2>3, <2>4
<1>3. CASE ~Live
  <2>1. m' = m /\ jump' = jump
    BY <1>3 DEF EnterIF
  <2>2. Frames(m)' = Frames(m) /\ UNCHANGED (IF m.msp = <<>> /\ returns THEN m.rax ELSE NoValue)
    BY <1>1, <2>1 DEF Frames
  <2>3. Wasm!If(r)
    BY <1>1, <1>3, <2>1, <2>2, ActiveIs DEF Wasm!If
  <2> QED BY <2>3 DEF Wasm!WNext
<1> QED BY <1>2, <1>3

(* The values that leave with the path from the innermost block.           *)
LEMMA LeaveToIs ==
  ASSUME IInv, Live, NEW v \in 0 .. 1, Depth = v, NEW r \in BOOLEAN,
         Level = 1 => (v = 1 <=> returns), v = 1 => r, Level # 1 => (r <=> v = 1),
         m' = LeaveBlock(m, r), UNCHANGED returns
  PROVE  Wasm!LeaveTo(Level, v)
<1> DEFINE t == LeaveBlocks(m, Level - Level, r)
           outer == SubSeq(Frames(m), 1, Level - 1)
           taken == IF v = 1 THEN <<m.rax>> ELSE <<>>
<1>1. /\ m \in Machine /\ Nested(m) /\ Level \in 1 .. Level /\ Level - Level = 0
      /\ m.msp \in Seq(Nat)
  BY HereIs, MachineFields
<1>2. t = m'
  BY <1>1 DEF LeaveBlocks
<1>3. Agree(Row(m), Row(m), m.msp[Level])
  BY DEF Agree
<1>4. /\ Level = 1 => Frames(t) = <<>>
      /\ Level # 1 => Frames(t) = Wasm!WithTop(outer, Wasm!Top(outer) \o taken)
      /\ (t.msp = <<>> /\ returns) <=> (Level = 1 /\ v = 1)
      /\ t.msp = <<>> /\ returns => t.rax = m.rax
  <2>1. Leaving(m, Level, v, r)
    BY <1>1, <1>3 DEF Leaving
  <2>2. Left(m, Level, v, r)
    BY <2>1, LeaveIs
  <2> QED BY <2>2 DEF Left
<1>5. taken = Wasm!Take(v)
  <2>1. v = 1 => Wasm!Take(v) = <<m.rax>>
    BY OperandsAre
  <2>2. v = 0 => Wasm!Take(v) = <<>>
    <3>1. v \in Nat /\ Depth >= v
      BY HereIs
    <3>2. Wasm!Take(v) \in Seq(Cells) /\ Len(Wasm!Take(v)) = v
      BY <3>1, TakeIs
    <3> QED BY <3>2, EmptySeq
  <2> QED BY <2>1, <2>2
<1>6. v = 1 => Wasm!Top(Wasm!Here) = m.rax
  BY OperandsAre
<1> HIDE DEF t, taken, outer
<1>7. Frames(m)' = IF Level = 1 THEN <<>> ELSE Wasm!WithTop(outer, Wasm!Top(outer) \o Wasm!Take(v))
  BY <1>2, <1>4, <1>5 DEF Frames
<1>8. (IF m.msp = <<>> /\ returns THEN m.rax ELSE NoValue)'
        = IF Level = 1 /\ v = 1 THEN Wasm!Top(Wasm!Here) ELSE NoValue
  BY <1>2, <1>4, <1>6
<1> QED BY <1>7, <1>8 DEF Wasm!LeaveTo, outer

LEMMA ElseRefines ==
  ASSUME IInv, BlocksInv, Constructs = {}, Else
  PROVE  Wasm!WNext
<1>1. /\ Active /\ Top(blocks).kind = "if" /\ blocks' = [blocks EXCEPT ![Level].kind = "else"]
      /\ effect' = <<>> /\ UNCHANGED <<returns, status>>
  BY DEF Else
<1>2. Level # 1
  <2>1. Level \in Nat \ {0} /\ Top(blocks) = blocks[Level]
    BY <1>1, Running DEF Top, Level
  <2>2. Level = 1 => blocks[Level] = Body(returns)
    BY <2>1 DEF BlocksInv
  <2> QED BY <1>1, <2>1, <2>2 DEF Body
<1>3. CASE Live
  <2>1. /\ Depth = Yield(Top(blocks)) /\ Top(blocks).yields
        /\ m' = LeaveBlock(m, TRUE) /\ jump' = <<Level, "end">>
    BY <1>3 DEF Else, Live, NoJump
  <2>2. Yield(Top(blocks)) = 1 /\ 1 \in 0 .. 1 /\ TRUE \in BOOLEAN
    BY <2>1 DEF Yield
  <2>3. Wasm!LeaveTo(Level, 1)
    BY <1>1, <1>2, <1>3, <2>1, <2>2, LeaveToIs
  <2>4. Len(Wasm!Here) = Depth
    BY <1>3, HereIs
  <2>5. Wasm!Else
    BY <1>1, <1>3, <2>1, <2>2, <2>3, <2>4, ActiveIs DEF Wasm!Else
  <2> QED BY <2>5 DEF Wasm!WNext
<1>4. CASE jump = <<Level, "else">>
  <2>1. ~Live
    BY <1>4 DEF Live, NoJump
  <2>2. m' = EnterBlock(m) /\ jump' = NoJump
    BY <1>4, <2>1 DEF Else
  <2>3. m \in Machine /\ Nested(m) /\ Level \in Nat \ {0} /\ Len(m.msp) = Level - 1
    BY <1>1, <1>4, Running DEF NoJump
  <2>4. Frames(m)' = Append(Frames(m), <<>>)
    BY <2>2, <2>3, EnteredFrames DEF Frames
  <2>5. m.msp # <<>> /\ m'.msp # <<>>
    <3>1. Len(m'.msp) = Len(m.msp) + 1 /\ Len(m.msp) > 0 /\ Len(m.msp) \in Nat
      BY <1>2, <2>2, <2>3, BlockEntered
    <3> QED BY <3>1
  <2>6. UNCHANGED (IF m.msp = <<>> /\ returns THEN m.rax ELSE NoValue)
    BY <2>5, NoAnswer
  <2>7. Wasm!Else
    BY <1>1, <1>4, <2>2, <2>4, <2>6, ActiveIs DEF Wasm!Else
  <2> QED BY <2>7 DEF Wasm!WNext
<1>5. CASE ~Live /\ jump # <<Level, "else">>
  <2>1. m' = m /\ jump' = jump
    BY <1>5 DEF Else
  <2>2. Frames(m)' = Frames(m) /\ UNCHANGED (IF m.msp = <<>> /\ returns THEN m.rax ELSE NoValue)
    BY <1>1, <2>1 DEF Frames
  <2>3. Wasm!Else
    BY <1>1, <1>5, <2>1, <2>2, ActiveIs DEF Wasm!Else
  <2> QED BY <2>3 DEF Wasm!WNext
<1> QED BY <1>3, <1>4, <1>5

LEMMA EndRefines ==
  ASSUME IInv, BlocksInv, End
  PROVE  Wasm!WNext
<1>1. /\ Active /\ (Top(blocks).kind = "if" => ~Top(blocks).yields) /\ blocks' = Below(blocks)
      /\ effect' = <<>> /\ UNCHANGED returns
      /\ status' = IF Level = 1 THEN "returned" ELSE status
  BY DEF End
<1>2. CASE Live
  <2> DEFINE b == Top(blocks)
             v == Yield(b)
             r == HasReturn(b)
  <2>1. Depth = v /\ m' = LeaveBlock(m, r) /\ jump' = jump
    BY <1>2 DEF End
  <2>2. v \in 0 .. 1 /\ r \in BOOLEAN
    BY DEF Yield, HasReturn
  <2>3. (Level = 1 => (v = 1 <=> returns)) /\ (v = 1 => r) /\ (Level # 1 => (r <=> v = 1))
    <3>1. b = blocks[Level] /\ Level \in 1 .. Level
      BY <1>1, Running DEF Top, Level
    <3>2. IF Level = 1 THEN b = Body(returns) ELSE HasReturn(b) <=> b.yields
      BY <3>1 DEF BlocksInv
    <3>3. v = 1 <=> b.yields
      BY DEF Yield
    <3>4. CASE Level = 1
      <4>1. b.type = "none" /\ b.yields = returns
        BY <3>2, <3>4 DEF Body
      <4> QED BY <3>3, <3>4, <4>1 DEF HasReturn
    <3>5. CASE Level # 1
      BY <3>2, <3>3, <3>5
    <3> QED BY <3>4, <3>5
  <2> HIDE DEF v, r
  <2>4. Wasm!LeaveTo(Level, v)
    BY <1>1, <1>2, <2>1, <2>2, <2>3, LeaveToIs
  <2>5. Len(Wasm!Here) = Depth
    BY <1>2, HereIs
  <2>6. Wasm!End
    BY <1>1, <1>2, <2>1, <2>4, <2>5, ActiveIs DEF Wasm!End, v
  <2> QED BY <2>6 DEF Wasm!WNext
<1>3. CASE ~Live
  <2>1. m' = m /\ jump[1] \in 1 .. Level
    BY <1>1, <1>3, Jumping DEF End
  <2>2. Frames(m)' = Frames(m) /\ UNCHANGED (IF m.msp = <<>> /\ returns THEN m.rax ELSE NoValue)
    BY <1>1, <2>1 DEF Frames
  <2>3. CASE jump[1] = Level
    <3>1. jump' = NoJump
      BY <1>3, <2>3 DEF End, LandsAt
    <3>2. Wasm!End
      BY <1>1, <2>2, <2>3, <3>1, ActiveIs DEF Wasm!End
    <3> QED BY <3>2 DEF Wasm!WNext
  <2>4. CASE jump[1] # Level
    <3>1. jump' = jump
      BY <1>3, <2>4 DEF End, LandsAt
    <3>2. jump[1] \in 1 .. Level - 1
      BY <1>1, <2>1, <2>4, Running
    <3>3. Wasm!End
      BY <1>1, <2>2, <3>1, <3>2, ActiveIs DEF Wasm!End
    <3> QED BY <3>3 DEF Wasm!WNext
  <2> QED BY <2>3, <2>4
<1> QED BY <1>2, <1>3

LEMMA RetRefines ==
  ASSUME IInv, BlocksInv, Ret
  PROVE  Wasm!WNext
<1>1. /\ Live /\ Active /\ Depth >= Yield(blocks[1]) /\ m' = PopBlocks(m) /\ status' = "returned"
      /\ effect' = <<>> /\ UNCHANGED <<blocks, jump, returns>>
  BY DEF Ret, Live
<1>2. m \in Machine /\ Level \in Nat \ {0} /\ Len(m.msp) = Level /\ m.msp \in Seq(Nat) /\ Len(Wasm!Here) = Depth
  BY <1>1, HereIs, MachineFields
<1>3. blocks[1] = Body(returns)
  <2>1. 1 \in 1 .. Level
    BY <1>2
  <2> QED BY <2>1 DEF BlocksInv
<1>4. m'.msp = <<>> /\ m'.rax = m.rax /\ m' \in Machine
  <2>1. Len(m.msp) - Level \in 0 .. Len(m.msp) /\ Len(m.msp) - Level = 0
    BY <1>2
  <2> DEFINE p == SubSeq(m.msp, 1, Len(m.msp) - Level)
  <2>2. p \in Seq(Nat) /\ Len(p) = 0
    BY <1>2, <2>1, Prefix
  <2>3. m' = [m EXCEPT !.msp = p]
    BY <1>1 DEF PopBlocks
  <2> HIDE DEF p
  <2>4. p = <<>>
    BY <2>2, EmptySeq
  <2> QED BY <1>2, <2>2, <2>3, <2>4 DEF Machine
<1>5. Frames(m') = <<>>
  <2>1. Nested(m') /\ Len(m'.msp) = 0
    BY <1>4 DEF Nested
  <2>2. Frames(m') \in Seq(Seq(Cells)) /\ Len(Frames(m')) = Len(m'.msp)
    <3> DEFINE s == m'
    <3>1. s \in Machine /\ Nested(s)
      BY <1>4, <2>1
    <3> HIDE DEF s
    <3>2. Frames(s) \in Seq(Seq(Cells)) /\ Len(Frames(s)) = Len(s.msp)
      BY <3>1, FramesAre
    <3> QED BY <3>2 DEF s
  <2> QED BY <2>1, <2>2, EmptySeq
<1>6. Frames(m)' = <<>>
  BY <1>5 DEF Frames
<1>7. blocks[1].yields = returns /\ (returns => Yield(blocks[1]) = 1)
  BY <1>3 DEF Body, Yield
<1>8. returns => Wasm!Top(Wasm!Here) = m.rax
  <2>1. returns => Depth >= 1
    BY <1>1, <1>7
  <2> QED BY <1>1, <2>1, OperandsAre
<1>9. (IF m.msp = <<>> /\ returns THEN m.rax ELSE NoValue)' = IF blocks[1].yields THEN Wasm!Top(Wasm!Here) ELSE NoValue
  BY <1>1, <1>4, <1>7, <1>8
<1>10. Wasm!Ret
  BY <1>1, <1>2, <1>6, <1>9, ActiveIs DEF Wasm!Ret
<1> QED BY <1>10 DEF Wasm!WNext

LEMMA UnreachableRefines ==
  ASSUME Unreachable
  PROVE  Wasm!WNext
<1>1. /\ Live /\ status' = "killed" /\ effect' = <<>> /\ UNCHANGED <<blocks, jump, m, returns>>
  BY DEF Unreachable
<1>2. Frames(m)' = Frames(m) /\ UNCHANGED (IF m.msp = <<>> /\ returns THEN m.rax ELSE NoValue)
  BY <1>1 DEF Frames
<1>3. Wasm!Unreachable
  BY <1>1, <1>2, ActiveIs DEF Wasm!Unreachable
<1> QED BY <1>3 DEF Wasm!WNext

(* A branch, from a machine that agrees with m but has lost the c operands *)
(* above the value it carries.                                             *)
LEMMA BranchIs ==
  ASSUME IInv, BlocksInv, Live, NEW level \in 1 .. Level, NEW b, b = blocks[level],
         NEW v, v = Arity(b), NEW c \in 0 .. 1, Depth >= c + v,
         NEW s \in Machine, Nested(s), s.msp = m.msp, Agree(Row(m), Row(s), m.msp[level]),
         v = 1 => s.rax = Row(m)[Len(m.stk) + 1 - c],
         NEW r \in BOOLEAN, v = 1 => r, level # 1 => (r <=> v = 1),
         BranchTo(level, s, r)
  PROVE  Wasm!Branch(level, c)
<1> DEFINE t == LeaveBlocks(s, Level - level, r)
           outer == SubSeq(Frames(m), 1, level - 1)
           here == Wasm!Here
           carried == SubSeq(here, Len(here) - c - v + 1, Len(here) - c)
           taken == IF v = 1 THEN <<s.rax>> ELSE <<>>
<1>1. v \in 0 .. 1 /\ Len(here) = Depth /\ m \in Machine /\ Nested(m) /\ Len(m.msp) = Level /\ m.msp # <<>>
  BY HereIs DEF Arity
<1>2. level = 1 => b = Body(returns) /\ b.kind = "fn" /\ (v = 1 <=> returns)
  <2>1. level = 1 => b = Body(returns)
    BY DEF BlocksInv
  <2> QED BY <2>1 DEF Body, Arity
<1>3. carried = taken
  <2>1. carried = IF v = 1 THEN <<Row(m)[Len(m.stk) + 1 - c]>> ELSE <<>>
    BY <1>1, CarriedIs
  <2> QED BY <2>1
<1>4. /\ t \in Machine /\ Nested(t) /\ (t.msp = <<>> <=> level = 1)
      /\ level = 1 => Frames(t) = <<>>
      /\ level # 1 => Frames(t) = Wasm!WithTop(outer, Wasm!Top(outer) \o taken)
      /\ (t.msp = <<>> /\ returns) <=> (level = 1 /\ v = 1)
      /\ t.msp = <<>> /\ returns => t.rax = s.rax
  <2>1. Leaving(s, level, v, r)
    BY <1>1, <1>2 DEF Leaving
  <2>2. Left(s, level, v, r)
    BY <2>1, LeaveIs
  <2> QED BY <2>2 DEF Left
<1>5. effect' = <<>> /\ UNCHANGED <<returns, status>>
  BY DEF BranchTo
<1>6. Wasm!Live /\ Len(here) >= c + v /\ Wasm!Arity(blocks[level]) = v
  BY <1>1, ActiveIs
<1>7. CASE b.kind = "loop"
  <2>1. m' = EnterBlock(t) /\ blocks' = SubSeq(blocks, 1, level) /\ UNCHANGED jump
    BY <1>7 DEF BranchTo
  <2>2. v = 0 /\ level # 1 /\ taken = <<>>
    BY <1>2, <1>7 DEF Arity
  <2>3. Frames(t) = outer
    <3>1. outer \in Seq(Seq(Cells)) /\ Len(outer) > 0
      <4> DEFINE fs == Frames(m)
                 n == level - 1
      <4>1. fs \in Seq(Seq(Cells)) /\ Len(fs) = Level /\ Level \in Nat
        BY <1>1, FramesAre, HereIs
      <4> HIDE DEF fs
      <4>2. n \in 0 .. Len(fs) /\ n > 0
        BY <2>2, <4>1
      <4> HIDE DEF n
      <4>3. SubSeq(fs, 1, n) \in Seq(Seq(Cells)) /\ Len(SubSeq(fs, 1, n)) = n
        BY ONLY <4>1, <4>2, Prefix
      <4> QED BY ONLY <4>2, <4>3 DEF fs, n
    <3> HIDE DEF outer, t, taken
    <3>2. Wasm!WithTop(outer, Wasm!Top(outer) \o <<>>) = outer
      BY <3>1, SameTop
    <3> QED BY <1>4, <2>2, <3>2
  <2> HIDE DEF t, outer, carried, taken
  <2>4. Frames(m)' = Append(outer, <<>>)
    <3>1. Frames(EnterBlock(t)) = Append(Frames(t), <<>>)
      BY ONLY <1>4, EnteredFrames
    <3>2. Frames(m)' = Frames(EnterBlock(t))
      BY <2>1 DEF Frames
    <3> QED BY ONLY <2>3, <3>1, <3>2
  <2>5. m'.msp # <<>>
    <3>1. Len(m'.msp) = Len(t.msp) + 1 /\ Len(t.msp) \in Nat
      BY <1>4, <2>1, BlockEntered, MachineFields
    <3> QED BY <3>1
  <2>6. UNCHANGED (IF m.msp = <<>> /\ returns THEN m.rax ELSE NoValue)
    BY <1>1, <2>5, NoAnswer
  <2> QED BY <1>5, <1>6, <1>7, <2>1, <2>4, <2>6 DEF Wasm!Branch, outer
<1>8. CASE b.kind # "loop"
  <2>1. m' = t /\ jump' = <<level, "end">> /\ UNCHANGED blocks
    BY <1>8 DEF BranchTo
  <2>2. v = 1 => Wasm!Top(carried) = s.rax
    <3>1. v = 1 => carried = <<s.rax>>
      BY <1>3
    <3> HIDE DEF carried
    <3>2. v = 1 => Len(carried) = 1 /\ carried[1] = s.rax
      BY ONLY <3>1
    <3> QED BY ONLY <3>2 DEF Wasm!Top
  <2> HIDE DEF t, outer, carried, taken
  <2>3. Frames(m)' = IF level = 1 THEN <<>> ELSE Wasm!WithTop(outer, Wasm!Top(outer) \o carried)
    BY <1>3, <1>4, <2>1 DEF Frames
  <2>4. (IF m.msp = <<>> /\ returns THEN m.rax ELSE NoValue)' = IF level = 1 /\ v = 1 THEN Wasm!Top(carried) ELSE NoValue
    BY <1>4, <1>5, <2>1, <2>2
  <2> QED BY <1>5, <1>6, <1>8, <2>1, <2>3, <2>4 DEF Wasm!Branch, outer, carried, here
<1> QED BY <1>7, <1>8

(* The type a branch leaves by says what it carries.                       *)
LEMMA ReturnIsArity ==
  ASSUME IInv, BlocksInv, Constructs = {}, NEW level \in 1 .. Level
  PROVE  /\ Arity(blocks[level]) \in 0 .. 1 /\ HasReturn(blocks[level]) \in BOOLEAN
         /\ Arity(blocks[level]) = 1 => HasReturn(blocks[level])
         /\ level # 1 /\ Allowed(blocks[level]) => (HasReturn(blocks[level]) <=> Arity(blocks[level]) = 1)
         /\ level = 1 => HasReturn(blocks[level]) /\ blocks[level].kind = "fn"
         /\ level # 1 => blocks[level].kind # "fn"
<1>1. CASE level = 1
  <2>1. blocks[level] = Body(returns)
    BY <1>1 DEF BlocksInv
  <2> QED BY <1>1, <2>1 DEF Body, Arity, HasReturn
<1>2. CASE level # 1
  <2>1. blocks[level].kind # "fn" /\ (HasReturn(blocks[level]) <=> blocks[level].yields)
    BY <1>2 DEF BlocksInv
  <2>2. HasReturn(blocks[level]) \in BOOLEAN /\ Arity(blocks[level]) \in 0 .. 1
    BY DEF HasReturn, Arity
  <2> QED BY <1>2, <2>1, <2>2 DEF Arity, Allowed
<1> QED BY <1>1, <1>2

LEMMA BrRefines ==
  ASSUME IInv, BlocksInv, Constructs = {}, NEW level \in 1 .. Level, Br(level)
  PROVE  Wasm!WNext
<1> DEFINE b == blocks[level]
           v == Arity(b)
           r == HasReturn(b)
<1>1. Live /\ Depth >= v /\ Allowed(b) /\ BranchTo(level, m, r)
  BY DEF Br
<1>2. v \in 0 .. 1 /\ r \in BOOLEAN /\ (v = 1 => r) /\ (level # 1 => (r <=> v = 1))
  BY <1>1, ReturnIsArity
<1>3. m \in Machine /\ Nested(m) /\ Depth \in Nat /\ Len(m.stk) \in Nat
  BY <1>1, HereIs
<1>4. Agree(Row(m), Row(m), m.msp[level]) /\ (v = 1 => m.rax = Row(m)[Len(m.stk) + 1 - 0])
  <2>1. Len(m.stk) + 1 - 0 = Len(m.stk) + 1 /\ Row(m)[Len(m.stk) + 1] = m.rax
    BY <1>3, RowIs
  <2> QED BY <2>1 DEF Agree
<1>5. Depth >= 0 + v /\ 0 \in 0 .. 1
  BY <1>1, <1>2
<1>6. b = blocks[level] /\ v = Arity(b)
  OBVIOUS
<1> HIDE DEF b, v, r
<1>7. Wasm!Branch(level, 0)
  BY <1>1, <1>2, <1>3, <1>4, <1>5, <1>6, BranchIs
<1> QED BY <1>7, ActiveIs DEF Wasm!WNext, Wasm!Br

(* What lies below a block's operands does not change with the condition.  *)
LEMMA BelowBlock ==
  ASSUME IInv, Live, Depth >= 1, NEW level \in 1 .. Level, NEW s, Agree(Row(m), Row(s), Len(m.stk))
  PROVE  Agree(Row(m), Row(s), m.msp[level])
<1>1. m.msp[level] + 1 <= Len(m.stk) /\ m.msp[level] \in Nat /\ Len(m.stk) \in Nat
  BY Dropped, HereIs, MachineFields
<1>2. \A x \in 1 .. m.msp[level] : x \in 1 .. Len(m.stk)
  BY <1>1
<1> QED BY <1>2 DEF Agree

LEMMA BrIfRefines ==
  ASSUME IInv, BlocksInv, Constructs = {}, NEW level \in 1 .. Level, BrIf(level)
  PROVE  Wasm!WNext
<1> DEFINE b == blocks[level]
           v == Arity(b)
           r == HasReturn(b)
           s == PopContractStack(m)
<1>1. /\ Live /\ Depth >= 1 + v /\ Allowed(b)
      /\ \/ m.rax # 0 /\ BranchTo(level, s, r)
         \/ m.rax = 0 /\ Operate(1, s, <<>>)
  BY DEF BrIf, JumpNIf
<1>2. v \in 0 .. 1 /\ r \in BOOLEAN /\ (v = 1 => r) /\ (level # 1 => (r <=> v = 1))
  BY <1>1, ReturnIsArity
<1>3. /\ m \in Machine /\ Depth \in Nat /\ Len(m.stk) \in Nat /\ Depth >= 1 /\ 1 \in Nat /\ Len(m.stk) > 1
      /\ Wasm!Live /\ Len(Wasm!Here) = Depth
  <2>1. m \in Machine /\ Depth \in Nat /\ Len(m.stk) \in Nat /\ Wasm!Live /\ Len(Wasm!Here) = Depth
    BY <1>1, HereIs
  <2>2. Depth >= 1 /\ 1 \in Nat
    BY <1>1, <1>2, <2>1
  <2> QED BY <1>1, <2>1, <2>2, Room
<1>4. /\ s \in Machine /\ Nested(s) /\ s.msp = m.msp /\ s.rax = Top(m.stk)
      /\ Agree(Row(m), Row(s), Len(m.stk)) /\ Leaves(m, s, 1, <<>>)
  BY <1>1, <1>3, Dropped, PopLeaves
<1>5. Wasm!Top(Wasm!Here) = m.rax
  BY <1>1, <1>3, OperandsAre
<1>6. b = blocks[level] /\ v = Arity(b) /\ Wasm!Arity(blocks[level]) = v
  BY ActiveIs
<1> HIDE DEF b, v, r, s
<1>7. CASE m.rax # 0 /\ BranchTo(level, s, r)
  <2>1. Agree(Row(m), Row(s), m.msp[level])
    BY <1>1, <1>3, <1>4, BelowBlock
  <2>2. s.rax = Row(m)[Len(m.stk) + 1 - 1]
    <3>1. Len(m.stk) + 1 - 1 = Len(m.stk) /\ Len(m.stk) \in 1 .. Len(m.stk)
      BY <1>3
    <3>2. Row(m)[Len(m.stk)] = m.stk[Len(m.stk)]
      BY <1>3, <3>1, RowIs
    <3> QED BY <1>4, <3>1, <3>2 DEF Top
  <2>3. 1 \in 0 .. 1
    OBVIOUS
  <2>4. Wasm!Branch(level, 1)
    BY <1>1, <1>2, <1>4, <1>6, <1>7, <2>1, <2>2, <2>3, BranchIs
  <2>5. Wasm!BrIf(level)
    BY <1>1, <1>3, <1>5, <1>6, <1>7, <2>4 DEF Wasm!BrIf
  <2> QED BY <2>5, ActiveIs DEF Wasm!WNext
<1>8. CASE m.rax = 0 /\ Operate(1, s, <<>>)
  <2>1. <<>> \in Seq(Cells)
    OBVIOUS
  <2>2. Wasm!Operate(1, <<>>, <<>>)
    BY <1>3, <1>4, <1>8, <2>1, OperateIs
  <2>3. Wasm!BrIf(level)
    BY <1>1, <1>3, <1>5, <1>6, <1>8, <2>2 DEF Wasm!BrIf
  <2> QED BY <2>3, ActiveIs DEF Wasm!WNext
<1> QED BY <1>1, <1>7, <1>8

LEMMA BrTableRefines ==
  ASSUME IInv, BlocksInv, Constructs = {}, NEW level \in 1 .. Level, NEW dflt \in 1 .. Level, BrTable(level, dflt)
  PROVE  Wasm!WNext
<1> DEFINE b == blocks[level]
           v == Arity(b)
           r == HasReturn(blocks[dflt])
           s == [m EXCEPT !.rax = Top(m.stk)]
<1>1. /\ Live /\ Depth >= 1 + v /\ v = Arity(blocks[dflt]) /\ SameReturn(b, blocks[dflt])
      /\ BranchTo(level, s, r)
  BY DEF BrTable
<1>2. v \in 0 .. 1 /\ r \in BOOLEAN /\ (v = 1 => r) /\ (level # 1 => (r <=> v = 1))
  <2>1. v \in 0 .. 1 /\ r \in BOOLEAN /\ (v = 1 => r)
    BY <1>1, ReturnIsArity
  <2>2. level # 1 => b.kind # "fn"
    BY ReturnIsArity
  <2>3. level # 1 => (r <=> v = 1)
    BY <1>1, <2>2 DEF SameReturn
  <2> QED BY <2>1, <2>3
<1>3. /\ m \in Machine /\ Nested(m) /\ Depth \in Nat /\ Len(m.stk) \in Nat /\ Depth >= 1 /\ 1 \in Nat
      /\ Len(m.stk) > 1
  <2>1. m \in Machine /\ Nested(m) /\ Depth \in Nat /\ Len(m.stk) \in Nat
    BY <1>1, HereIs
  <2>2. Depth >= 1 /\ 1 \in Nat
    BY <1>1, <1>2, <2>1
  <2> QED BY <1>1, <2>1, <2>2, Room
<1>4. Top(m.stk) \in Cells
  BY <1>3, TopCell
<1>5. s \in Machine /\ s.msp = m.msp /\ s.stk = m.stk /\ s.rax = Top(m.stk)
  BY <1>3, <1>4 DEF Machine
<1>6. b = blocks[level] /\ v = Arity(b)
  OBVIOUS
<1> HIDE DEF b, v, r, s
<1>7. Nested(s)
  BY <1>3, <1>5 DEF Nested
<1>8. Agree(Row(m), Row(s), Len(m.stk))
  <2>1. \A x \in 1 .. Len(m.stk) : Row(m)[x] = m.stk[x]
    BY <1>3, RowIs
  <2>2. \A x \in 1 .. Len(s.stk) : Row(s)[x] = s.stk[x]
    BY <1>5, RowIs
  <2> QED BY ONLY <1>5, <2>1, <2>2 DEF Agree
<1>9. Agree(Row(m), Row(s), m.msp[level])
  BY <1>1, <1>3, <1>8, BelowBlock
<1>10. s.rax = Row(m)[Len(m.stk) + 1 - 1] /\ 1 \in 0 .. 1
  <2>1. Len(m.stk) + 1 - 1 = Len(m.stk) /\ Len(m.stk) \in 1 .. Len(m.stk)
    BY <1>3
  <2>2. Row(m)[Len(m.stk)] = m.stk[Len(m.stk)]
    BY <1>3, <2>1, RowIs
  <2> QED BY <1>5, <2>1, <2>2 DEF Top
<1>11. Wasm!Branch(level, 1)
  BY <1>1, <1>2, <1>5, <1>6, <1>7, <1>9, <1>10, BranchIs
<1> QED BY <1>11, ActiveIs DEF Wasm!WNext, Wasm!BrTable

-----------------------------------------------------------------------------
(* The invariant holds, and every step is a step of WasmStack.             *)

LEMMA BlocksKept ==
  ASSUME IInv, BlocksInv, [Next]_vars
  PROVE  BlocksInv'
<1>1. blocks \in Seq(Blocks) /\ Level \in Nat
  BY LenProperties DEF IInv, TypeOK, Level
<1>2. UNCHANGED returns
  <2>1. \A k, s, shown : Operate(k, s, shown) => UNCHANGED returns
    BY DEF Operate
  <2>2. \A level, s, r : BranchTo(level, s, r) => UNCHANGED returns
    BY DEF BranchTo
  <2>3. CASE \/ \E v \in Values : Const(v) \/ ReadLocal(v) \/ ReadGlobal(v)
             \/ CurrentMemory \/ Load \/ Conversion \/ GrowMemory
             \/ IntCompare \/ Compare32 \/ Compare64 \/ Arithmetic \/ FloatOp
             \/ Drop \/ WriteLocal \/ TeeLocal \/ WriteGlobal \/ Select \/ Store
    BY ONLY <2>1, <2>3, Zenon DEF Const, ReadLocal, ReadGlobal, CurrentMemory, Load, Conversion, GrowMemory,
       IntCompare, Compare32, Compare64, Arithmetic, FloatOp, Drop, WriteLocal, TeeLocal, WriteGlobal, Select, Store
  <2>4. CASE \E c \in 0 .. MaxArgs, r, i \in BOOLEAN : CallIfn(c, r, i)
    BY ONLY <2>1, <2>4, Zenon DEF CallIfn
  <2>5. CASE \/ \E k \in {"block", "loop"}, r \in BOOLEAN : Enter(k, r)
             \/ \E r \in BOOLEAN : EnterIF(r)
             \/ Else \/ End \/ Ret \/ Unreachable
    BY ONLY <2>5, Zenon DEF Enter, EnterIF, Else, End, Ret, Unreachable
  <2>6. CASE \/ \E level \in 1 .. Level : Br(level) \/ BrIf(level)
             \/ \E level, dflt \in 1 .. Level : BrTable(level, dflt)
    BY ONLY <2>1, <2>2, <2>6, Zenon DEF Br, BrIf, BrTable
  <2>7. CASE UNCHANGED vars
    BY <2>7 DEF vars
  <2> QED BY <2>3, <2>4, <2>5, <2>6, <2>7, Zenon DEF Next
<1>3. ASSUME UNCHANGED blocks PROVE BlocksInv'
  BY <1>2, <1>3 DEF BlocksInv, Level
<1>4. ASSUME NEW k \in {"block", "loop", "if"}, NEW r \in BOOLEAN, Active, blocks' = Append(blocks, Block(k, r))
      PROVE  BlocksInv'
  <2> DEFINE e == Block(k, r)
  <2>1. e \in Blocks /\ e.kind # "fn" /\ (HasReturn(e) <=> e.yields)
    BY DEF Block, Blocks, Kinds, HasReturn
  <2>2. Level > 0
    BY <1>4, Running
  <2> HIDE DEF e
  <2>3. Len(blocks') = Level + 1 /\ blocks'[Level + 1] = e /\ \A j \in 1 .. Level : blocks'[j] = blocks[j]
    BY <1>1, <1>4, <2>1, Extended DEF Level, e
  <2>4. ASSUME NEW j \in 1 .. Level + 1
        PROVE  IF j = 1 THEN blocks'[j] = Body(returns)
                        ELSE blocks'[j].kind # "fn" /\ (HasReturn(blocks'[j]) <=> blocks'[j].yields)
    <3>1. CASE j = Level + 1
      BY <1>1, <2>1, <2>2, <2>3, <3>1
    <3>2. CASE j # Level + 1
      <4>1. j \in 1 .. Level
        BY <1>1, <3>2
      <4> QED BY <2>3, <4>1 DEF BlocksInv
    <3> QED BY <3>1, <3>2
  <2> QED BY <1>2, <2>3, <2>4 DEF BlocksInv, Level
<1>5. ASSUME NEW n \in 0 .. Level, blocks' = SubSeq(blocks, 1, n) PROVE BlocksInv'
  <2>1. Len(blocks') = n /\ \A j \in 1 .. n : blocks'[j] = blocks[j]
    BY <1>1, <1>5, Prefix DEF Level
  <2>2. \A j \in 1 .. n : j \in 1 .. Level
    BY <1>1
  <2> QED BY <1>2, <2>1, <2>2 DEF BlocksInv, Level
<1>6. CASE Else
  <2>1. /\ Active /\ Top(blocks).kind = "if" /\ blocks' = [blocks EXCEPT ![Level].kind = "else"]
    BY <1>6 DEF Else
  <2>2. Level \in 1 .. Level /\ Top(blocks) = blocks[Level] /\ blocks[Level] \in Blocks
    BY <2>1, Running DEF Top, Level
  <2>3. Level # 1
    BY <2>1, <2>2 DEF BlocksInv, Body
  <2>4. /\ Len(blocks') = Level /\ \A j \in 1 .. Level : j # Level => blocks'[j] = blocks[j]
        /\ blocks'[Level] = [blocks[Level] EXCEPT !.kind = "else"]
    BY <1>1, <2>1, <2>2, ExceptSeq DEF Level
  <2>5. blocks'[Level].kind # "fn" /\ (HasReturn(blocks'[Level]) <=> blocks'[Level].yields)
    <3>1. HasReturn(blocks[Level]) <=> blocks[Level].yields
      BY <2>2, <2>3 DEF BlocksInv
    <3> QED BY <2>2, <2>4, <3>1 DEF HasReturn, Blocks
  <2>6. ASSUME NEW j \in 1 .. Level
        PROVE  IF j = 1 THEN blocks'[j] = Body(returns)
                        ELSE blocks'[j].kind # "fn" /\ (HasReturn(blocks'[j]) <=> blocks'[j].yields)
    BY <2>3, <2>4, <2>5 DEF BlocksInv
  <2> QED BY <1>2, <2>4, <2>6 DEF BlocksInv, Level
<1>7. CASE End
  <2>1. Active /\ blocks' = SubSeq(blocks, 1, Level - 1) /\ Level - 1 \in 0 .. Level
    BY <1>7, Running DEF End, Below, Level
  <2> QED BY <1>5, <2>1
<1>8. CASE \E level \in 1 .. Level : Br(level) \/ BrIf(level) \/ \E dflt \in 1 .. Level : BrTable(level, dflt)
  <2>1. ASSUME NEW level \in 1 .. Level, NEW s, NEW r, BranchTo(level, s, r) PROVE BlocksInv'
    <3>1. UNCHANGED blocks \/ blocks' = SubSeq(blocks, 1, level)
      BY <2>1 DEF BranchTo
    <3>2. level \in 0 .. Level
      BY <1>1
    <3> QED BY <1>3, <1>5, <3>1, <3>2
  <2>2. ASSUME NEW k, NEW t, NEW shown, Operate(k, t, shown) PROVE BlocksInv'
    BY <1>3, <2>2 DEF Operate
  <2> QED BY <1>8, <2>1, <2>2 DEF Br, BrIf, BrTable
<1>9. CASE \E k \in {"block", "loop"}, r \in BOOLEAN : Enter(k, r)
  BY <1>4, <1>9 DEF Enter
<1>10. CASE \E r \in BOOLEAN : EnterIF(r)
  BY <1>4, <1>10 DEF EnterIF
<1>11. CASE Ret \/ Unreachable \/ UNCHANGED vars
  BY <1>3, <1>11 DEF Ret, Unreachable, vars
<1>12. CASE \E c \in 0 .. MaxArgs, r, i \in BOOLEAN : CallIfn(c, r, i)
  BY <1>3, <1>12 DEF CallIfn, Operate
<1>13. CASE \/ \E v \in Values : Const(v) \/ ReadLocal(v) \/ ReadGlobal(v)
            \/ CurrentMemory \/ Load \/ Conversion \/ GrowMemory
            \/ IntCompare \/ Compare32 \/ Compare64 \/ Arithmetic \/ FloatOp
            \/ Drop \/ WriteLocal \/ TeeLocal \/ WriteGlobal \/ Select \/ Store
  BY <1>3, <1>13 DEF Operate, Const, ReadLocal, ReadGlobal, CurrentMemory, Load, Conversion, GrowMemory,
         IntCompare, Compare32, Compare64, Arithmetic, FloatOp, Drop, WriteLocal, TeeLocal, WriteGlobal,
         Select, Store
<1> QED BY <1>6, <1>7, <1>8, <1>9, <1>10, <1>11, <1>12, <1>13 DEF Next

LEMMA StepRefines ==
  ASSUME IInv, BlocksInv, Constructs = {}, [Next]_vars
  PROVE  [Wasm!WNext]_Wasm!wvars
<1>1. CASE UNCHANGED vars
  BY <1>1 DEF vars, Wasm!wvars, Frames
<1>2. CASE Next
  <2>1. CASE \E c \in 0 .. MaxArgs, r, i \in BOOLEAN : CallIfn(c, r, i)
    BY <2>1, CallRefines
  <2>2. CASE \E k \in {"block", "loop"}, r \in BOOLEAN : Enter(k, r)
    BY <2>2, EnterRefines
  <2>3. CASE \E r \in BOOLEAN : EnterIF(r)
    BY <2>3, EnterIFRefines
  <2>4. CASE Else \/ End
    BY <2>4, ElseRefines, EndRefines
  <2>5. CASE \E level \in 1 .. Level : Br(level) \/ BrIf(level)
    BY <2>5, BrRefines, BrIfRefines
  <2>6. CASE \E level, dflt \in 1 .. Level : BrTable(level, dflt)
    BY <2>6, BrTableRefines
  <2>7. CASE Ret \/ Unreachable
    BY <2>7, RetRefines, UnreachableRefines
  <2>8. CASE \/ \E v \in Values : Const(v) \/ ReadLocal(v) \/ ReadGlobal(v)
             \/ CurrentMemory \/ Load \/ Conversion \/ GrowMemory
             \/ IntCompare \/ Compare32 \/ Compare64 \/ Arithmetic \/ FloatOp
             \/ Drop \/ WriteLocal \/ TeeLocal \/ WriteGlobal \/ Select \/ Store
    BY <2>8, StraightLineRefines
  <2> QED BY <1>2, <2>1, <2>2, <2>3, <2>4, <2>5, <2>6, <2>7, <2>8 DEF Next
<1> QED BY <1>1, <1>2

LEMMA InitRefines ==
  ASSUME Init
  PROVE  Wasm!WInit /\ BlocksInv
<1>1. /\ returns \in BOOLEAN /\ blocks = <<Body(returns)>> /\ jump = NoJump /\ m = EnterBlock(Start)
      /\ effect = <<>> /\ status = "running"
  BY DEF Init, FnPrologue
<1>2. Start \in Machine /\ Start.msp = <<>>
  <2>1. Junk \in Cells /\ <<>> \in Seq(Cells) /\ <<>> \in Seq(Nat)
    BY DEF Cells
  <2> QED BY <2>1 DEF Start, Machine
<1>3. Len(Start.msp) = 0 /\ Nested(Start)
  BY <1>2 DEF Nested
<1>4. Frames(Start) = <<>>
  <2>1. Frames(Start) \in Seq(Seq(Cells)) /\ Len(Frames(Start)) = 0
    BY <1>2, <1>3, FramesAre
  <2> QED BY <2>1, EmptySeq
<1>5. Frames(m) = << <<>> >>
  <2>1. Frames(m) = Append(Frames(Start), <<>>)
    BY <1>1, <1>2, <1>3, EnteredFrames
  <2>2. Append(<<>>, <<>>) = << <<>> >>
    OBVIOUS
  <2> QED BY <1>4, <2>1, <2>2
<1>6. m.msp # <<>>
  <2>1. Len(m.msp) = 0 + 1
    BY <1>1, <1>2, <1>3, BlockEntered
  <2> QED BY <2>1
<1>7. Wasm!WInit
  <2>1. Wasm!Body(returns) = Body(returns)
    BY DEF Wasm!Body, Body
  <2>2. \E r \in BOOLEAN : blocks = <<Wasm!Body(r)>>
    BY <1>1, <2>1
  <2> QED BY <1>1, <1>5, <1>6, <2>2, ActiveIs DEF Wasm!WInit
<1>8. BlocksInv
  <2>1. Level = 1 /\ blocks[1] = Body(returns)
    BY <1>1 DEF Level
  <2> QED BY <2>1 DEF BlocksInv
<1> QED BY <1>7, <1>8

(* Code from bytecode that uses none of the five constructs does what the  *)
(* bytecode means (CompileFn and what it emits, JitWriter.cpp).            *)
THEOREM CodeImplementsWasm == Constructs = {} => (Spec => ImplementsWasm)
<1> SUFFICES ASSUME Constructs = {} PROVE Spec => ImplementsWasm
  OBVIOUS
<1>1. Init => Wasm!WInit /\ BlocksInv
  BY InitRefines
<1>2. IInv /\ BlocksInv /\ [Next]_vars => BlocksInv' /\ [Wasm!WNext]_Wasm!wvars
  BY BlocksKept, StepRefines
<1>3. Spec => []IInv
  BY IInvAlways
<1> QED BY <1>1, <1>2, <1>3, PTL DEF Spec, ImplementsWasm, Wasm!WSpec
=============================================================================
