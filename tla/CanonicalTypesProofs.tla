------------------------ MODULE CanonicalTypesProofs ------------------------
(***************************************************************************)
(* The canonicalisation loop of LoadModule is correct for every number of  *)
(* types, every number of functions and every set of signatures.           *)
(***************************************************************************)
EXTENDS CanonicalTypes, TLAPS

(* FunctionTypeEntry::operator== is an equivalence relation, in spite of   *)
(* the return_type it skips when the function returns nothing.             *)
LEMMA SameTypeEquivalence ==
  ASSUME NEW a, NEW b, NEW c
  PROVE  /\ SameType(a, a)
         /\ SameType(a, b) => SameType(b, a)
         /\ SameType(a, b) /\ SameType(b, c) => SameType(a, c)
BY DEF SameType

(* A type has one canonical index: what makes index equality decide it.    *)
LEMMA CanonicalUnique ==
  ASSUME TypeOK, NEW e \in TypeIdx, NEW f \in TypeIdx,
         NEW i \in TypeIdx, NEW j \in TypeIdx,
         IsCanonical(i, e), IsCanonical(j, f)
  PROVE  i = j <=> SameType(types[e], types[f])
<1>1. ASSUME i = j PROVE SameType(types[e], types[f])
  <2>1. SameType(types[i], types[e]) /\ SameType(types[i], types[f])
    BY <1>1 DEF IsCanonical
  <2> QED  BY <2>1, SameTypeEquivalence
<1>2. ASSUME SameType(types[e], types[f]) PROVE i = j
  <2>1. SameType(types[i], types[f]) /\ SameType(types[j], types[e])
    BY <1>2, SameTypeEquivalence DEF IsCanonical
  <2>2. ~(i < j) /\ ~(j < i)
    BY <2>1 DEF IsCanonical, TypeIdx
  <2> QED  BY <2>2 DEF TypeIdx
<1> QED  BY <1>1, <1>2

LEMMA InitIInv == Init => IInv
<1> SUFFICES ASSUME Init PROVE IInv
  OBVIOUS
<1>1. TypeOK
  <2>1. 0 \in TypeIdx /\ 0 \in 0 .. NEntries
    BY SizesAssumption DEF TypeIdx
  <2> QED  BY <2>1 DEF Init, TypeOK
<1>2. PrefixCanonical
  BY DEF Init, PrefixCanonical, EntryIdx
<1>3. ScanInvariant
  BY DEF Init, ScanInvariant
<1> QED  BY <1>1, <1>2, <1>3 DEF IInv

(* Store(i) keeps the table right when i is the canonical index of cur.    *)
LEMMA StorePreserves ==
  ASSUME TypeOK, PrefixCanonical, cur \in EntryIdx, UNCHANGED <<types, declared>>,
         NEW i \in TypeIdx, IsCanonical(i, declared[cur]), Store(i)
  PROVE  /\ entries' \in [EntryIdx -> TypeIdx]
         /\ cur' \in 0 .. NEntries
         /\ PrefixCanonical'
         /\ scanning' = FALSE
<1>1. entries' \in [EntryIdx -> TypeIdx] /\ cur' \in 0 .. NEntries /\ scanning' = FALSE
  BY SizesAssumption DEF TypeOK, Store, EntryIdx
<1>2. ASSUME NEW e \in EntryIdx
      PROVE  IF e < cur' THEN IsCanonical(entries'[e], declared[e])
                         ELSE entries'[e] = declared[e]
  <2>1. CASE e = cur
    BY <2>1, <1>1 DEF TypeOK, Store, EntryIdx
  <2>2. CASE e # cur
    <3>1. e < cur' <=> e < cur
      BY <2>2 DEF TypeOK, Store, EntryIdx
    <3>2. entries'[e] = entries[e]
      BY <2>2 DEF TypeOK, Store
    <3> QED  BY <3>1, <3>2 DEF PrefixCanonical
  <2> QED  BY <2>1, <2>2
<1> QED  BY <1>1, <1>2 DEF PrefixCanonical, IsCanonical

LEMMA BeginPreserves == IInv /\ Begin => IInv'
<1> SUFFICES ASSUME IInv, Begin PROVE IInv'
  OBVIOUS
<1>1. /\ TypeOK /\ PrefixCanonical /\ cur \in EntryIdx
      /\ entries[cur] = declared[cur] /\ declared[cur] \in TypeIdx
      /\ UNCHANGED <<types, declared>>
  BY DEF IInv, Begin, PrefixCanonical, TypeOK, EntryIdx
<1>2. idx' \in TypeIdx /\ itrType' \in TypeIdx
  BY <1>1 DEF Begin, AtIndex
<1>3. CASE entries[cur] = 0 /\ Store(0)
  <2>1. IsCanonical(0, declared[cur]) /\ 0 \in TypeIdx
    BY <1>1, <1>3, SameTypeEquivalence DEF IsCanonical
  <2>2. /\ entries' \in [EntryIdx -> TypeIdx] /\ cur' \in 0 .. NEntries
        /\ PrefixCanonical' /\ scanning' = FALSE
    BY <1>1, <1>3, <2>1, StorePreserves
  <2> QED  BY <1>1, <1>2, <2>2 DEF IInv, TypeOK, ScanInvariant
<1>4. CASE entries[cur] # 0 /\ scanning' = TRUE /\ UNCHANGED <<entries, cur>>
  <2>1. TypeOK' /\ PrefixCanonical'
    BY <1>1, <1>2, <1>4 DEF TypeOK, PrefixCanonical, IsCanonical
  <2>2. idx' = declared[cur] /\ itrType' = declared[cur] /\ declared[cur] > 0
    BY <1>1, <1>4 DEF Begin, AtIndex, TypeIdx
  <2>3. ScanInvariant'
    BY <1>1, <1>4, <2>2, SameTypeEquivalence DEF ScanInvariant, TypeIdx
  <2> QED  BY <2>1, <2>3 DEF IInv
<1> QED  BY <1>3, <1>4 DEF Begin

LEMMA ScanPreserves == IInv /\ Scan => IInv'
<1> SUFFICES ASSUME IInv, Scan PROVE IInv'
  OBVIOUS
<1> DEFINE t == itrType - 1
           i == IF SameType(types[t], types[idx]) THEN t ELSE idx
<1>1. /\ TypeOK /\ PrefixCanonical /\ cur \in EntryIdx
      /\ 0 < itrType /\ itrType <= idx
      /\ SameType(types[idx], types[declared[cur]])
      /\ \A k \in itrType .. idx - 1 : ~SameType(types[k], types[declared[cur]])
      /\ UNCHANGED <<types, declared>> /\ itrType' = t /\ idx' = i
  BY DEF IInv, ScanInvariant, Scan, Adopt
<1>2. t \in TypeIdx /\ i \in TypeIdx /\ t <= i
  <2>1. t \in TypeIdx /\ idx \in TypeIdx /\ t <= idx
    BY <1>1, SizesAssumption DEF TypeOK, TypeIdx
  <2> QED  BY <2>1, SizesAssumption DEF TypeIdx
<1>3. SameType(types[i], types[declared[cur]])
  BY <1>1, SameTypeEquivalence
<1>4. \A k \in t .. i - 1 : ~SameType(types[k], types[declared[cur]])
  <2>1. CASE SameType(types[t], types[idx])
    BY <2>1, <1>2 DEF TypeIdx
  <2>2. CASE ~SameType(types[t], types[idx])
    <3>1. ~SameType(types[t], types[declared[cur]])
      BY <2>2, <1>1, SameTypeEquivalence
    <3> QED  BY <3>1, <2>2, <1>1, <1>2 DEF TypeIdx, TypeOK
  <2> QED  BY <2>1, <2>2
<1>5. CASE t # 0 /\ UNCHANGED <<entries, cur, scanning>>
  <2>1. TypeOK' /\ PrefixCanonical'
    BY <1>1, <1>2, <1>5 DEF TypeOK, PrefixCanonical, IsCanonical
  <2>2. 0 < itrType' /\ itrType' <= idx' /\ cur' \in EntryIdx
    <3>1. 0 < t
      BY <1>1, <1>5, SizesAssumption DEF TypeOK, TypeIdx
    <3>2. t <= i /\ itrType' = t /\ idx' = i /\ cur' = cur /\ cur \in EntryIdx
      BY <1>1, <1>2, <1>5
    <3> QED  BY <3>1, <3>2
  <2>3. types' = types /\ declared' = declared /\ cur' = cur
    BY <1>1, <1>5
  <2>4. ScanInvariant'
    BY <1>1, <1>3, <1>4, <2>2, <2>3 DEF ScanInvariant
  <2> QED  BY <2>1, <2>4 DEF IInv
<1>6. CASE t = 0 /\ Store(i)
  <2>1. IsCanonical(i, declared[cur])
    BY <1>3, <1>4, <1>6 DEF IsCanonical
  <2>2. /\ entries' \in [EntryIdx -> TypeIdx] /\ cur' \in 0 .. NEntries
        /\ PrefixCanonical' /\ scanning' = FALSE
    BY <1>1, <1>2, <1>6, <2>1, StorePreserves
  <2> QED  BY <1>1, <1>2, <2>2 DEF IInv, TypeOK, ScanInvariant
<1> QED  BY <1>5, <1>6 DEF Scan, AtBegin, Adopt

LEMMA StutterPreserves == IInv /\ UNCHANGED vars => IInv'
BY DEF IInv, vars, TypeOK, PrefixCanonical, IsCanonical, ScanInvariant

(* The inductive invariant of ITypeCanonicalFromIType's scan inside        *)
(* LoadModule's loop.                                                      *)
THEOREM IInvAlways == Spec => []IInv
<1>1. IInv /\ [Next]_vars => IInv'
  BY BeginPreserves, ScanPreserves, StutterPreserves DEF Next
<1> QED  BY <1>1, InitIInv, PTL DEF Spec

(* Every processed entry holds the first index of its type (LoadModule     *)
(* lines 431-434), for any module.                                         *)
THEOREM PrefixCanonicalAlways == Spec => [](TypeOK /\ PrefixCanonical)
<1>1. IInv => TypeOK /\ PrefixCanonical
  BY DEF IInv
<1> QED  BY <1>1, IInvAlways, PTL

(* The index comparison CallIndirectShim makes decides structural type     *)
(* equality, for any module.                                               *)
THEOREM IndexEqualityAlways == Spec => []IndexEqualityIsTypeEquality
<1>1. IInv => IndexEqualityIsTypeEquality
  <2> SUFFICES ASSUME IInv, NEW e \in EntryIdx, NEW f \in EntryIdx, e < cur, f < cur
               PROVE  entries[e] = entries[f]
                        <=> SameType(types[declared[e]], types[declared[f]])
    BY DEF IndexEqualityIsTypeEquality
  <2>1. IsCanonical(entries[e], declared[e]) /\ IsCanonical(entries[f], declared[f])
    BY DEF IInv, PrefixCanonical
  <2> QED  BY <2>1, CanonicalUnique DEF IInv, TypeOK
<1> QED  BY <1>1, IInvAlways, PTL

(* The scan never leaves m_vecfn_types and every index it stores names a   *)
(* type: the iterator of ITypeCanonicalFromIType stops at begin().         *)
THEOREM TypeOKAlways == Spec => []TypeOK
<1>1. IInv => TypeOK
  BY DEF IInv
<1> QED  BY <1>1, IInvAlways, PTL

=============================================================================
