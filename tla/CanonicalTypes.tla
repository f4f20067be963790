--------------------------- MODULE CanonicalTypes ---------------------------
(***************************************************************************)
(* Canonicalisation of function types (src/lib/WasmContext.cpp).           *)
(*                                                                         *)
(* A module may declare one function type several times.  call_indirect    *)
(* compares type *indices* in assembly, so LoadModule first replaces every *)
(* entry of m_vecfn_entries by the canonical index of its type, and        *)
(* CompileFn does the same for the immediate of every call_indirect.       *)
(* Both use WasmContext::ITypeCanonicalFromIType, a backward scan that     *)
(* overwrites the very index it compares against.  This module runs that   *)
(* scan one iteration per step, over every entry in turn.                  *)
(***************************************************************************)
EXTENDS Integers

CONSTANTS
  NTypes,      \* m_vecfn_types.size()
  NEntries,    \* m_vecfn_entries.size()
  Signatures   \* the FunctionTypeEntry values a module may declare

ASSUME SizesAssumption == NTypes \in Nat \ {0} /\ NEntries \in Nat

TypeIdx  == 0 .. NTypes - 1
EntryIdx == 0 .. NEntries - 1

VARIABLES
  types,     \* m_vecfn_types, filled by load_fn_types and fixed afterwards
  declared,  \* m_vecfn_entries as load_imports and load_fn_decls left it
  entries,   \* m_vecfn_entries while LoadModule rewrites it
  cur,       \* the entry LoadModule's loop is at; NEntries when it is over
  scanning,  \* inside the do-while of ITypeCanonicalFromIType
  idx,       \* its parameter and result
  itrType    \* its iterator, as an index into m_vecfn_types

vars == <<types, declared, entries, cur, scanning, idx, itrType>>

(***************************************************************************)
(* FunctionTypeEntry::operator==.  return_type is uninitialised memory     *)
(* when the function returns nothing, and is then not compared.            *)
(***************************************************************************)
SameType(a, b) ==
  /\ a.fHasReturnValue = b.fHasReturnValue
  /\ a.fHasReturnValue => a.return_type = b.return_type
  /\ a.params = b.params

(* load_imports and load_fn_decls Verify every entry against the types     *)
(* loaded so far, so each one is in range when the loop starts.            *)
Init ==
  /\ types \in [TypeIdx -> Signatures]
  /\ declared \in [EntryIdx -> TypeIdx]
  /\ entries = declared
  /\ cur = 0
  /\ scanning = FALSE
  /\ idx = 0
  /\ itrType = 0

(* The iterator's start, and a mutant one past it.                         *)
AfterIndex(i) == i + 1
AtIndex(i)    == i

(* Adopt the index of an equal type.  The mutant compares the bytes of the *)
(* two entries, the uninitialised return_type included.                    *)
AdoptBytes(t, i) == IF types[t] = types[i] THEN t ELSE i
Adopt(t, i) == IF SameType(types[t], types[i]) THEN t ELSE i

(* while (itrType != begin()), and a mutant that never tries type 0.       *)
AtSecond(t) == t <= 1
AtBegin(t)  == t = 0

(* LoadModule's loop stores the result and goes on to the next entry; the  *)
(* mutant stays at the same one.                                           *)
StoreAndStay(i) == entries' = [entries EXCEPT ![cur] = i] /\ scanning' = FALSE /\ UNCHANGED cur
Store(i) ==
  /\ entries' = [entries EXCEPT ![cur] = i]
  /\ cur' = cur + 1
  /\ scanning' = FALSE

(* Call of ITypeCanonicalFromIType(itr): index 0 is its own canonical form.*)
Begin ==
  /\ ~scanning
  /\ cur \in EntryIdx
  /\ idx' = entries[cur]
  /\ itrType' = AtIndex(entries[cur])
  /\ \/ entries[cur] = 0 /\ Store(0)
     \/ entries[cur] # 0 /\ scanning' = TRUE /\ UNCHANGED <<entries, cur>>
  /\ UNCHANGED <<types, declared>>

(* One iteration of the do-while: step back, adopt an equal type's index,  *)
(* and return idx once the iterator has reached the first type.            *)
Scan ==
  LET t == itrType - 1
      i == Adopt(t, idx)
  IN /\ scanning
     /\ itrType' = t
     /\ idx' = i
     /\ \/ ~AtBegin(t) /\ UNCHANGED <<entries, cur, scanning>>
        \/ AtBegin(t) /\ Store(i)
     /\ UNCHANGED <<types, declared>>

Next == Begin \/ Scan

Spec == Init /\ [][Next]_vars /\ WF_vars(Next)

-----------------------------------------------------------------------------

TypeOK ==
  /\ types \in [TypeIdx -> Signatures]
  /\ declared \in [EntryIdx -> TypeIdx]
  /\ entries \in [EntryIdx -> TypeIdx]
  /\ cur \in 0 .. NEntries
  /\ scanning \in BOOLEAN
  /\ idx \in TypeIdx
  /\ itrType \in TypeIdx

(* i is the first index at which the type declared at j appears. *)
IsCanonical(i, j) ==
  /\ SameType(types[i], types[j])
  /\ \A k \in 0 .. i - 1 : ~SameType(types[k], types[j])

(* Every entry the loop has passed holds the first index of its type, and  *)
(* every other one is still as declared (LoadModule line 431-434).         *)
PrefixCanonical ==
  \A e \in EntryIdx :
    IF e < cur THEN IsCanonical(entries[e], declared[e])
               ELSE entries[e] = declared[e]

(* The test CallIndirectShim makes on two processed entries: the indices   *)
(* are equal exactly when the declared types are structurally equal, so a  *)
(* well-typed indirect call never traps and an ill-typed one always does.  *)
IndexEqualityIsTypeEquality ==
  \A e, f \in EntryIdx :
    e < cur /\ f < cur =>
      (entries[e] = entries[f] <=> SameType(types[declared[e]], types[declared[f]]))

(* What the backward scan has established when it is about to compare the  *)
(* type before itrType (lines 447-455): idx is the smallest index at or    *)
(* above itrType whose type equals the declared one.                       *)
ScanInvariant ==
  scanning =>
    /\ cur \in EntryIdx
    /\ 0 < itrType /\ itrType <= idx
    /\ SameType(types[idx], types[declared[cur]])
    /\ \A k \in itrType .. idx - 1 : ~SameType(types[k], types[declared[cur]])

IInv == TypeOK /\ PrefixCanonical /\ ScanInvariant

(* LoadModule's loop ends, whatever the declarations. *)
Terminates == <>(cur = NEntries)

=============================================================================
