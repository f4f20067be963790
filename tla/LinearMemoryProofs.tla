------------------------- MODULE LinearMemoryProofs -------------------------
(***************************************************************************)
(* For every page and word size: the size of linear memory in its two      *)
(* places, and that LinearMemory implements WasmMemory when the program    *)
(* keeps its accesses inside the memory.                                   *)
(***************************************************************************)
EXTENDS LinearMemory, SequenceTheorems, TLAPS

-----------------------------------------------------------------------------
(* Sizes in pages and in bytes.                                            *)

(* A larger number of pages is a larger number of bytes. *)
LEMMA PagesOrdered ==
  ASSUME NEW P \in Nat \ {0}, NEW n \in Nat, NEW k \in Nat
  PROVE  /\ n * P \in Nat
         /\ n <= k <=> n * P <= k * P
         /\ n < k <=> n * P < k * P
<1>1. n * P \in Nat /\ k * P \in Nat
  BY SMT
<1>2. ASSUME NEW x \in Nat, NEW y \in Nat, x < y PROVE x * P < y * P
  <2>1. PICK d \in Nat \ {0} : y = x + d
    <3>1. y - x \in Nat \ {0} /\ y = x + (y - x)
      BY <1>2, SMT
    <3> QED BY <3>1
  <2>2. y * P = x * P + d * P
    BY <2>1, SMT
  <2>3. d * P >= 1
    BY <2>1, SMT
  <2> QED BY <2>2, <2>3, SMT
<1>3. n < k => n * P < k * P
  BY <1>2
<1>4. k < n => k * P < n * P
  BY <1>2
<1>5. n = k => n * P = k * P
  OBVIOUS
<1> QED BY <1>1, <1>3, <1>4, <1>5, SMT

(* Bytes of whole pages divided by the page size are the pages. *)
LEMMA PagesOfBytes ==
  ASSUME NEW P \in Nat \ {0}, NEW n \in Nat
  PROVE  (n * P) \div P = n
<1> DEFINE q == (n * P) \div P
<1>1. n * P \in Nat
  BY SMT
<1>2. q \in Nat /\ q * P <= n * P /\ n * P < (q + 1) * P
  BY <1>1, SMT
<1> HIDE DEF q
<1>3. q <= n
  BY <1>2, PagesOrdered
<1>4. q + 1 \in Nat /\ n < q + 1
  BY <1>2, PagesOrdered
<1>5. q = n
  BY <1>2, <1>3, <1>4, SMT
<1> QED BY <1>5 DEF q

(* A product taken modulo a whole number of pages is a whole number of pages. *)
LEMMA WrappedPages ==
  ASSUME NEW P \in Nat \ {0}, NEW M \in Nat \ {0}, NEW n \in Nat
  PROVE  /\ n % M \in Nat /\ n % M < M
         /\ (n * P) % (M * P) = (n % M) * P
<1> DEFINE r == n % M
           d == n \div M
<1>1. r \in Nat /\ d \in Nat /\ r < M /\ n = d * M + r
  BY SMT
<1> HIDE DEF r, d
<1>2. n * P = d * (M * P) + r * P
  <2>1. n * P = (d * M + r) * P
    BY <1>1
  <2>2. (d * M + r) * P = d * (M * P) + r * P
    BY <1>1, SMT
  <2> QED BY <2>1, <2>2
<1>3. r * P \in Nat /\ r * P < M * P /\ M * P \in Nat \ {0}
  <2>1. r * P < M * P /\ r * P \in Nat
    BY <1>1, PagesOrdered
  <2> QED BY <2>1, <1>1, SMT
<1>4. ASSUME NEW W \in Nat \ {0}, NEW x \in Nat, x < W PROVE (d * W + x) % W = x
  BY <1>1, <1>4, SMT
<1>5. (n * P) % (M * P) = r * P
  BY <1>2, <1>3, <1>4
<1> QED BY <1>1, <1>5 DEF r

-----------------------------------------------------------------------------
(* The invariant: during a call the heap is whole pages, at least those the *)
(* call began with, and below four gigabytes.                               *)

Paged(cb) == \E q \in Nat : cb = q * PageSize

HeapInv == pc # "host" =>
  /\ reserved /\ cbHeap < WordSize
  /\ EntrySize <= cbHeap
  /\ Paged(cbHeap)

IInv == TypeOK /\ HeapInv

LEMMA Constants ==
  /\ PageSize \in Nat \ {0} /\ WordSize \in Nat \ {0} /\ MaxPages \in Nat \ {0}
  /\ WordSize = MaxPages * PageSize
  /\ MaxPages <= WordSize
<1>1. PageSize \in Nat \ {0} /\ WordSize \in Nat /\ WordSize = MaxPages * PageSize /\ MaxPages > 0
  BY MemoryAssumption
<1>2. MaxPages \in Nat \ {0}
  BY <1>1, SMT DEF MaxPages
<1> HIDE DEF MaxPages
<1>3. MaxPages * 1 <= MaxPages * PageSize
  BY <1>1, <1>2, SMT
<1> QED BY <1>1, <1>2, <1>3, SMT

(* The size of memory between calls is its declared pages, modulo 4 GB. *)
LEMMA EntrySizeIsPaged ==
  ASSUME TypeOK
  PROVE  /\ EntrySize \in Nat /\ EntrySize < WordSize /\ Paged(EntrySize)
         /\ HasMemory => /\ memTypes[1] \in Limits
                         /\ EntrySize = (memTypes[1].initial_size % MaxPages) * PageSize
<1>1. CASE HasMemory
  <2>1. memTypes[1] \in Limits
    BY <1>1 DEF TypeOK, HasMemory
  <2> DEFINE n == memTypes[1].initial_size
  <2>2. n \in Nat
    BY <2>1, Constants DEF Limits, Word
  <2> HIDE DEF n
  <2>3. n % MaxPages \in Nat /\ n % MaxPages < MaxPages
        /\ (n * PageSize) % WordSize = (n % MaxPages) * PageSize
    BY <2>2, Constants, WrappedPages
  <2>4. (n % MaxPages) * PageSize < WordSize /\ (n % MaxPages) * PageSize \in Nat
    BY <2>3, Constants, PagesOrdered
  <2>5. EntrySize = (n % MaxPages) * PageSize
    BY <1>1, <2>3 DEF EntrySize, n
  <2> QED BY <2>1, <2>3, <2>4, <2>5 DEF Paged, n
<1>2. CASE ~HasMemory
  <2>1. EntrySize = 0 /\ 0 * PageSize = 0
    BY <1>2, Constants, SMT DEF EntrySize
  <2> QED BY <1>2, <2>1, Constants DEF Paged
<1> QED BY <1>1, <1>2

LEMMA LimitIsPaged ==
  ASSUME TypeOK
  PROVE  CbMax \in Nat /\ Paged(CbMax)
<1>1. CASE HasMemory /\ memTypes[1].fMaxSet
  <2>1. memTypes[1].maximum_size \in Nat
    BY <1>1, EntrySizeIsPaged, Constants DEF Limits, Word
  <2> QED BY <1>1, <2>1, Constants, PagesOrdered DEF CbMax, Paged
<1>2. CASE ~(HasMemory /\ memTypes[1].fMaxSet)
  BY <1>2, Constants DEF CbMax, Paged
<1> QED BY <1>1, <1>2

LEMMA ImageTyped ==
  ASSUME TypeOK PROVE Image \in [Plane -> Byte]
<1>1. \A a \in Plane : Copied(vecmem)[a] \in Byte
  <2> SUFFICES ASSUME NEW a \in Plane PROVE Copied(vecmem)[a] \in Byte
    OBVIOUS
  <2>1. PICK n \in 0 .. MaxData : vecmem \in [1 .. n -> Byte]
    BY DEF TypeOK, Data
  <2>2. n \in Nat /\ Len(vecmem) = n
    BY <2>1, MemoryAssumption, SMT
  <2>3. a \in Nat
    BY Constants, SMT DEF Plane
  <2> QED BY <2>1, <2>2, <2>3, MemoryAssumption DEF Copied
<1> QED BY <1>1 DEF TypeOK, Image, Copied

(* Growing by whole pages is growing in pages. *)
LEMMA GrownIsPaged ==
  ASSUME NEW cb, Paged(cb), NEW n \in Nat
  PROVE  cb + n * PageSize \in Nat /\ cb <= cb + n * PageSize /\ Paged(cb + n * PageSize)
<1>1. PICK q \in Nat : cb = q * PageSize
  BY DEF Paged
<1>2. q * PageSize + n * PageSize = (q + n) * PageSize /\ q + n \in Nat
  BY Constants, SMT
<1>3. q * PageSize \in Nat /\ n * PageSize \in Nat
  BY Constants, PagesOrdered
<1> QED BY <1>1, <1>2, <1>3, SMT DEF Paged

LEMMA InitInv == Init => IInv
<1> SUFFICES ASSUME Init PROVE IInv
  OBVIOUS
<1>1. memTypes \in Seq(Limits) /\ Len(memTypes) <= 1
  <2>1. CASE memTypes = <<>>
    BY <2>1, EmptySeq, SMT
  <2>2. CASE \E t \in Limits : memTypes = <<t>>
    BY <2>2, SMT
  <2> QED BY <2>1, <2>2 DEF Init
<1>2. [a \in Plane |-> 0] \in [Plane -> Byte]
  BY MemoryAssumption
<1>3. 0 \in Nat /\ <<>> \in Seq(Nat)
  BY SMT
<1>4. TypeOK
  BY <1>1, <1>2, <1>3 DEF Init, TypeOK
<1> QED BY <1>4 DEF Init, IInv, HeapInv

-----------------------------------------------------------------------------
(* One lemma per action.                                                    *)

LEMMA CallInv == ASSUME IInv, ExternCall PROVE IInv'
<1> USE DEF IInv
<1>1. TypeOK'
  BY ImageTyped, EntrySizeIsPaged DEF TypeOK, ExternCall
<1>2. HeapInv'
  <2>1. EntrySize' = EntrySize
    BY DEF ExternCall, EntrySize, HasMemory
  <2> QED BY <2>1, EntrySizeIsPaged DEF HeapInv, ExternCall, Paged
<1> QED BY <1>1, <1>2

LEMMA GrowInv ==
  ASSUME IInv, NEW n \in Word, GrowMemory(n) PROVE IInv' /\ EntrySize' = EntrySize
<1> USE DEF IInv
<1> DEFINE cb == cbHeap + n * PageSize
<1>1. n \in Nat /\ cb \in Nat /\ cbHeap <= cb /\ Paged(cb)
  BY Constants, GrownIsPaged DEF Word, HeapInv, GrowMemory
<1>2. Refuse(cb) \/ Extend(cb) \/ Throw(cb)
  BY DEF GrowMemory
<1> HIDE DEF cb
<1>3. EntrySize' = EntrySize
  BY <1>2 DEF EntrySize, HasMemory, Refuse, Extend, Throw
<1>4. CASE Refuse(cb)
  <2>1. Failed \in Nat
    BY Constants, SMT DEF Failed
  <2>2. TypeOK'
    BY <1>4, <2>1 DEF TypeOK, Refuse
  <2> QED BY <1>3, <1>4, <2>2 DEF HeapInv, Refuse, Paged
<1>5. CASE Extend(cb)
  <2>1. cbHeap \div PageSize \in Nat
    BY Constants, SMT DEF TypeOK
  <2>2. TypeOK'
    BY <1>1, <1>5, <2>1 DEF TypeOK, Extend
  <2>3. EntrySize \in Nat /\ EntrySize <= cb /\ reserved
    BY <1>1, EntrySizeIsPaged, SMT DEF HeapInv, GrowMemory, TypeOK
  <2> QED BY <1>1, <1>3, <1>5, <2>2, <2>3 DEF HeapInv, Extend, Addressable, GrowMemory
<1>6. CASE Throw(cb)
  <2>1. TypeOK'
    BY <1>6 DEF TypeOK, Throw
  <2>2. pc = "wasm"
    BY DEF GrowMemory
  <2> QED BY <1>3, <1>6, <2>1, <2>2 DEF HeapInv, Throw, Paged
<1> QED BY <1>2, <1>3, <1>4, <1>5, <1>6

LEMMA LoadInv ==
  ASSUME IInv, NEW addr \in Word, NEW offset \in Word, NEW k \in Widths, LoadMem(addr, offset, k)
  PROVE  IInv' /\ EntrySize' = EntrySize
<1> USE DEF IInv
<1> DEFINE ea == EffectiveAddress(addr, offset)
<1>1. ea \in Nat /\ ea < WordSize
  BY Constants, SMT DEF Word, EffectiveAddress
<1>2. k \in Nat /\ k <= WordSize
  BY MemoryAssumption, Constants, SMT
<1> HIDE DEF ea
<1>3. [i \in 1 .. k |-> heap[ea + i - 1]] \in Seq(Nat)
  <2>1. \A i \in 1 .. k : ea + i - 1 \in Plane
    BY <1>1, <1>2, Constants, SMT DEF Plane
  <2>2. \A i \in 1 .. k : heap[ea + i - 1] \in Nat
    BY <2>1, MemoryAssumption DEF TypeOK
  <2> QED BY <1>2, <2>2, SMT
<1>4. <<ea>> \in Seq(Nat)
  BY <1>1
<1>5. seen' = <<ea>> \o [i \in 1 .. k |-> heap[ea + i - 1]]
  BY DEF LoadMem, ea
<1>6. seen' \in Seq(Nat)
  BY <1>3, <1>4, <1>5, ConcatProperties
<1>7. TypeOK'
  BY <1>6 DEF TypeOK, LoadMem
<1>8. EntrySize' = EntrySize
  BY DEF EntrySize, HasMemory, LoadMem
<1> QED BY <1>7, <1>8 DEF HeapInv, LoadMem, Paged

LEMMA StoreInv ==
  ASSUME IInv, NEW addr \in Word, NEW offset \in Word, NEW k \in Widths, NEW v \in Byte,
         StoreMem(addr, offset, k, v)
  PROVE  IInv' /\ EntrySize' = EntrySize
<1> USE DEF IInv
<1>1. heap' \in [Plane -> Byte]
  BY DEF StoreMem, Stored, TypeOK
<1>2. TypeOK'
  BY <1>1 DEF TypeOK, StoreMem
<1>3. EntrySize' = EntrySize
  BY DEF EntrySize, HasMemory, StoreMem
<1> QED BY <1>2, <1>3 DEF HeapInv, StoreMem, Paged

(* The write-back keeps the size: what the next call computes is cbHeap. *)
LEMMA ReturnInv ==
  ASSUME IInv, Return
  PROVE  /\ IInv'
         /\ pc' = "host" => EntrySize' = cbHeap /\ HasMemory' = HasMemory /\ CbMax' = CbMax
         /\ pc' # "host" => EntrySize' = EntrySize /\ UNCHANGED memTypes
<1> USE DEF IInv
<1>1. PICK q \in Nat : cbHeap = q * PageSize
  BY DEF HeapInv, Return, Paged
<1>2. q < MaxPages /\ PagesWrittenBack = q
  <2>1. q * PageSize < MaxPages * PageSize
    BY <1>1, Constants DEF HeapInv, Return
  <2> QED BY <1>1, <2>1, Constants, PagesOrdered, PagesOfBytes DEF PagesWrittenBack
<1>3. CASE cbHeap > 0 /\ HasMemory
  <2>1. memTypes[1] \in Limits /\ Len(memTypes) = 1 /\ memTypes \in Seq(Limits)
    <3>1. memTypes \in Seq(Limits) /\ Len(memTypes) <= 1 /\ Len(memTypes) > 0
      BY <1>3 DEF TypeOK, HasMemory
    <3>2. Len(memTypes) \in Nat
      BY <3>1, LenProperties
    <3>3. Len(memTypes) = 1
      <4>1. \A x \in Nat : x <= 1 /\ x > 0 => x = 1
        BY SMT
      <4> QED BY <3>1, <3>2, <4>1
    <3> QED BY <1>3, <3>1, <3>3, EntrySizeIsPaged
  <2>2. q \in Word
    BY <1>2, Constants, SMT DEF Word
  <2> DEFINE t == [memTypes[1] EXCEPT !.initial_size = q]
  <2>3. memTypes' = [memTypes EXCEPT ![1] = t]
    BY <1>2, <1>3 DEF Return
  <2>4. t \in Limits
    BY <2>1, <2>2 DEF Limits
  <2>4a. t.initial_size = q /\ t.fMaxSet = memTypes[1].fMaxSet /\ t.maximum_size = memTypes[1].maximum_size
    BY <2>1 DEF Limits
  <2> HIDE DEF t
  <2>5. memTypes' \in Seq(Limits) /\ Len(memTypes') = 1 /\ memTypes'[1] = t
    <3>1. 1 \in 1 .. Len(memTypes)
      BY <2>1
    <3> QED BY ONLY <2>1, <2>3, <2>4, <3>1, ExceptSeq
  <2>6. TypeOK'
    BY <1>3, <2>5 DEF TypeOK, Return
  <2>7. HasMemory'
    BY <2>5 DEF HasMemory
  <2>8. EntrySize' = (q * PageSize) % WordSize
    BY <2>4a, <2>5, <2>7 DEF EntrySize
  <2>9. (q * PageSize) % WordSize = (q % MaxPages) * PageSize
    BY Constants, WrappedPages
  <2>10. q % MaxPages = q
    BY <1>2, Constants, SMT
  <2>11. EntrySize' = cbHeap
    BY <1>1, <2>8, <2>9, <2>10
  <2>12. CbMax' = CbMax
    BY <1>3, <2>4a, <2>5, <2>7 DEF CbMax
  <2>13. pc' = "host"
    BY <1>3 DEF Return
  <2> QED BY <1>3, <2>6, <2>7, <2>11, <2>12, <2>13 DEF HeapInv
<1>4. CASE ~(cbHeap > 0 /\ HasMemory)
  <2>1. UNCHANGED memTypes
    BY <1>4 DEF Return
  <2>2. EntrySize' = EntrySize /\ HasMemory' = HasMemory /\ CbMax' = CbMax
    BY <2>1 DEF EntrySize, HasMemory, CbMax
  <2>3. pc' = "host" => EntrySize = cbHeap
    <3>1. pc' = "host" => cbHeap = 0
      BY <1>4 DEF Return, TypeOK
    <3>2. EntrySize <= cbHeap /\ EntrySize \in Nat
      BY EntrySizeIsPaged DEF HeapInv, Return
    <3> QED BY <3>1, <3>2, SMT
  <2>4. TypeOK'
    BY <2>1 DEF TypeOK, Return
  <2> QED BY <2>1, <2>2, <2>3, <2>4 DEF HeapInv, Return, Paged
<1> QED BY <1>3, <1>4

LEMMA TrapInv == ASSUME IInv, Trap PROVE IInv' /\ EntrySize' = EntrySize
<1> USE DEF IInv
<1>1. TypeOK'
  BY DEF TypeOK, Trap
<1>2. EntrySize' = EntrySize
  BY DEF EntrySize, HasMemory, Trap
<1> QED BY <1>1, <1>2 DEF HeapInv, Trap

LEMMA StutterInv == ASSUME IInv, UNCHANGED vars PROVE IInv' /\ EntrySize' = EntrySize
BY DEF IInv, TypeOK, HeapInv, vars, EntrySize, HasMemory, Paged

LEMMA ZeroIsWord == 0 \in Word
BY Constants, SMT DEF Word

(* What every step keeps: the invariant, and the size between calls unless  *)
(* the step is a return.                                                    *)
LEMMA NextInv == ASSUME IInv, [Next]_vars PROVE IInv'
<1>1. CASE ExternCall
  BY <1>1, CallInv
<1>2. CASE Return
  BY <1>2, ReturnInv
<1>3. CASE Trap
  BY <1>3, TrapInv
<1>4. CASE CurrentMemory
  BY <1>4, GrowInv, ZeroIsWord DEF CurrentMemory
<1>5. CASE \E cpages \in Word : GrowMemory(cpages)
  BY <1>5, GrowInv
<1>6. CASE \E addr, offset \in Word, cb \in Widths : LoadMem(addr, offset, cb)
  BY <1>6, LoadInv
<1>7. CASE \E addr, offset \in Word, cb \in Widths, v \in Byte : StoreMem(addr, offset, cb, v)
  BY <1>7, StoreInv
<1>8. CASE UNCHANGED vars
  BY <1>8, StutterInv
<1> QED BY <1>1, <1>2, <1>3, <1>4, <1>5, <1>6, <1>7, <1>8 DEF Next

LEMMA IInvAlways == Spec => []IInv
BY InitInv, NextInv, PTL DEF Spec
-----------------------------------------------------------------------------
(* Every byte of memory has a 32-bit address, for every limits and every    *)
(* sequence of calls, growths and traps.                                    *)
THEOREM AddressableHeapAlways == Spec => []AddressableHeap
<1>1. IInv => AddressableHeap
  BY DEF IInv, HeapInv, AddressableHeap
<1> QED BY <1>1, IInvAlways, PTL

(* Every variable keeps its type; the answer of grow_memory is unsigned.    *)
THEOREM TypeOKAlways == Spec => []TypeOK
<1>1. IInv => TypeOK
  BY DEF IInv
<1> QED BY <1>1, IInvAlways, PTL

(* A call that ends, in whichever way, leaves the next one no less memory.  *)
LEMMA StepNeverShrinks == ASSUME IInv, [Next]_vars PROVE EntrySize' >= EntrySize
<1>1. EntrySize \in Nat
  BY EntrySizeIsPaged DEF IInv
<1>2. CASE Return
  <2>1. EntrySize' = cbHeap \/ EntrySize' = EntrySize
    BY <1>2, ReturnInv
  <2>2. EntrySize <= cbHeap /\ cbHeap \in Nat
    BY <1>2 DEF IInv, HeapInv, Return, TypeOK
  <2> QED BY <1>1, <2>1, <2>2, SMT
<1>3. CASE ~Return
  <2>1. EntrySize' = EntrySize
    <3>1. CASE ExternCall
      BY <3>1 DEF ExternCall, EntrySize, HasMemory
    <3>2. CASE UNCHANGED vars
      BY <3>2, StutterInv
    <3> QED BY <1>3, <3>1, <3>2, TrapInv, GrowInv, LoadInv, StoreInv, ZeroIsWord DEF Next, CurrentMemory
  <2> QED BY <1>1, <2>1, SMT
<1> QED BY <1>2, <1>3

THEOREM MemoryNeverShrinksAlways == Spec => MemoryNeverShrinks
<1>1. IInv /\ [Next]_vars => [EntrySize' >= EntrySize]_vars
  BY StepNeverShrinks
<1> QED BY <1>1, IInvAlways, PTL DEF Spec, MemoryNeverShrinks
-----------------------------------------------------------------------------
(* Steps that leave the declared limits alone, and what they do to Bytes.   *)

LEMMA SameLimits ==
  ASSUME UNCHANGED memTypes
  PROVE  EntrySize' = EntrySize /\ HasMemory' = HasMemory /\ CbMax' = CbMax
BY DEF EntrySize, HasMemory, CbMax

LEMMA CallKeeps ==
  ASSUME IInv, ExternCall
  PROVE  /\ UNCHANGED memTypes /\ Bytes' = Bytes /\ Image' = Image
         /\ pc = "host" /\ pc' = "wasm"
<1>1. Bytes' = EntrySize /\ Bytes = EntrySize
  BY DEF ExternCall, Bytes
<1>2. Image' = Image
  BY DEF ExternCall, Image
<1> QED BY <1>1, <1>2 DEF ExternCall

LEMMA GrowKeeps ==
  ASSUME IInv, NEW n \in Word, GrowMemory(n)
  PROVE  /\ UNCHANGED <<memTypes, vecmem, lost>> /\ Image' = Image
         /\ pc = "wasm" /\ Bytes = cbHeap
         /\ \/ Bytes' = Bytes
            \/ Bytes' = cbHeap + n * PageSize /\ Bytes' <= CbMax
<1> DEFINE cb == cbHeap + n * PageSize
<1>1. pc = "wasm" /\ (Refuse(cb) \/ Extend(cb) \/ Throw(cb))
  BY DEF GrowMemory
<1> HIDE DEF cb
<1>2. UNCHANGED <<memTypes, vecmem, lost, reserved, heap>>
  BY <1>1 DEF Refuse, Extend, Throw
<1>3. Image' = Image
  BY <1>2 DEF Image
<1>4. Bytes = cbHeap
  BY <1>1 DEF Bytes
<1>5. (Bytes' = cbHeap) \/ (Bytes' = cb /\ cb <= CbMax)
  <2>1. CASE Refuse(cb)
    BY <1>1, <2>1 DEF Refuse, Bytes
  <2>2. CASE Extend(cb)
    BY <1>1, <2>2 DEF Extend, Bytes
  <2>3. CASE Throw(cb)
    BY <2>3 DEF Throw, Bytes
  <2> QED BY <1>1, <2>1, <2>2, <2>3
<1> QED BY <1>1, <1>2, <1>3, <1>4, <1>5 DEF cb

LEMMA LoadKeeps ==
  ASSUME NEW addr \in Word, NEW offset \in Word, NEW k \in Widths, LoadMem(addr, offset, k)
  PROVE  UNCHANGED <<memTypes, vecmem, lost, pc, cbHeap>> /\ Bytes' = Bytes /\ Image' = Image
BY DEF LoadMem, Bytes, EntrySize, HasMemory, Image

LEMMA StoreKeeps ==
  ASSUME IInv, NEW addr \in Word, NEW offset \in Word, NEW k \in Widths, NEW v \in Byte,
         StoreMem(addr, offset, k, v)
  PROVE  /\ UNCHANGED <<memTypes, vecmem, lost, pc, cbHeap>> /\ Bytes' = Bytes
         /\ pc = "wasm" /\ Bytes = cbHeap /\ Image = heap
         /\ Image' = Stored(EffectiveAddress(addr, offset), k, v)
<1>1. pc = "wasm" /\ reserved
  BY DEF StoreMem, MayAccess, IInv, HeapInv
<1>2. Bytes = cbHeap /\ Image = heap
  BY <1>1 DEF Bytes, Image
<1>3. Bytes' = Bytes
  BY <1>1 DEF StoreMem, Bytes
<1>4. Image' = heap'
  BY <1>1 DEF StoreMem, Image
<1> QED BY <1>1, <1>2, <1>3, <1>4 DEF StoreMem

LEMMA ReturnKeeps ==
  ASSUME IInv, Return
  PROVE  Bytes' = Bytes /\ Bytes = cbHeap /\ Image' = Image /\ UNCHANGED <<vecmem, lost>>
<1>1. Bytes = cbHeap
  BY DEF Return, Bytes
<1>2. Bytes' = cbHeap
  BY ReturnInv DEF Return, Bytes
<1> QED BY <1>1, <1>2 DEF Return, Image

LEMMA TrapKeeps ==
  ASSUME IInv, Trap
  PROVE  /\ UNCHANGED <<memTypes, vecmem>> /\ Image' = Image
         /\ Bytes = cbHeap /\ Bytes' = EntrySize
<1>1. Bytes = cbHeap
  BY DEF Trap, Bytes
<1>2. Bytes' = EntrySize
  BY SameLimits DEF Trap, Bytes
<1> QED BY <1>1, <1>2 DEF Trap, Image

LEMMA StutterKeeps ==
  ASSUME UNCHANGED vars
  PROVE  UNCHANGED <<memTypes, vecmem, lost, pc, cbHeap>> /\ Bytes' = Bytes /\ Image' = Image
BY DEF vars, Bytes, EntrySize, HasMemory, Image

-----------------------------------------------------------------------------
(* A memory within its declared maximum stays there, through growth, return *)
(* and trap.                                                                *)

LEMMA WithinKept ==
  ASSUME WithinMaximum, UNCHANGED memTypes,
         Bytes' = Bytes \/ Bytes' <= CbMax
  PROVE  WithinMaximum'
<1>1. HasMemory' = HasMemory /\ CbMax' = CbMax
  BY SameLimits
<1> QED BY <1>1 DEF WithinMaximum

LEMMA ReturnWithin == ASSUME IInv, WithinMaximum, Return PROVE WithinMaximum'
<1>1. CASE pc' # "host" \/ ~(cbHeap > 0)
  <2>1. UNCHANGED memTypes
    BY <1>1, ReturnInv DEF Return
  <2> QED BY <2>1, ReturnKeeps, WithinKept
<1>2. CASE pc' = "host" /\ cbHeap > 0
  <2> SUFFICES ASSUME HasMemory', memTypes'[1].fMaxSet
               PROVE  memTypes'[1].initial_size <= memTypes'[1].maximum_size /\ Bytes' <= CbMax'
    BY DEF WithinMaximum
  <2>1. HasMemory
    BY <1>2 DEF Return
  <2>2. memTypes' = [memTypes EXCEPT ![1].initial_size = PagesWrittenBack]
    BY <1>2 DEF Return
  <2>3. memTypes[1] \in Limits /\ memTypes \in Seq(Limits) /\ 1 \in DOMAIN memTypes
    <3>1. memTypes \in Seq(Limits) /\ Len(memTypes) > 0
      BY <2>1 DEF IInv, TypeOK, HasMemory
    <3>2. Len(memTypes) \in Nat /\ DOMAIN memTypes = 1 .. Len(memTypes)
      BY <3>1, LenProperties
    <3>3. \A x \in Nat : x > 0 => 1 \in 1 .. x
      BY SMT
    <3> QED BY <2>1, <3>1, <3>2, <3>3, EntrySizeIsPaged DEF IInv
  <2>4. memTypes'[1] = [memTypes[1] EXCEPT !.initial_size = PagesWrittenBack]
    BY <2>2, <2>3
  <2>5. memTypes[1].fMaxSet /\ memTypes'[1].maximum_size = memTypes[1].maximum_size
        /\ memTypes'[1].initial_size = PagesWrittenBack
    BY <2>3, <2>4 DEF Limits
  <2>6. cbHeap <= memTypes[1].maximum_size * PageSize /\ cbHeap <= CbMax
    BY <2>1, <2>5, ReturnKeeps DEF WithinMaximum, CbMax
  <2>7. PICK q \in Nat : cbHeap = q * PageSize
    BY DEF IInv, HeapInv, Return, Paged
  <2>8. PagesWrittenBack = q
    BY <2>7, Constants, PagesOfBytes DEF PagesWrittenBack
  <2>9. memTypes[1].maximum_size \in Nat
    BY <2>3, Constants DEF Limits, Word
  <2>10. q <= memTypes[1].maximum_size
    BY <2>6, <2>7, <2>9, Constants, PagesOrdered
  <2>11. Bytes' = cbHeap /\ CbMax' = CbMax
    BY <1>2, ReturnInv, ReturnKeeps
  <2> QED BY <2>5, <2>6, <2>8, <2>10, <2>11
<1> QED BY <1>1, <1>2

LEMMA TrapWithin == ASSUME IInv, WithinMaximum, Trap PROVE WithinMaximum'
<1>1. UNCHANGED memTypes /\ Bytes' = EntrySize
  BY TrapKeeps
<1>2. HasMemory' = HasMemory /\ CbMax' = CbMax
  BY <1>1, SameLimits
<1> SUFFICES ASSUME HasMemory, memTypes[1].fMaxSet PROVE EntrySize <= CbMax
  BY <1>1, <1>2 DEF WithinMaximum
<1> DEFINE n == memTypes[1].initial_size
           x == memTypes[1].maximum_size
<1>3. n \in Nat /\ x \in Nat /\ EntrySize = (n % MaxPages) * PageSize
  BY EntrySizeIsPaged, Constants DEF IInv, Limits, Word
<1>4. n <= x /\ CbMax = x * PageSize
  BY DEF WithinMaximum, CbMax
<1> HIDE DEF n, x
<1>5. n % MaxPages \in Nat /\ n % MaxPages <= x
  <2>1. \A j \in Nat, k \in Nat \ {0} : j % k \in Nat /\ j % k <= j
    BY SMT
  <2> QED BY <1>3, <1>4, <2>1, Constants, SMT
<1> QED BY <1>3, <1>4, <1>5, Constants, PagesOrdered

LEMMA StepWithin == ASSUME IInv, WithinMaximum, [Next]_vars PROVE WithinMaximum'
<1>1. CASE ExternCall
  BY <1>1, CallKeeps, WithinKept
<1>2. CASE CurrentMemory \/ \E cpages \in Word : GrowMemory(cpages)
  <2>1. PICK n \in Word : GrowMemory(n)
    BY <1>2, ZeroIsWord DEF CurrentMemory
  <2> QED BY <2>1, GrowKeeps, WithinKept
<1>3. CASE \E addr, offset \in Word, cb \in Widths : LoadMem(addr, offset, cb)
  BY <1>3, LoadKeeps, WithinKept
<1>4. CASE \E addr, offset \in Word, cb \in Widths, v \in Byte : StoreMem(addr, offset, cb, v)
  BY <1>4, StoreKeeps, WithinKept
<1>5. CASE UNCHANGED vars
  BY <1>5, StutterKeeps, WithinKept
<1> QED BY <1>1, <1>2, <1>3, <1>4, <1>5, ReturnWithin, TrapWithin DEF Next

THEOREM MaximumRespectedAlways == Spec => MaximumRespected
<1>1. IInv /\ [Next]_vars => [WithinMaximum => WithinMaximum']_vars
  BY StepWithin
<1> QED BY <1>1, IInvAlways, PTL DEF Spec, MaximumRespected
-----------------------------------------------------------------------------
(* When the program keeps its accesses inside the memory, what the memory   *)
(* has not reached is zero.                                                 *)

LEMMA PlaneOrder ==
  /\ \A a \in Plane : a \in Nat
  /\ \A a \in Word : a \in Plane
BY Constants, SMT DEF Plane, Word

LEMMA DataLength == ASSUME TypeOK PROVE Len(vecmem) \in Nat
<1>1. PICK n \in 0 .. MaxData : vecmem \in [1 .. n -> Byte]
  BY DEF TypeOK, Data
<1> QED BY <1>1, MemoryAssumption, SMT

(* An access inside the memory does not wrap round. *)
LEMMA AccessInside ==
  ASSUME IInv, InBounds, NEW addr \in Word, NEW offset \in Word, NEW k \in Widths,
         MayAccess(addr, offset, k)
  PROVE  /\ EffectiveAddress(addr, offset) = addr + offset
         /\ addr + offset \in Word /\ k \in Nat
         /\ addr + offset + k <= cbHeap
<1>1. addr \in Nat /\ offset \in Nat /\ k \in Nat \ {0}
  BY MemoryAssumption, Constants, SMT DEF Word
<1>2. addr + offset + k <= cbHeap /\ cbHeap < WordSize /\ cbHeap \in Nat
  BY DEF MayAccess, IInv, HeapInv, TypeOK
<1>3. addr + offset \in Nat /\ addr + offset < WordSize
  BY <1>1, <1>2, Constants, SMT
<1>4. (addr + offset) % WordSize = addr + offset
  BY <1>3, Constants, SMT
<1> QED BY <1>1, <1>2, <1>3, <1>4, Constants, SMT DEF EffectiveAddress, Word

LEMMA InitZero == Init => GrownPagesAreZero
<1> SUFFICES ASSUME Init, NEW a \in Plane, a >= Bytes, a >= lost, a >= Len(vecmem)
             PROVE  Image[a] = 0
  BY DEF GrownPagesAreZero
<1>1. Len(vecmem) \in Nat /\ a \in Nat
  BY InitInv, DataLength, PlaneOrder DEF IInv
<1>2. ~(a < Len(vecmem))
  BY <1>1, SMT
<1> QED BY <1>2 DEF Init, Image, Copied

(* If nothing is written at or above the end, and the end does not fall     *)
(* below what was covered, zero stays zero.                                 *)
LEMMA ZeroKept ==
  ASSUME IInv, GrownPagesAreZero, UNCHANGED vecmem,
         \A a \in Plane : a >= Bytes' /\ a >= lost' => a >= Bytes /\ a >= lost /\ Image'[a] = Image[a]
  PROVE  GrownPagesAreZero'
BY DEF GrownPagesAreZero

LEMMA StepZero == ASSUME IInv, InBounds, GrownPagesAreZero, [Next]_vars PROVE GrownPagesAreZero'
<1>1. CASE ExternCall
  <2>1. UNCHANGED <<vecmem, lost>>
    BY <1>1 DEF ExternCall
  <2> QED BY <1>1, <2>1, CallKeeps, ZeroKept
<1>2. CASE CurrentMemory \/ \E cpages \in Word : GrowMemory(cpages)
  <2>1. PICK n \in Word : GrowMemory(n)
    BY <1>2, ZeroIsWord DEF CurrentMemory
  <2>2. Bytes = cbHeap /\ cbHeap \in Nat /\ n * PageSize \in Nat
    <3>1. n \in Nat
      BY Constants DEF Word
    <3> QED BY <2>1, <3>1, GrowKeeps, Constants, PagesOrdered DEF IInv, TypeOK
  <2>3. \A a \in Plane : a >= Bytes' => a >= Bytes
    <3>1. Bytes' = Bytes \/ Bytes' = cbHeap + n * PageSize
      BY <2>1, GrowKeeps
    <3>2. \A a \in Nat, c \in Nat, d \in Nat : a >= c + d => a >= c
      BY SMT
    <3> QED BY <2>2, <3>1, <3>2, PlaneOrder
  <2> QED BY <2>1, <2>3, GrowKeeps, ZeroKept
<1>3. CASE \E addr, offset \in Word, cb \in Widths : LoadMem(addr, offset, cb)
  BY <1>3, LoadKeeps, ZeroKept
<1>4. CASE \E addr, offset \in Word, cb \in Widths, v \in Byte : StoreMem(addr, offset, cb, v)
  <2>1. PICK addr \in Word, offset \in Word, k \in Widths, v \in Byte : StoreMem(addr, offset, k, v)
    BY <1>4
  <2>2. EffectiveAddress(addr, offset) = addr + offset /\ addr + offset \in Word /\ k \in Nat
        /\ addr + offset + k <= cbHeap
    BY <2>1, AccessInside DEF StoreMem
  <2>3. \A a \in Plane : a >= Bytes => Image'[a] = Image[a]
    <3> SUFFICES ASSUME NEW a \in Plane, a >= Bytes PROVE Image'[a] = Image[a]
      OBVIOUS
    <3> DEFINE ea == addr + offset
    <3>1. Bytes = cbHeap /\ Image = heap /\ Image' = Stored(ea, k, v)
      BY <2>1, <2>2, StoreKeeps
    <3>2. ea \in Nat /\ cbHeap \in Nat /\ a \in Nat
      BY <2>2, PlaneOrder DEF IInv, TypeOK
    <3> HIDE DEF ea
    <3>3. ea + k <= cbHeap
      BY <2>2 DEF ea
    <3>4. ~(a \in ea .. ea + k - 1)
      BY <2>2, <3>1, <3>2, <3>3, SMT
    <3> QED BY <3>1, <3>4 DEF Stored
  <2> QED BY <2>1, <2>3, StoreKeeps, ZeroKept
<1>5. CASE Return
  BY <1>5, ReturnKeeps, ZeroKept
<1>6. CASE Trap
  <2>1. Bytes = cbHeap /\ Bytes' = EntrySize /\ EntrySize \in Nat /\ EntrySize <= cbHeap
        /\ cbHeap \in Nat /\ lost \in Nat
    BY <1>6, TrapKeeps, EntrySizeIsPaged DEF IInv, HeapInv, Trap, TypeOK
  <2>2. lost' = IF cbHeap > lost /\ cbHeap > EntrySize THEN cbHeap ELSE lost
    BY <1>6 DEF Trap
  <2>3. \A a \in Plane : a >= Bytes' /\ a >= lost' => a >= Bytes /\ a >= lost
    <3>1. \A a \in Plane : a \in Nat
      BY PlaneOrder
    <3>2. CASE cbHeap > lost /\ cbHeap > EntrySize
      BY <2>1, <2>2, <3>1, <3>2, SMT
    <3>3. CASE ~(cbHeap > lost /\ cbHeap > EntrySize)
      BY <2>1, <2>2, <3>1, <3>3, SMT
    <3> QED BY <3>2, <3>3
  <2> QED BY <1>6, <2>3, TrapKeeps, ZeroKept
<1>7. CASE UNCHANGED vars
  BY <1>7, StutterKeeps, ZeroKept
<1> QED BY <1>1, <1>2, <1>3, <1>4, <1>5, <1>6, <1>7 DEF Next

THEOREM GrownPagesAreZeroAlways ==
  ASSUME InBounds PROVE Spec => []GrownPagesAreZero
<1>1. IInv /\ GrownPagesAreZero /\ [Next]_vars => GrownPagesAreZero'
  BY StepZero
<1> QED BY <1>1, InitZero, IInvAlways, PTL DEF Spec
-----------------------------------------------------------------------------
(* Refinement: each step of LinearMemory is a step of WasmMemory.           *)

LEMMA PagesBack ==
  ASSUME NEW cb, Paged(cb)
  PROVE  Pages(cb) \in Nat /\ cb = Pages(cb) * PageSize /\ cb \in Nat
<1>1. PICK q \in Nat : cb = q * PageSize
  BY DEF Paged
<1> QED BY <1>1, Constants, PagesOfBytes, PagesOrdered DEF Pages

LEMMA BytesPaged == ASSUME IInv PROVE Paged(Bytes) /\ Paged(EntrySize) /\ Paged(CbMax)
BY EntrySizeIsPaged, LimitIsPaged DEF IInv, HeapInv, Bytes

LEMMA StatusOf ==
  /\ pc = "host" => Status = "idle"
  /\ pc = "wasm" => Status = "running"
  /\ pc \in {"terminated", "crashed"} => Status = "dead"
BY DEF Status

LEMMA RefinesInit == Init => Memory!MInit
<1> SUFFICES ASSUME Init PROVE Memory!MInit
  OBVIOUS
<1>1. IInv
  BY InitInv
<1>2. Pages(CbMax) \in Nat /\ Pages(Bytes) \in Nat
  BY <1>1, BytesPaged, PagesBack
<1>3. Image \in [Plane -> Byte]
  BY <1>1, ImageTyped DEF IInv
<1>4. Bytes = EntrySize /\ Status = "idle" /\ seen = <<>>
  BY StatusOf DEF Init, Bytes
<1>5. HasMemory \in BOOLEAN
  BY DEF HasMemory
<1> QED BY <1>2, <1>3, <1>4, <1>5 DEF Memory!MInit

LEMMA RefinesCall == ASSUME IInv, ExternCall PROVE Memory!MCall
<1>1. Bytes' = Bytes /\ Image' = Image /\ EntrySize' = EntrySize /\ HasMemory' = HasMemory /\ CbMax' = CbMax
  BY CallKeeps, SameLimits
<1>2. Status = "idle" /\ Status' = "running"
  BY CallKeeps, StatusOf DEF Status
<1>3. Bytes = EntrySize /\ seen' = <<>>
  BY DEF ExternCall, Bytes
<1> QED BY <1>1, <1>2, <1>3 DEF Memory!MCall, Pages

(* Sizes in pages compare as sizes in bytes do. *)
LEMMA GrowthInPages ==
  ASSUME NEW cb, Paged(cb), NEW n \in Nat, NEW max, Paged(max)
  PROVE  LET grown == cb + n * PageSize
         IN /\ grown <= max <=> Pages(cb) + n <= Pages(max)
            /\ grown > max <=> Pages(cb) + n > Pages(max)
            /\ grown < WordSize <=> Pages(cb) + n < MaxPages
            /\ Pages(grown) = Pages(cb) + n
<1> DEFINE p == Pages(cb)
           x == Pages(max)
           grown == cb + n * PageSize
<1>1. p \in Nat /\ cb = p * PageSize /\ x \in Nat /\ max = x * PageSize
  BY PagesBack
<1> HIDE DEF p, x
<1>2. grown = (p + n) * PageSize /\ p + n \in Nat
  <2>1. p * PageSize + n * PageSize = (p + n) * PageSize
    BY <1>1, Constants, SMT
  <2> QED BY <1>1, <2>1, SMT
<1> HIDE DEF grown
<1>3. grown <= max <=> p + n <= x
  BY <1>1, <1>2, Constants, PagesOrdered
<1>4. grown < WordSize <=> p + n < MaxPages
  BY <1>1, <1>2, Constants, PagesOrdered
<1>5. Pages(grown) = p + n
  BY <1>2, Constants, PagesOfBytes DEF Pages
<1>6. grown \in Nat /\ max \in Nat
  BY <1>1, <1>2, Constants, PagesOrdered
<1>7. grown > max <=> p + n > x
  BY <1>1, <1>2, <1>3, <1>6, SMT
<1> QED BY <1>3, <1>4, <1>5, <1>7 DEF grown, p, x

LEMMA RefinesGrow ==
  ASSUME IInv, NEW n \in Word, GrowMemory(n) PROVE Memory!MGrow(n) \/ Memory!MDie
<1> DEFINE cb == cbHeap + n * PageSize
           p == Pages(cbHeap)
           x == Pages(CbMax)
<1>1. pc = "wasm" /\ Bytes = cbHeap /\ Image' = Image /\ UNCHANGED memTypes
  BY GrowKeeps
<1>2. EntrySize' = EntrySize /\ HasMemory' = HasMemory /\ CbMax' = CbMax
  BY <1>1, SameLimits
<1>3. Paged(cbHeap) /\ Paged(CbMax)
  BY <1>1, BytesPaged
<1>4. n \in Nat
  BY Constants DEF Word
<1>5. /\ cb <= CbMax <=> p + n <= x
      /\ cb > CbMax <=> p + n > x
      /\ cb < WordSize <=> p + n < MaxPages
      /\ Pages(cb) = p + n
  BY <1>3, <1>4, GrowthInPages
<1>6. Refuse(cb) \/ Extend(cb) \/ Throw(cb)
  BY DEF GrowMemory
<1>7. p \in Nat /\ x \in Nat
  BY <1>3, PagesBack
<1> HIDE DEF cb, x
<1>8. CASE Refuse(cb)
  <2>1. Bytes' = cbHeap /\ Status = "running" /\ Status' = "running" /\ seen' = <<Failed>> /\ cb > CbMax
    BY <1>1, <1>8 DEF Refuse, Bytes, Status
  <2>2. p + n > x
    BY <1>5, <2>1
  <2> QED BY <1>1, <1>2, <2>1, <2>2 DEF Memory!MGrow, x
<1>9. CASE Extend(cb)
  <2>1. Bytes' = cb /\ Status = "running" /\ Status' = "running" /\ seen' = <<p>>
        /\ cb <= CbMax /\ cb < WordSize
    BY <1>1, <1>9 DEF Extend, Bytes, Status, Addressable, Pages
  <2>2. p + n <= x /\ p + n < MaxPages /\ Pages(Bytes') = p + n
    BY <1>5, <2>1
  <2>3. Pages(Bytes)' = p + n
    BY <2>2 DEF Pages
  <2> QED BY <1>1, <1>2, <2>1, <2>2, <2>3 DEF Memory!MGrow, x
<1>10. CASE Throw(cb)
  <2>1. Bytes' = cbHeap /\ Status = "running" /\ Status' = "dead" /\ seen' = seen
        /\ cb <= CbMax /\ ~(cb < WordSize)
    BY <1>1, <1>10 DEF Throw, Bytes, Status, Addressable
  <2>2. p + n <= x /\ MaxPages <= p + n
    BY <1>4, <1>5, <1>7, <2>1, Constants, SMT
  <2> QED BY <1>1, <1>2, <2>1, <2>2 DEF Memory!MDie, x
<1> QED BY <1>6, <1>8, <1>9, <1>10

LEMMA InsideMemory ==
  ASSUME IInv, InBounds, NEW addr \in Word, NEW offset \in Word, NEW k \in Widths,
         MayAccess(addr, offset, k)
  PROVE  Memory!Inside(addr + offset, k)
<1>1. Bytes = cbHeap
  BY DEF MayAccess, Bytes
<1>2. Pages(Bytes) * PageSize = cbHeap
  BY <1>1, BytesPaged, PagesBack
<1> QED BY <1>2, AccessInside DEF Memory!Inside

LEMMA RefinesLoad ==
  ASSUME IInv, InBounds, NEW addr \in Word, NEW offset \in Word, NEW k \in Widths,
         LoadMem(addr, offset, k)
  PROVE  Memory!MLoad(addr + offset, k)
<1>1. pc = "wasm" /\ reserved
  BY DEF LoadMem, MayAccess, IInv, HeapInv
<1>2. EffectiveAddress(addr, offset) = addr + offset /\ Memory!Inside(addr + offset, k)
  BY AccessInside, InsideMemory DEF LoadMem
<1>3. seen' = <<addr + offset>> \o [i \in 1 .. k |-> Image[addr + offset + i - 1]]
  BY <1>1, <1>2 DEF LoadMem, Image
<1>4. Status = "running" /\ Status' = "running"
  BY <1>1 DEF Status, LoadMem
<1>5. Bytes' = Bytes /\ Image' = Image /\ HasMemory' = HasMemory /\ CbMax' = CbMax /\ EntrySize' = EntrySize
  BY LoadKeeps, SameLimits
<1> QED BY <1>2, <1>3, <1>4, <1>5 DEF Memory!MLoad, Memory!Shown

LEMMA RefinesStore ==
  ASSUME IInv, InBounds, NEW addr \in Word, NEW offset \in Word, NEW k \in Widths, NEW v \in Byte,
         StoreMem(addr, offset, k, v)
  PROVE  Memory!MStore(addr + offset, k, v)
<1>1. EffectiveAddress(addr, offset) = addr + offset /\ Memory!Inside(addr + offset, k)
  BY AccessInside, InsideMemory DEF StoreMem
<1>2. Image = heap /\ Image' = Stored(addr + offset, k, v) /\ Bytes' = Bytes /\ pc = "wasm"
  BY <1>1, StoreKeeps
<1>3. Image' = Memory!Written(addr + offset, k, v)
  BY <1>2 DEF Stored, Memory!Written
<1>4. Status = "running" /\ Status' = "running" /\ seen' = <<>>
  BY <1>2 DEF Status, StoreMem
<1>5. HasMemory' = HasMemory /\ CbMax' = CbMax /\ EntrySize' = EntrySize
  BY StoreKeeps, SameLimits
<1> QED BY <1>1, <1>2, <1>3, <1>4, <1>5 DEF Memory!MStore

LEMMA RefinesReturn == ASSUME IInv, Return PROVE Memory!MReturn \/ Memory!MDie
<1>1. Bytes' = Bytes /\ Image' = Image /\ pc = "wasm" /\ Bytes = cbHeap
  BY ReturnKeeps DEF Return
<1>2. Status = "running"
  BY <1>1, StatusOf
<1>3. CASE cbHeap > 0 /\ ~HasMemory
  <2>1. pc' = "crashed" /\ UNCHANGED memTypes /\ seen' = seen
    BY <1>3 DEF Return
  <2>2. Status' = "dead"
    BY <2>1 DEF Status
  <2>3. Pages(Bytes) \in Nat /\ cbHeap = Pages(Bytes) * PageSize
    BY <1>1, BytesPaged, PagesBack
  <2>4. Pages(Bytes) > 0
    <3>1. 0 * PageSize = 0
      BY Constants, SMT
    <3>2. Pages(Bytes) # 0
      BY <1>3, <2>3, <3>1
    <3> QED BY <2>3, <3>2, SMT
  <2> QED BY <1>1, <1>2, <1>3, <2>1, <2>2, <2>4, SameLimits DEF Memory!MDie
<1>4. CASE ~(cbHeap > 0 /\ ~HasMemory)
  <2>1. pc' = "host" /\ seen' = <<>>
    BY <1>4 DEF Return
  <2>2. Status' = "idle"
    BY <2>1 DEF Status
  <2>3. EntrySize' = Bytes' /\ HasMemory' = HasMemory /\ CbMax' = CbMax
    BY <1>1, <2>1, ReturnInv
  <2> QED BY <1>1, <1>2, <2>1, <2>2, <2>3 DEF Memory!MReturn, Pages
<1> QED BY <1>3, <1>4

LEMMA RefinesTrap == ASSUME IInv, Trap PROVE Memory!MTrap
<1>1. Bytes' = EntrySize /\ Image' = Image /\ UNCHANGED memTypes
  BY TrapKeeps
<1>2. HasMemory' = HasMemory /\ CbMax' = CbMax /\ EntrySize' = EntrySize
  BY <1>1, SameLimits
<1>3. Status = "running" /\ Status' = "idle" /\ seen' = <<>>
  BY DEF Trap, Status
<1> QED BY <1>1, <1>2, <1>3 DEF Memory!MTrap, Pages

LEMMA RefinesStutter == ASSUME UNCHANGED vars PROVE UNCHANGED Memory!mvars
<1>1. Status' = Status /\ seen' = seen
  BY DEF vars, Status
<1> QED BY <1>1, StutterKeeps, SameLimits DEF Memory!mvars, vars

LEMMA RefinesNext ==
  ASSUME IInv, InBounds, [Next]_vars PROVE [Memory!MNext]_(Memory!mvars)
<1>1. CASE ExternCall
  BY <1>1, RefinesCall DEF Memory!MNext
<1>2. CASE CurrentMemory \/ \E cpages \in Word : GrowMemory(cpages)
  <2>1. PICK n \in Word : GrowMemory(n)
    BY <1>2, ZeroIsWord DEF CurrentMemory
  <2> QED BY <2>1, RefinesGrow DEF Memory!MNext
<1>3. CASE \E addr, offset \in Word, cb \in Widths : LoadMem(addr, offset, cb)
  <2>1. PICK addr \in Word, offset \in Word, k \in Widths : LoadMem(addr, offset, k)
    BY <1>3
  <2>2. addr + offset \in Plane
    BY <2>1, AccessInside, PlaneOrder DEF LoadMem
  <2> QED BY <2>1, <2>2, RefinesLoad DEF Memory!MNext
<1>4. CASE \E addr, offset \in Word, cb \in Widths, v \in Byte : StoreMem(addr, offset, cb, v)
  <2>1. PICK addr \in Word, offset \in Word, k \in Widths, v \in Byte : StoreMem(addr, offset, k, v)
    BY <1>4
  <2>2. addr + offset \in Plane
    BY <2>1, AccessInside, PlaneOrder DEF StoreMem
  <2> QED BY <2>1, <2>2, RefinesStore DEF Memory!MNext
<1>5. CASE Return
  BY <1>5, RefinesReturn DEF Memory!MNext
<1>6. CASE Trap
  BY <1>6, RefinesTrap DEF Memory!MNext
<1>7. CASE UNCHANGED vars
  BY <1>7, RefinesStutter
<1> QED BY <1>1, <1>2, <1>3, <1>4, <1>5, <1>6, <1>7 DEF Next

(* The two places that hold the size of memory, the product and the sum in  *)
(* different widths and the plane that is never cleared are one memory to a *)
(* program that stays inside it.                                            *)
THEOREM TwoSizesAreOneMemory ==
  ASSUME InBounds PROVE Spec => ImplementsMemory
<1>1. IInv /\ [Next]_vars => [Memory!MNext]_(Memory!mvars)
  BY RefinesNext
<1> QED BY <1>1, RefinesInit, IInvAlways, PTL DEF Spec, ImplementsMemory, Memory!MSpec
=============================================================================
