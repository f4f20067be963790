---------------------------- MODULE LinearMemory ----------------------------
(***************************************************************************)
(* Linear memory over the calls of one module: src/lib/JitWriter.cpp.      *)
(*                                                                         *)
(* The size of memory lives in two places.  Between calls it is the        *)
(* initial_size of m_vecmem_types[0], in pages and 32 bits; during a call  *)
(* it is cbHeap of the ExecutionControlBlock, in bytes and 64 bits, and is *)
(* written back when the call returns and not when it traps.  The bytes    *)
(* are in a plane reserved at the first call and never moved: loads and    *)
(* stores reach any 32-bit address of it and do not look at cbHeap.        *)
(*                                                                         *)
(* A 32-bit word has WordSize values here, a page PageSize bytes.          *)
(***************************************************************************)
EXTENDS Integers, Sequences

CONSTANTS
  WordSize,   \* 2^32
  PageSize,   \* 64 * 1024
  Byte,       \* values of a byte
  Widths,     \* bytes a load or store takes: 1, 2, 4, 8
  InBounds,   \* does the program keep its accesses inside the memory?
  MaxData     \* bound of the model on the bytes of the data segments

Word  == 0 .. WordSize - 1
Plane == 0 .. 2 * WordSize - 1
MaxPages == WordSize \div PageSize

ASSUME MemoryAssumption ==
  /\ PageSize \in Nat \ {0} /\ WordSize \in Nat /\ MaxPages > 0
  /\ WordSize = MaxPages * PageSize
  /\ 0 \in Byte /\ Byte \subseteq Nat
  /\ Widths \subseteq 1 .. WordSize
  /\ InBounds \in BOOLEAN /\ MaxData \in Nat

VARIABLES
  memTypes,  \* m_vecmem_types: [initial_size, fMaxSet, maximum_size]
  vecmem,    \* m_vecmem, which the loader filled from the data segments
  reserved,  \* is m_pheap set?
  heap,      \* the plane m_pheap points to
  cbHeap,    \* cbHeap of the running call
  pc,        \* "host", "wasm", "terminated" or "crashed"
  seen,      \* what the last operation left in rax, and where it came from
  lost       \* history: the most bytes a trap has taken from the memory

vars == <<memTypes, vecmem, reserved, heap, cbHeap, pc, seen, lost>>

Limits == [initial_size : Word, fMaxSet : BOOLEAN, maximum_size : Word]
Data   == UNION {[1 .. n -> Byte] : n \in 0 .. MaxData}

HasMemory == Len(memTypes) > 0

(* initial_size * (64 * 1024), a product of 32-bit numbers. *)
EntrySize == IF HasMemory THEN (memTypes[1].initial_size * PageSize) % WordSize ELSE 0

(* cbMax: maximum_size * (64 * 1024ULL) is a product in 64 bits. *)
CbMaxNoLimit == WordSize
CbMax == IF HasMemory /\ memTypes[1].fMaxSet THEN memTypes[1].maximum_size * PageSize ELSE WordSize

(* The memcpy of m_vecmem into the plane when it is reserved. *)
Copied(data) == [a \in Plane |-> IF a < Len(data) THEN data[a + 1] ELSE 0]
ImageEveryCall == Copied(vecmem)
Image == IF reserved THEN heap ELSE Copied(vecmem)

(* add eax, offset: the carry out of 32 bits is dropped. *)
EffectiveAddress(addr, offset) == (addr + offset) % WordSize

Init ==
  /\ memTypes \in {<<>>} \cup {<<t>> : t \in Limits}
  /\ vecmem \in Data
  /\ reserved = FALSE /\ heap = [a \in Plane |-> 0]
  /\ cbHeap = 0 /\ pc = "host" /\ seen = <<>> /\ lost = 0

(* ExternCallFn up to ExternCallFnASM. *)
ExternCall ==
  /\ pc = "host" /\ pc' = "wasm"
  /\ reserved' = TRUE /\ heap' = Image
  /\ cbHeap' = EntrySize
  /\ seen' = <<>>
  /\ UNCHANGED <<memTypes, vecmem, lost>>

(* Verify(pectl->cbHeap + cb < 4GB) *)
AddressableToTheEnd(cb) == cb <= WordSize
Addressable(cb) == cb < WordSize

(* return -1, as a uint32_t. *)
FailedSigned == -1
Failed == WordSize - 1

(* GrowMemory.  What Verify throws meets frames it cannot unwind. *)
Refuse(cb) ==
  /\ cb > CbMax
  /\ seen' = <<Failed>>
  /\ UNCHANGED <<memTypes, vecmem, reserved, heap, cbHeap, pc, lost>>

Extend(cb) ==
  /\ cb <= CbMax /\ Addressable(cb)
  /\ seen' = <<cbHeap \div PageSize>>
  /\ cbHeap' = cb
  /\ UNCHANGED <<memTypes, vecmem, reserved, heap, pc, lost>>

Throw(cb) ==
  /\ cb <= CbMax /\ ~Addressable(cb)
  /\ pc' = "terminated"
  /\ UNCHANGED <<memTypes, vecmem, reserved, heap, cbHeap, seen, lost>>

GrowMemory(cpages) ==
  /\ pc = "wasm"
  /\ LET cb == cbHeap + cpages * PageSize IN Refuse(cb) \/ Extend(cb) \/ Throw(cb)

(* current_memory is grow_memory with a delta of 0. *)
CurrentMemory == GrowMemory(0)

(* An access the program may make. *)
MayAccess(addr, offset, cb) ==
  pc = "wasm" /\ (InBounds => addr + offset + cb <= cbHeap)

LoadMem(addr, offset, cbSrc) ==
  /\ MayAccess(addr, offset, cbSrc)
  /\ LET ea == EffectiveAddress(addr, offset)
     IN seen' = <<ea>> \o [i \in 1 .. cbSrc |-> heap[ea + i - 1]]
  /\ UNCHANGED <<memTypes, vecmem, reserved, heap, cbHeap, pc, lost>>

(* The bytes a store writes: of its own width, all with the value v. *)
StoredWholeCell(ea, cbDst, v) ==
  [a \in Plane |-> IF a \in ea .. ea + 1 THEN v ELSE heap[a]]
Stored(ea, cbDst, v) ==
  [a \in Plane |-> IF a \in ea .. ea + cbDst - 1 THEN v ELSE heap[a]]

StoreMem(addr, offset, cbDst, v) ==
  /\ MayAccess(addr, offset, cbDst)
  /\ heap' = Stored(EffectiveAddress(addr, offset), cbDst, v)
  /\ seen' = <<>>
  /\ UNCHANGED <<memTypes, vecmem, reserved, cbHeap, pc, lost>>

(* initial_size = cbHeap / (64 * 1024), if cbHeap > 0. *)
PagesGrown == (cbHeap - EntrySize) \div PageSize
PagesWrittenBack == cbHeap \div PageSize

(* A return from ExternCallFnASM with 1, and the rest of ExternCallFn: with *)
(* no memory declared there is no m_vecmem_types[0] to write to.            *)
Return ==
  /\ pc = "wasm"
  /\ IF cbHeap > 0 /\ ~HasMemory
     THEN pc' = "crashed" /\ UNCHANGED memTypes
     ELSE /\ pc' = "host"
          /\ memTypes' = IF cbHeap > 0
                         THEN [memTypes EXCEPT ![1].initial_size = PagesWrittenBack]
                         ELSE memTypes
  /\ seen' = IF pc' = "host" THEN <<>> ELSE seen
  /\ UNCHANGED <<vecmem, reserved, heap, cbHeap, lost>>

(* A return with 0: Verify(retV) throws to the host. *)
Trap ==
  /\ pc = "wasm" /\ pc' = "host"
  /\ lost' = IF cbHeap > lost /\ cbHeap > EntrySize THEN cbHeap ELSE lost
  /\ seen' = <<>>
  /\ UNCHANGED <<memTypes, vecmem, reserved, heap, cbHeap>>

Next ==
  \/ ExternCall \/ Return \/ Trap \/ CurrentMemory
  \/ \E cpages \in Word : GrowMemory(cpages)
  \/ \E addr, offset \in Word, cb \in Widths : LoadMem(addr, offset, cb)
  \/ \E addr, offset \in Word, cb \in Widths, v \in Byte : StoreMem(addr, offset, cb, v)

Spec == Init /\ [][Next]_vars

-----------------------------------------------------------------------------

(* The memory as the program sees it. *)
Bytes == IF pc = "host" THEN EntrySize ELSE cbHeap

TypeOK ==
  /\ memTypes \in Seq(Limits) /\ Len(memTypes) <= 1
  /\ vecmem \in Data
  /\ reserved \in BOOLEAN /\ heap \in [Plane -> Byte]
  /\ cbHeap \in Nat /\ lost \in Nat
  /\ pc \in {"host", "wasm", "terminated", "crashed"}
  /\ seen \in Seq(Nat)

(* Every byte of the memory has a 32-bit address, however often and with    *)
(* whatever limits it grows: the sum of GrowMemory and the product of       *)
(* ExternCallFn are the only ways to a cbHeap.                              *)
AddressableHeap == pc = "wasm" => cbHeap < WordSize

(* What the memory has not reached yet is zero, so that grow_memory adds    *)
(* zero pages: nothing clears them, and only the code that stays inside     *)
(* cbHeap, the copy of the data segments and the traps that take pages back *)
(* decide what is there.                                                    *)
GrownPagesAreZero ==
  \A a \in Plane : a >= Bytes /\ a >= lost /\ a >= Len(vecmem) => Image[a] = 0

(* A memory within its declared maximum never leaves it, whether cbHeap or  *)
(* initial_size holds its size.                                             *)
WithinMaximum ==
  HasMemory /\ memTypes[1].fMaxSet
    => memTypes[1].initial_size <= memTypes[1].maximum_size /\ Bytes <= CbMax
MaximumRespected == [][WithinMaximum => WithinMaximum']_vars

(* No call, however it ends, leaves a smaller memory to the next one.       *)
MemoryNeverShrinks == [][EntrySize' >= EntrySize]_vars

(* LinearMemory implements WasmMemory: one size, kept in two places.        *)
Pages(cb) == cb \div PageSize
Status == CASE pc = "host" -> "idle" [] pc = "wasm" -> "running" [] OTHER -> "dead"
Memory == INSTANCE WasmMemory WITH
  Counts   <- Word,
  declared <- HasMemory,
  limit    <- Pages(CbMax),
  size     <- Pages(Bytes),
  bytes    <- Image,
  atCall   <- Pages(EntrySize),
  status   <- Status
ImplementsMemory == Memory!MSpec
=============================================================================
