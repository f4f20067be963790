----------------------------- MODULE WasmMemory -----------------------------
(***************************************************************************)
(* What a wasm program is promised of its linear memory: bytes it stored   *)
(* stay stored from call to call, the memory has one size that grow_memory *)
(* reports and changes, and an access inside it reads and writes exactly   *)
(* the bytes it names.  LinearMemory implements it.                        *)
(*                                                                         *)
(* Two weak points of the program are part of the promise because the code *)
(* has them: a trap may take back the pages its call had grown, and the    *)
(* process ends when memory would reach four gigabytes or when a module    *)
(* without a memory has grown one.                                         *)
(***************************************************************************)
EXTENDS Integers, Sequences

CONSTANTS
  PageSize,   \* bytes of a page
  MaxPages,   \* pages that make four gigabytes
  Byte,       \* values of a byte
  Plane,      \* addresses that can hold a byte
  Counts,     \* numbers of pages grow_memory can be asked for
  Widths,     \* bytes one load or store can take
  Failed      \* what grow_memory answers when it cannot

VARIABLES
  declared,  \* does the module declare a memory?
  limit,     \* the largest number of pages it may have
  size,      \* pages it has
  bytes,     \* contents, also of addresses the memory has not reached
  atCall,    \* size when the running call began
  seen,      \* what the last operation showed to the program
  status     \* "idle" between calls, "running", "dead"

mvars == <<declared, limit, size, bytes, atCall, seen, status>>

MInit ==
  /\ declared \in BOOLEAN /\ limit \in Nat /\ size \in Nat
  /\ bytes \in [Plane -> Byte]
  /\ atCall = size /\ seen = <<>> /\ status = "idle"

Inside(a, k) == a + k <= size * PageSize
Shown(a, k)  == <<a>> \o [i \in 1 .. k |-> bytes[a + i - 1]]
Written(a, k, v) == [b \in Plane |-> IF b \in a .. a + k - 1 THEN v ELSE bytes[b]]

MCall ==
  /\ status = "idle" /\ status' = "running"
  /\ atCall' = size /\ seen' = <<>>
  /\ UNCHANGED <<declared, limit, size, bytes>>

MLoad(a, k) ==
  /\ status = "running" /\ Inside(a, k)
  /\ seen' = Shown(a, k)
  /\ UNCHANGED <<declared, limit, size, bytes, atCall, status>>

MStore(a, k, v) ==
  /\ status = "running" /\ Inside(a, k)
  /\ bytes' = Written(a, k, v) /\ seen' = <<>>
  /\ UNCHANGED <<declared, limit, size, atCall, status>>

(* grow_memory; with n = 0 it is current_memory. *)
MGrow(n) ==
  /\ status = "running"
  /\ \/ size + n > limit /\ seen' = <<Failed>> /\ size' = size
     \/ size + n <= limit /\ size + n < MaxPages /\ seen' = <<size>> /\ size' = size + n
  /\ UNCHANGED <<declared, limit, bytes, atCall, status>>

MReturn ==
  /\ status = "running" /\ status' = "idle"
  /\ atCall' = size /\ seen' = <<>>
  /\ UNCHANGED <<declared, limit, size, bytes>>

MTrap ==
  /\ status = "running" /\ status' = "idle"
  /\ size' \in {size, atCall} /\ atCall' = size' /\ seen' = <<>>
  /\ UNCHANGED <<declared, limit, bytes>>

MDie ==
  /\ status = "running" /\ status' = "dead"
  /\ \/ \E n \in Counts : MaxPages <= size + n /\ size + n <= limit
     \/ ~declared /\ size > 0
  /\ UNCHANGED <<declared, limit, size, bytes, atCall, seen>>

MNext ==
  \/ MCall \/ MReturn \/ MTrap \/ MDie
  \/ \E n \in Counts : MGrow(n)
  \/ \E a \in Plane, k \in Widths : MLoad(a, k)
  \/ \E a \in Plane, k \in Widths, v \in Byte : MStore(a, k, v)

MSpec == MInit /\ [][MNext]_mvars
=============================================================================
