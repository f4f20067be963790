------------------------------ MODULE Decoder -------------------------------
(***************************************************************************)
(* The reading of numbers and of initialiser expressions:                  *)
(* src/lib/safe_access.cpp and CbEatExpression of ExpressionService.cpp.   *)
(*                                                                         *)
(* A number is a string of bytes, each with a group of its bits and a flag *)
(* that says whether another one follows.  A step reads one byte, whatever *)
(* it is.  Words are kept as their unsigned values.                        *)
(***************************************************************************)
EXTENDS Integers, SequencesExt

CONSTANTS
  GroupBits,   \* 7
  IntBits,     \* 32
  LongBits,    \* 64
  IntBytes,    \* 5, the bytes of a number of IntBits
  LongBytes,   \* 10
  FloatBytes,  \* sizeof(float); a double has twice as many
  MaxBytes     \* bound on the bytes of a payload, or of a number in a file

Pow2[n \in Nat] == IF n = 0 THEN 1 ELSE 2 * Pow2[n - 1]
Total(s) == LET sum[k \in 0 .. Len(s)] == IF k = 0 THEN 0 ELSE sum[k - 1] + s[k] IN sum[Len(s)]

Byte == 0 .. Pow2[GroupBits + 1] - 1
Group(b) == b % Pow2[GroupBits]
More(b) == b >= Pow2[GroupBits]
Negative(b) == Group(b) >= Pow2[GroupBits - 1]

Signed == {"varint32", "varint64"}
Readers == {"varuint32", "varuint64", "file"} \cup Signed
Bits(r) == IF r \in {"varuint64", "varint64"} THEN LongBits ELSE IntBits
Limit(r) == IF r \in {"varuint64", "varint64"} THEN LongBytes ELSE IntBytes

ASSUME DecoderAssumption ==
  /\ GroupBits \in Nat \ {0} /\ IntBits \in Nat \ {0} /\ LongBits \in Nat /\ LongBits > IntBits
  /\ IntBytes \in Nat /\ LongBytes \in Nat
  /\ (IntBytes - 1) * GroupBits < IntBits /\ IntBits <= IntBytes * GroupBits
  /\ (LongBytes - 1) * GroupBits < LongBits /\ LongBits <= LongBytes * GroupBits
  /\ FloatBytes \in Nat /\ MaxBytes \in Nat

VARIABLES
  pc,        \* what the code does: "ready", "reading", "done" or how it failed
  reader,    \* the reader at work
  ret,       \* ret, or dstCur
  shift,
  byteLast,
  cb,        \* the bytes of the payload after *prgb
  cbData,    \* cbData of the caller of CbEatExpression
  expr,      \* where CbEatExpression is, "none" outside of it
  eaten,     \* history: bytes read of the expression
  field      \* history: the bytes of the number

numVars == <<reader, ret, shift, byteLast, field>>
vars == <<pc, numVars, cb, cbData, expr, eaten>>

Init ==
  /\ pc = "ready" /\ expr = "none" /\ eaten = 0
  /\ cb \in 0 .. MaxBytes /\ cbData = cb
  /\ reader = "varuint32" /\ ret = 0 /\ shift = 0 /\ byteLast = 0 /\ field = <<>>

Fail(how) == pc' = how /\ UNCHANGED <<numVars, cb, cbData, expr, eaten>>

(* n bytes are taken from the payload: the caller's own, or a copy's. *)
TakeFromCopyAndCaller(n) ==
  /\ cb' = cb - n /\ cbData' = cbData - n
  /\ eaten' = IF expr = "none" THEN 0 ELSE eaten + n
Take(n) ==
  /\ cb' = cb - n
  /\ cbData' = IF expr = "none" THEN cb - n ELSE cbData
  /\ eaten' = IF expr = "none" THEN 0 ELSE eaten + n

-----------------------------------------------------------------------------
(* Numbers. *)

Start(r) ==
  /\ pc' = "reading" /\ reader' = r
  /\ ret' = 0 /\ shift' = 0 /\ byteLast' = 0 /\ field' = <<>>

Begin(r) ==
  /\ pc = "ready" /\ expr = "none"
  /\ Start(r)
  /\ UNCHANGED <<cb, cbData, expr, eaten>>

(* ib < 5 && *pcb > 0, and fContinue. *)
GoesOnButOnce(n) == n < Limit(reader) - 1
GoesOn(n) == n < Limit(reader)
Continues ==
  /\ pc = "reading"
  /\ field # <<>> => More(Last(field))
  /\ reader # "file" => GoesOn(Len(field)) /\ cb > 0

(* ret |= (byte & 0x7F) << shift: below the width the bits are new ones. *)
PlacedWide(b) == ret + Group(b) * Pow2[shift]
Placed(b) == (ret + Group(b) * Pow2[shift]) % Pow2[Bits(reader)]

(* fread_struct shifts on past the width, which leaves it to the processor *)
(* what becomes of the bits: the count is taken modulo the width, or none  *)
(* of them remain.                                                         *)
Bit(x, k) == (x \div Pow2[k]) % 2
BitOr(x, y) == Total([i \in 1 .. IntBits |-> IF Bit(x, i - 1) = 1 \/ Bit(y, i - 1) = 1 THEN Pow2[i - 1] ELSE 0])
PlacedInFile(b) ==
  IF shift < IntBits THEN {Placed(b)}
  ELSE {ret, BitOr(ret, (Group(b) * Pow2[shift % IntBits]) % Pow2[IntBits])}

ReadByte(b) ==
  /\ Continues /\ reader # "file"
  /\ ret' = Placed(b) /\ shift' = shift + GroupBits /\ byteLast' = b
  /\ field' = Append(field, b)
  /\ Take(1)
  /\ UNCHANGED <<pc, reader, expr>>

ReadFileByte(b) ==
  /\ Continues /\ reader = "file" /\ Len(field) < MaxBytes
  /\ ret' \in PlacedInFile(b) /\ shift' = shift + GroupBits
  /\ field' = Append(field, b)
  /\ UNCHANGED <<pc, reader, byteLast, cb, cbData, expr, eaten>>

(* The file ends inside a number: throw 0. *)
EndOfFile == Continues /\ reader = "file" /\ Fail("thrown")

(* ret |= ~0 << shift: the bits of ret from k on become one. *)
OnesFrom(k) == (ret % Pow2[k]) + Pow2[Bits(reader)] - Pow2[k]

(* ~0 is an int.  Shifted by its width or more it is what the processor    *)
(* makes of it: shifted modulo the width, and then extended to 64 bits, or *)
(* as if it had been a 64-bit number.                                      *)
Extended ==
  IF shift < IntBits THEN {OnesFrom(shift)} ELSE {OnesFrom(shift % IntBits), OnesFrom(shift)}

ExtendsSignAtEnd == Negative(byteLast) /\ shift <= Bits(reader) - GroupBits
ExtendsSign == Negative(byteLast) /\ shift < Bits(reader)

Finish ==
  /\ pc = "reading" /\ ~Continues /\ pc' = "done"
  /\ ret' \in IF reader \in Signed /\ ExtendsSign THEN Extended ELSE {ret}
  /\ UNCHANGED <<reader, shift, byteLast, field, cb, cbData, expr, eaten>>

(* safe_read_buffer of a plain type, and of the characters of a string:    *)
(* not a byte is read of a payload too short for it.                       *)
Fixed(n) ==
  IF cb < n THEN Fail("thrown")
  ELSE pc' = "ready" /\ Take(n) /\ UNCHANGED <<numVars, expr>>

ReadFixed(n) == pc = "ready" /\ expr = "none" /\ Fixed(n)

(* The caller takes the number, or reads a string of that length. *)
UseNumber ==
  /\ pc = "done" /\ expr = "none" /\ pc' = "ready"
  /\ UNCHANGED <<numVars, cb, cbData, expr, eaten>>

ReadString == pc = "done" /\ expr = "none" /\ reader = "varuint32" /\ Fixed(ret)

-----------------------------------------------------------------------------
(* CbEatExpression: an opcode, its operand, and end.  It reads through     *)
(* copies of the caller's pointer and size and returns what it has eaten.  *)

Opcode == {"i32_const", "i64_const", "f32_const", "f64_const", "other"}

EatOpcode(op) ==
  /\ pc = "ready" /\ expr = "none"
  /\ IF cb = 0 THEN Fail("thrown")
     ELSE IF op = "other" THEN Fail("refused")
     ELSE /\ expr' = "operand" /\ cb' = cb - 1 /\ eaten' = 1
          /\ UNCHANGED cbData
          /\ CASE op = "i32_const" -> Start("varint32")
               [] op = "i64_const" -> Start("varint64")
               [] op = "f32_const" -> pc' = "float" /\ UNCHANGED numVars
               [] op = "f64_const" -> pc' = "double" /\ UNCHANGED numVars

EatFloat ==
  /\ pc \in {"float", "double"}
  /\ Fixed(IF pc = "float" THEN FloatBytes ELSE 2 * FloatBytes)

AtEnd == expr = "operand" /\ pc \in {"ready", "done"}

(* cbStart - cb, of which the caller advances. *)
EatEnd(isEnd) ==
  /\ AtEnd
  /\ IF cb = 0 THEN Fail("thrown")
     ELSE IF ~isEnd THEN Fail("refused")
     ELSE /\ pc' = "ready" /\ expr' = "none"
          /\ cb' = cb - 1 /\ cbData' = cbData - (eaten + 1) /\ eaten' = 0
          /\ UNCHANGED numVars

-----------------------------------------------------------------------------

Next ==
  \/ \E r \in Readers : Begin(r)
  \/ \E b \in Byte : ReadByte(b) \/ ReadFileByte(b)
  \/ EndOfFile \/ Finish \/ UseNumber \/ ReadString
  \/ ReadFixed(1) \/ ReadFixed(FloatBytes)
  \/ \E op \in Opcode : EatOpcode(op)
  \/ EatFloat
  \/ \E isEnd \in BOOLEAN : EatEnd(isEnd)

Spec == Init /\ [][Next]_vars

-----------------------------------------------------------------------------

TypeOK ==
  /\ pc \in {"ready", "reading", "done", "float", "double", "thrown", "refused"}
  /\ reader \in Readers
  /\ ret \in 0 .. Pow2[Bits(reader)] - 1
  /\ shift \in {n * GroupBits : n \in 0 .. MaxBytes} /\ byteLast \in Byte
  /\ cb \in 0 .. MaxBytes /\ cbData \in Int
  /\ expr \in {"none", "operand"} /\ eaten \in 0 .. MaxBytes
  /\ field \in Seq(Byte)

(* What LEB128 means by a string of bytes. *)
Unsigned(s) == Total([i \in 1 .. Len(s) |-> Group(s[i]) * Pow2[GroupBits * (i - 1)]])
Meaning(s) ==
  IF reader \in Signed /\ Negative(Last(s))
  THEN Unsigned(s) - Pow2[GroupBits * Len(s)] ELSE Unsigned(s)

IsNumber(s) == s # <<>> /\ ~More(Last(s)) /\ Len(s) <= Limit(reader)
ReadsMeaning == pc = "done" /\ IsNumber(field) => ret = Meaning(field) % Pow2[Bits(reader)]

(* A number of no more bytes than its type needs is what its bytes mean,   *)
(* from a file or from a payload, up to the last group, which reaches over *)
(* the end of the word; but a negative varint64 only if it fits in an int. *)
NumbersMeanTheirBytes ==
  \/ reader = "varint64" /\ Negative(byteLast) /\ shift \in IntBits .. LongBits - 1
  \/ ReadsMeaning

(* "sign extend": a negative number has its sign, whatever its length.     *)
SignIsExtended == ReadsMeaning

(* The next field begins after the number before it: a number is never cut *)
(* but by the end of the payload or at its last byte.                      *)
FieldsAreWhole ==
  pc = "done" =>
    /\ \A i \in 1 .. Len(field) - 1 : More(field[i])
    /\ field # <<>> /\ More(Last(field)) => cb = 0 \/ Len(field) = Limit(reader)
    /\ field = <<>> => cb = 0

(* The caller and CbEatExpression keep two copies of the size: they agree  *)
(* whenever the caller goes on.                                            *)
CallerFollows == pc \in {"ready", "done", "reading"} /\ expr = "none" => cbData = cb
=============================================================================
