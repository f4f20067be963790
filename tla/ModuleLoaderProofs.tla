------------------------- MODULE ModuleLoaderProofs -------------------------
(***************************************************************************)
(* Theorems about ModuleLoader, for any file: any number of sections, in   *)
(* any order, of any content.                                              *)
(***************************************************************************)
EXTENDS ModuleLoader, SequenceTheorems, WellFoundedInduction, TLAPS

(* A set of naturals that is not empty has a least element. *)
LEMMA Least ==
  ASSUME NEW S \in SUBSET Nat, S # {}
  PROVE  \E x \in S : \A y \in S : x <= y
<1>1. PICK x \in S : \A y \in S : ~(<<y, x>> \in OpToRel(<, Nat))
  BY NatLessThanWellFounded, WFMin
<1>2. ASSUME NEW y \in S, y < x PROVE FALSE
  <2>1. <<y, x>> \in Nat \X Nat
    OBVIOUS
  <2>2. <<y, x>> \in OpToRel(<, Nat)
    BY <1>2, <2>1 DEF OpToRel
  <2> QED  BY <1>1, <2>2
<1> QED  BY <1>2

LEMMA FirstIsFirst ==
  ASSUME NEW itype \in Nat, itype < Len(types), types \in Seq(Signature)
  PROVE  /\ First(itype) \in 0 .. itype
         /\ types[First(itype) + 1] = types[itype + 1]
         /\ \A j \in 0 .. First(itype) - 1 : types[j + 1] # types[itype + 1]
<1> DEFINE S == {i \in 0 .. itype : types[i + 1] = types[itype + 1]}
<1>1. itype \in S /\ S \in SUBSET Nat
  OBVIOUS
<1>2. PICK x \in S : \A y \in S : x <= y
  BY <1>1, Least
<1>3. x \in 0 .. itype /\ types[x + 1] = types[itype + 1]
  OBVIOUS
<1>4. \A j \in 0 .. x - 1 : types[j + 1] # types[itype + 1]
  <2> SUFFICES ASSUME NEW j \in 0 .. x - 1, types[j + 1] = types[itype + 1] PROVE FALSE
    OBVIOUS
  <2>1. j \in S /\ j < x
    BY <1>3
  <2> QED  BY <1>2, <2>1
<1> QED  BY <1>3, <1>4 DEF First

-----------------------------------------------------------------------------
(* Vectors.                                                                *)

LEMMA AppendIs ==
  ASSUME NEW S, NEW s \in Seq(S), NEW x \in S
  PROVE  /\ Append(s, x) \in Seq(S) /\ Len(Append(s, x)) = Len(s) + 1 /\ Len(s) \in Nat
         /\ DOMAIN s = 1 .. Len(s) /\ DOMAIN Append(s, x) = 1 .. Len(s) + 1
         /\ \A i \in 1 .. Len(s) : Append(s, x)[i] = s[i]
         /\ Append(s, x)[Len(s) + 1] = x
BY AppendProperties

LEMMA ResizedIsSeq ==
  ASSUME NEW S, 0 \in S, NEW s \in Seq(S), NEW n \in Nat
  PROVE  /\ Resized(s, n) \in Seq(S) /\ Len(Resized(s, n)) = n
         /\ \A i \in 1 .. n : Resized(s, n)[i] = IF i <= Len(s) THEN s[i] ELSE 0
<1>1. Resized(s, n) \in [1 .. n -> S]
  <2>1. Len(s) \in Nat /\ \A i \in 1 .. Len(s) : s[i] \in S
    OBVIOUS
  <2> QED  BY <2>1 DEF Resized
<1>2. Resized(s, n) \in Seq(S) /\ Len(Resized(s, n)) = n
  BY <1>1, IsASeq, LenProperties
<1> QED  BY <1>2 DEF Resized

LEMMA OverwrittenIsSeq ==
  ASSUME NEW S, NEW s \in Seq(S), NEW offset \in Nat, NEW segment \in Seq(S)
  PROVE  /\ Overwritten(s, offset, segment) \in Seq(S)
         /\ Len(Overwritten(s, offset, segment)) = Len(s)
         /\ \A i \in 1 .. Len(s) :
              Overwritten(s, offset, segment)[i] =
                IF i - offset \in 1 .. Len(segment) THEN segment[i - offset] ELSE s[i]
<1>1. DOMAIN s = 1 .. Len(s) /\ DOMAIN segment = 1 .. Len(segment) /\ Len(s) \in Nat
  OBVIOUS
<1>2. Overwritten(s, offset, segment) \in [1 .. Len(s) -> S]
  BY <1>1 DEF Overwritten
<1>3. /\ Overwritten(s, offset, segment) \in Seq(S)
      /\ Len(Overwritten(s, offset, segment)) = Len(s)
  BY <1>1, <1>2, IsASeq, LenProperties
<1> QED  BY <1>1, <1>3 DEF Overwritten

LEMMA SegmentIsSeq ==
  ASSUME NEW S, NEW segment \in Segments(S)
  PROVE  segment \in Seq(S)
<1>1. PICK n \in 0 .. MaxSegment : segment \in [1 .. n -> S]
  BY DEF Segments
<1> QED  BY <1>1, IsASeq, LoaderAssumption

(* Growing a vector keeps what segments said of it. *)
LEMMA HoldsResized ==
  ASSUME NEW S, 0 \in S, NEW s \in Seq(S), NEW n \in Nat, NEW said, Holds(s, said),
         DOMAIN said \subseteq Nat, n >= Len(s) \/ DOMAIN said = {}
  PROVE  Holds(Resized(s, n), said)
<1> DEFINE r == Resized(s, n)
<1>1. /\ r \in Seq(S) /\ Len(r) = n /\ DOMAIN r = 1 .. n /\ Len(s) \in Nat /\ DOMAIN s = 1 .. Len(s)
      /\ \A i \in 1 .. n : r[i] = IF i <= Len(s) THEN s[i] ELSE 0
  <2>1. /\ r \in Seq(S) /\ Len(r) = n
        /\ \A i \in 1 .. n : r[i] = IF i <= Len(s) THEN s[i] ELSE 0
    BY ResizedIsSeq
  <2> HIDE DEF r
  <2>2. DOMAIN r = 1 .. Len(r) /\ DOMAIN s = 1 .. Len(s) /\ Len(s) \in Nat
    BY <2>1
  <2> QED  BY <2>1, <2>2
<1> HIDE DEF r
<1>2. ASSUME NEW a \in DOMAIN said PROVE a < Len(r) /\ r[a + 1] = said[a]
  <2>1. a \in Nat /\ a < Len(s) /\ s[a + 1] = said[a] /\ n >= Len(s)
    BY DEF Holds
  <2>2. a + 1 \in 1 .. n /\ a + 1 <= Len(s) /\ a < n
    BY <1>1, <2>1
  <2> QED  BY <1>1, <2>1, <2>2
<1>3. ASSUME NEW i \in DOMAIN r, i - 1 \notin DOMAIN said PROVE r[i] = 0
  <2>1. CASE i <= Len(s)
    <3>1. i \in DOMAIN s
      BY <1>1, <2>1
    <3> QED  BY <1>1, <1>3, <2>1, <3>1 DEF Holds
  <2>2. CASE ~(i <= Len(s))
    BY <1>1, <2>2
  <2> QED  BY <2>1, <2>2
<1> QED  BY <1>2, <1>3 DEF Holds, r

(* A segment inside a vector adds what it says. *)
LEMMA HoldsOverwritten ==
  ASSUME NEW S, NEW s \in Seq(S), NEW offset \in Nat, NEW segment \in Seq(S),
         NEW said, Holds(s, said), DOMAIN said \subseteq Nat,
         segment = <<>> \/ offset + Len(segment) <= Len(s)
  PROVE  /\ Holds(Overwritten(s, offset, segment), Said(said, offset, segment))
         /\ DOMAIN Said(said, offset, segment) \subseteq Nat
         /\ DOMAIN said \subseteq DOMAIN Said(said, offset, segment)
<1> DEFINE o == Overwritten(s, offset, segment)
           new == {offset + i - 1 : i \in DOMAIN segment}
           t == Said(said, offset, segment)
<1>1. /\ Len(o) = Len(s) /\ DOMAIN o = 1 .. Len(s) /\ Len(s) \in Nat /\ Len(segment) \in Nat
      /\ DOMAIN s = 1 .. Len(s) /\ DOMAIN segment = 1 .. Len(segment)
      /\ \A i \in 1 .. Len(s) : o[i] = IF i - offset \in 1 .. Len(segment) THEN segment[i - offset] ELSE s[i]
  BY OverwrittenIsSeq
<1>2. /\ DOMAIN t = new \cup DOMAIN said
      /\ \A a \in DOMAIN t : t[a] = IF a \in new THEN segment[a - offset + 1] ELSE said[a]
  BY DEF Said
<1>3. \A a \in Nat : a \in new <=> a + 1 - offset \in 1 .. Len(segment)
  <2>1. ASSUME NEW a \in Nat, a \in new PROVE a + 1 - offset \in 1 .. Len(segment)
    <3>1. PICK i \in 1 .. Len(segment) : a = offset + i - 1
      BY <1>1, <2>1
    <3> QED  BY <3>1, <1>1
  <2>2. ASSUME NEW a \in Nat, a + 1 - offset \in 1 .. Len(segment) PROVE a \in new
    <3>1. a = offset + (a + 1 - offset) - 1
      OBVIOUS
    <3> QED  BY <1>1, <2>2, <3>1
  <2> QED  BY <2>1, <2>2
<1>4. new \subseteq Nat
  BY <1>1
<1>5. Len(segment) > 0 => offset + Len(segment) <= Len(s)
  BY <1>1
<1> HIDE DEF o, new, t
<1>6. ASSUME NEW a \in DOMAIN t PROVE a < Len(o) /\ o[a + 1] = t[a]
  <2>1. a \in Nat
    BY <1>2, <1>4
  <2>2. CASE a \in new
    <3>1. a + 1 - offset \in 1 .. Len(segment) /\ a - offset + 1 = a + 1 - offset
      BY <1>3, <2>1, <2>2
    <3>2. a + 1 \in 1 .. Len(s)
      BY <1>1, <1>5, <2>1, <3>1
    <3> QED  BY <1>1, <1>2, <2>1, <2>2, <3>1, <3>2
  <2>3. CASE a \notin new
    <3>1. a \in DOMAIN said /\ t[a] = said[a]
      BY <1>2, <2>3
    <3>2. a < Len(s) /\ s[a + 1] = said[a]
      BY <3>1 DEF Holds
    <3>3. a + 1 \in 1 .. Len(s) /\ a + 1 - offset \notin 1 .. Len(segment)
      BY <1>1, <1>3, <2>1, <2>3, <3>2
    <3> QED  BY <1>1, <3>1, <3>2, <3>3
  <2> QED  BY <2>2, <2>3
<1>7. ASSUME NEW i \in DOMAIN o, i - 1 \notin DOMAIN t PROVE o[i] = 0
  <2>1. i \in 1 .. Len(s) /\ i - 1 \in Nat /\ i - 1 \notin new /\ i - 1 \notin DOMAIN said
    BY <1>1, <1>2, <1>7
  <2>2. i - offset \notin 1 .. Len(segment)
    <3>1. (i - 1) + 1 - offset = i - offset
      BY <1>1, <2>1
    <3> QED  BY <1>3, <2>1, <3>1
  <2>3. s[i] = 0
    BY <1>1, <2>1 DEF Holds
  <2> QED  BY <1>1, <2>1, <2>2, <2>3
<1> QED  BY <1>2, <1>4, <1>6, <1>7 DEF Holds, o, t

-----------------------------------------------------------------------------
(* The inductive invariant.                                                *)

(* Linking is over before anything runs, and each of its steps before the next. *)
LinkInv ==
  /\ pc \in {"canonical", "start", "loaded"} => ImportsAreLinked
  /\ pc \in {"start", "loaded"} => EntriesAreCanonical
  /\ called # NoFn => /\ pc \in {"loaded", "refused", "terminated"}
                      /\ ImportsAreLinked /\ EntriesAreCanonical

(* In a file whose sections are in order, what a section that has not begun *)
(* would add is not there.                                                  *)
OrderInv ==
  /\ DOMAIN placed \subseteq Nat /\ DOMAIN written \subseteq Nat
  /\ ordered =>
       /\ pc = "entries" => last \in DOMAIN SectionOrder /\ section = SectionOrder[last]
       /\ last < 2 => declared.imports = <<>>
       /\ last < 3 => declared.functions = <<>>
       /\ last < 9 => DOMAIN placed = {}
       /\ last < 11 => DOMAIN written = {}

NamesInv == Len(imports) = Len(fnNames)

IInv == /\ TypeOK /\ EntriesNameTypes /\ ImportsComeFirst /\ SegmentsAreKept
        /\ LinkInv /\ OrderInv /\ NamesInv

LEMMA InitIInv == Init => IInv
<1> SUFFICES ASSUME Init PROVE IInv
  OBVIOUS
<1> USE LoaderAssumption
<1>0. Len(<<>>) = 0 /\ <<>> \o <<>> = <<>> /\ DOMAIN <<>> = {}
  OBVIOUS
<1>1. TypeOK
  BY <1>0 DEF Init, TypeOK, NoFn, Word, SectionOrder, Sections
<1>2. EntriesNameTypes /\ NamesInv /\ LinkInv
  BY <1>0 DEF Init, EntriesNameTypes, NamesInv, LinkInv
<1>3. ImportsComeFirst
  BY <1>0 DEF Init, ImportsComeFirst
<1>4. SegmentsAreKept /\ OrderInv
  BY <1>0 DEF Init, SegmentsAreKept, Holds, OrderInv
<1> QED  BY <1>1, <1>2, <1>3, <1>4 DEF IInv

(* Steps that leave m_vecfn_entries and the types alone. *)
LEMMA FnKept ==
  ASSUME IInv, UNCHANGED <<types, entries, imports, fnNames, declared>>,
         ordered' => ordered, Failed => Failed'
  PROVE  EntriesNameTypes' /\ ImportsComeFirst' /\ NamesInv'
BY DEF IInv, EntriesNameTypes, ImportsComeFirst, NamesInv

(* Steps that leave the table and the image alone. *)
LEMMA SegmentsKept ==
  ASSUME IInv, UNCHANGED <<table, placed, vecmem, written>>, ordered' => ordered
  PROVE  SegmentsAreKept'
BY DEF IInv, SegmentsAreKept, Holds

(* Section ids. *)
LEMMA Rank ==
  /\ DOMAIN SectionOrder = 1 .. 11 /\ Len(SectionOrder) = 11
  /\ \A id \in 1 .. 11 :
       /\ SectionOrder[id] \in Sections
       /\ SectionOrder[id] = "Type" => id = 1
       /\ SectionOrder[id] = "Import" => id = 2
       /\ SectionOrder[id] = "Function" => id = 3
       /\ SectionOrder[id] = "Table" => id = 4
       /\ SectionOrder[id] = "Export" => id = 7
       /\ SectionOrder[id] = "Element" => id = 9
       /\ SectionOrder[id] = "Data" => id = 11
  /\ {"Type", "Import", "Function", "Table", "Memory", "Global", "Export", "Start",
      "Element", "Code", "Data"} \subseteq Sections
<1>1. DOMAIN SectionOrder = 1 .. 11 /\ Len(SectionOrder) = 11
  BY DEF SectionOrder
<1>2. \A id \in 1 .. 11 : SectionOrder[id] \in Sections
  BY <1>1 DEF Sections
<1>3. /\ SectionOrder[1] = "Type" /\ SectionOrder[2] = "Import" /\ SectionOrder[3] = "Function"
      /\ SectionOrder[4] = "Table" /\ SectionOrder[5] = "Memory" /\ SectionOrder[6] = "Global"
      /\ SectionOrder[7] = "Export" /\ SectionOrder[8] = "Start" /\ SectionOrder[9] = "Element"
      /\ SectionOrder[10] = "Code" /\ SectionOrder[11] = "Data"
  BY DEF SectionOrder
<1>4. \A id \in 1 .. 11 : id \in {1, 2, 3, 4, 5, 6, 7, 8, 9, 10, 11}
  OBVIOUS
<1> QED  BY <1>1, <1>2, <1>3, <1>4

-----------------------------------------------------------------------------
(* The steps of the file that read no entry. *)

LEMMA FileStepPreserves ==
  ASSUME IInv, Header \/ UnknownSection \/ Malformed \/ Truncated \/ EndOfFile
  PROVE  IInv'
<1>1. /\ UNCHANGED <<section, nread, types, entries, imports, fnNames, ccode, declared, table, placed>>
      /\ UNCHANGED <<vecmem, written, cglobals, memTypes, exports, start, called, last, ordered>>
      /\ whole' \in BOOLEAN /\ ~Failed
      /\ pc' \in {"section", "link", "refused", "terminated"}
      /\ pc \notin {"loaded", "refused", "terminated"}
  BY DEF Header, UnknownSection, Malformed, Truncated, EndOfFile, IInv, TypeOK, Failed,
         fnVars, tblVars, memVars, listVars, fileVars
<1>2. TypeOK'
  BY <1>1 DEF IInv, TypeOK
<1>3. EntriesNameTypes' /\ ImportsComeFirst' /\ NamesInv' /\ SegmentsAreKept'
  BY <1>1, FnKept, SegmentsKept
<1>4. called = NoFn
  BY <1>1 DEF IInv, LinkInv
<1>5. LinkInv' /\ OrderInv'
  BY <1>1, <1>4 DEF IInv, LinkInv, OrderInv, NoFn
<1> QED  BY <1>2, <1>3, <1>5 DEF IInv

LEMMA BeginSectionPreserves ==
  ASSUME IInv, NEW id \in DOMAIN SectionOrder, BeginSection(id)
  PROVE  IInv'
<1>1. /\ UNCHANGED <<nread, types, entries, imports, fnNames, ccode, declared, table, placed>>
      /\ UNCHANGED <<vecmem, written, cglobals, memTypes, exports, start, called, whole>>
      /\ pc = "section" /\ pc' = "entries" /\ section' = SectionOrder[id]
      /\ last' = (IF id > last THEN id ELSE last) /\ ordered' = (ordered /\ id > last)
      /\ ~Failed
  BY DEF BeginSection, Failed, fnVars, tblVars, memVars, listVars
<1>2. id \in 1 .. 11 /\ last \in 0 .. 11 /\ SectionOrder[id] \in Sections
  BY Rank DEF IInv, TypeOK
<1>3. TypeOK'
  <2>1. last' \in 0 .. 11
    BY <1>1, <1>2
  <2> QED  BY <1>1, <1>2, <2>1, Rank DEF IInv, TypeOK
<1>4. EntriesNameTypes' /\ ImportsComeFirst' /\ NamesInv' /\ SegmentsAreKept'
  BY <1>1, FnKept, SegmentsKept
<1>5. LinkInv'
  BY <1>1 DEF IInv, LinkInv, NoFn
<1>6. OrderInv'
  <2>1. ordered' => ordered /\ last' = id /\ last < last'
    BY <1>1, <1>2
  <2> QED  BY <1>1, <1>2, <2>1 DEF IInv, OrderInv
<1> QED  BY <1>3, <1>4, <1>5, <1>6 DEF IInv

-----------------------------------------------------------------------------
(* The entries of a section.                                               *)

(* What every entry leaves alone, and where it is read. *)
LEMMA ReadsEntry ==
  ASSUME IInv, NEW s \in Sections, Reads(s)
  PROVE  /\ pc = "entries" /\ section = s /\ nread' \in 0 .. MaxEntries /\ ~Failed
         /\ called = NoFn
         /\ ordered => last \in 1 .. 11 /\ SectionOrder[last] = s
<1>1. pc = "entries" /\ section = s /\ nread' \in 0 .. MaxEntries /\ ~Failed
  BY LoaderAssumption DEF Reads, IInv, TypeOK, Failed
<1> QED  BY <1>1, Rank DEF IInv, LinkInv, OrderInv

(* Entries that only add to a list nothing else depends on. *)
LEMMA ListEntryPreserves ==
  ASSUME IInv,
         \/ Global
         \/ \E size \in Word : Memory(size)
         \/ \E name \in ExportName, index \in Word : Export(name, index)
         \/ \E ifn \in Word : Start(ifn)
         \/ Body
  PROVE  IInv'
<1>1. \E s \in {"Import", "Global", "Memory", "Export", "Start", "Code"} : Reads(s)
  BY DEF Global, Memory, Export, Start, Body
<1>2. /\ pc = "entries" /\ nread' \in 0 .. MaxEntries /\ ~Failed /\ called = NoFn
  BY <1>1, ReadsEntry, Rank
<1>3. /\ UNCHANGED <<types, entries, imports, fnNames, declared, table, placed, vecmem, written>>
      /\ UNCHANGED <<called, last, ordered, whole>>
      /\ pc' \in {"entries", "section", "crashed"} /\ (pc' = "entries" => section' = section)
      /\ section' \in {section, "none"}
  BY <1>2 DEF Global, Memory, Export, Start, Body, fnVars, tblVars, memVars, listVars, fileVars
<1>4. TypeOK'
  <2>1. cglobals' \in Nat /\ ccode' \in Nat
    <3>1. /\ cglobals' = cglobals \/ cglobals' = cglobals + 1
          /\ ccode' = ccode \/ ccode' = ccode + 1
      BY DEF Global, Memory, Export, Start, Body, fnVars, listVars
    <3>2. cglobals \in Nat /\ ccode \in Nat
      BY DEF IInv, TypeOK
    <3> QED  BY ONLY <3>1, <3>2
  <2>2. memTypes' \in Seq(Word)
    <3>1. memTypes' = memTypes \/ \E size \in Word : memTypes' = Append(memTypes, size)
      BY DEF Global, Memory, Export, Start, Body, listVars
    <3>2. memTypes \in Seq(Word)
      BY DEF IInv, TypeOK
    <3> QED  BY <3>1, <3>2, AppendIs
  <2>3. exports' \in Seq([strName : ExportName, index : Word])
    <3>1. \/ exports' = exports
          \/ \E name \in ExportName, index \in Word :
               exports' = Append(exports, [strName |-> name, index |-> index])
      BY DEF Global, Memory, Export, Start, Body, listVars
    <3>2. exports \in Seq([strName : ExportName, index : Word])
      BY DEF IInv, TypeOK
    <3>3. ASSUME NEW name \in ExportName, NEW index \in Word
          PROVE  Append(exports, [strName |-> name, index |-> index])
                   \in Seq([strName : ExportName, index : Word])
      <4>1. [strName |-> name, index |-> index] \in [strName : ExportName, index : Word]
        OBVIOUS
      <4> DEFINE E == [strName : ExportName, index : Word]
                 x == [strName |-> name, index |-> index]
      <4>2. exports \in Seq(E) /\ x \in E
        BY <3>2, <4>1
      <4> HIDE DEF E, x
      <4>3. Append(exports, x) \in Seq(E)
        BY <4>2, AppendIs
      <4> QED  BY <4>3 DEF E, x
    <3> QED  BY <3>1, <3>2, <3>3
  <2>4. start' \in Word \cup {NoFn}
    BY DEF Global, Memory, Export, Start, Body, IInv, TypeOK, listVars
  <2> QED  BY <1>2, <1>3, <2>1, <2>2, <2>3, <2>4 DEF IInv, TypeOK
<1>5. EntriesNameTypes' /\ ImportsComeFirst' /\ NamesInv' /\ SegmentsAreKept'
  BY <1>2, <1>3, FnKept, SegmentsKept
<1>6. LinkInv' /\ OrderInv'
  BY <1>2, <1>3 DEF IInv, LinkInv, OrderInv, NoFn
<1> QED  BY <1>4, <1>5, <1>6 DEF IInv

LEMMA FnTypePreserves ==
  ASSUME IInv, NEW sig \in Signature, FnType(sig)
  PROVE  IInv'
<1>1. /\ pc = "entries" /\ nread' \in 0 .. MaxEntries /\ ~Failed /\ called = NoFn
      /\ ordered => last \in 1 .. 11 /\ SectionOrder[last] = "Type"
  BY ReadsEntry, Rank DEF FnType
<1>2. ordered => last = 1
  BY <1>1, Rank
<1>3. /\ types' = Append(types, sig)
      /\ UNCHANGED <<pc, section, entries, imports, fnNames, ccode, declared, table, placed>>
      /\ UNCHANGED <<vecmem, written, cglobals, memTypes, exports, start, called, last, ordered, whole>>
  BY DEF FnType, tblVars, memVars, listVars, fileVars
<1>4. types' \in Seq(Signature) /\ Len(types') = Len(types) + 1 /\ Len(types) \in Nat
  BY <1>3, AppendProperties DEF IInv, TypeOK
<1>5. TypeOK'
  BY <1>1, <1>3, <1>4 DEF IInv, TypeOK
<1>6. EntriesNameTypes'
  <2>1. \A e \in DOMAIN entries : entries[e] \in Nat /\ entries[e] < Len(types)
    <3>1. entries \in Seq(Word) /\ Word \subseteq Nat
      BY DEF IInv, TypeOK, Word
    <3>2. \A e \in DOMAIN entries : entries[e] \in Word
      BY <3>1, ElementOfSeq, LenProperties
    <3> QED  BY <1>1, <3>1, <3>2 DEF IInv, EntriesNameTypes
  <2>2. \A e \in DOMAIN entries : entries[e] < Len(types')
    BY <1>4, <2>1
  <2> QED  BY <1>3, <2>2 DEF EntriesNameTypes
<1>7. ImportsComeFirst'
  <2>1. ordered => declared.imports = <<>> /\ declared.functions = <<>> /\ <<>> \o <<>> = <<>>
    BY <1>2 DEF IInv, OrderInv
  <2>2. Len(imports) <= Len(entries) /\ (ordered => Len(entries) = 0 /\ Len(imports) = 0)
    BY <1>1, <2>1 DEF IInv, ImportsComeFirst
  <2>3. ordered => DOMAIN entries = {} /\ Len(<<>>) = 0
    BY <2>2 DEF IInv, TypeOK
  <2>4. CASE ordered
    BY <1>3, <2>1, <2>2, <2>3, <2>4 DEF ImportsComeFirst
  <2>5. CASE ~ordered
    BY <1>3, <2>2, <2>5 DEF ImportsComeFirst
  <2> QED  BY <2>4, <2>5
<1>8. NamesInv' /\ SegmentsAreKept'
  BY <1>3, SegmentsKept DEF IInv, NamesInv
<1>9. LinkInv' /\ OrderInv'
  BY <1>1, <1>3 DEF IInv, LinkInv, OrderInv
<1> QED  BY <1>5, <1>6, <1>7, <1>8, <1>9 DEF IInv

(* A push to m_vecfn_entries keeps them in range or ends the loading. *)
LEMMA PushKeepsNames ==
  ASSUME IInv, ~Failed, NEW itype \in Word, PushEntry(itype), UNCHANGED types
  PROVE  /\ EntriesNameTypes' /\ entries' \in Seq(Word) /\ Len(entries') = Len(entries) + 1
         /\ Len(entries) \in Nat /\ pc' \in {"entries", "refused"}
         /\ \A e \in 1 .. Len(entries) : entries'[e] = entries[e]
         /\ entries'[Len(entries) + 1] = itype
<1>1. /\ entries \in Seq(Word) /\ entries' = Append(entries, itype)
      /\ pc' = IF itype < Len(types) THEN "entries" ELSE "refused"
  BY DEF PushEntry, RefusedUnless, NamesAType, IInv, TypeOK
<1>2. /\ entries' \in Seq(Word) /\ Len(entries') = Len(entries) + 1 /\ Len(entries) \in Nat
      /\ \A e \in 1 .. Len(entries) : entries'[e] = entries[e]
      /\ entries'[Len(entries) + 1] = itype
  BY <1>1, AppendProperties
<1>3. ASSUME ~Failed', NEW e \in DOMAIN entries' PROVE entries'[e] < Len(types)
  <2>1. e \in 1 .. Len(entries) + 1 /\ itype < Len(types)
    BY <1>1, <1>2, <1>3 DEF Failed
  <2>2. \A k \in 1 .. Len(entries) : entries[k] < Len(types)
    BY <1>1 DEF IInv, EntriesNameTypes
  <2>3. CASE e = Len(entries) + 1
    BY <1>2, <2>1, <2>3
  <2>4. CASE e \in 1 .. Len(entries)
    BY <1>2, <2>2, <2>4
  <2> QED  BY <1>2, <2>1, <2>3, <2>4
<1> QED  BY <1>1, <1>2, <1>3 DEF EntriesNameTypes

(* And keeps the entries parallel to what was declared. *)
LEMMA AppendKeepsTypes ==
  ASSUME NEW T, NEW s \in Seq(Word), NEW r \in Seq(Word), NEW x \in Word,
         Len(s) = Len(r), \A e \in DOMAIN s : T[s[e] + 1] = T[r[e] + 1]
  PROVE  /\ Len(Append(s, x)) = Len(Append(r, x))
         /\ \A e \in DOMAIN Append(s, x) : T[Append(s, x)[e] + 1] = T[Append(r, x)[e] + 1]
<1> DEFINE s1 == Append(s, x)
           r1 == Append(r, x)
<1>1. /\ Len(s1) = Len(s) + 1 /\ DOMAIN s1 = 1 .. Len(s) + 1 /\ DOMAIN s = 1 .. Len(s)
      /\ Len(s) \in Nat /\ \A i \in 1 .. Len(s) : s1[i] = s[i]
      /\ s1[Len(s) + 1] = x
  BY AppendIs
<1>2. /\ Len(r1) = Len(r) + 1
      /\ \A i \in 1 .. Len(r) : r1[i] = r[i]
      /\ r1[Len(r) + 1] = x
  BY AppendIs
<1> HIDE DEF s1, r1
<1>3. ASSUME NEW e \in DOMAIN s1 PROVE T[s1[e] + 1] = T[r1[e] + 1]
  <2>1. CASE e = Len(s) + 1
    <3>1. s1[e] = r1[e]
      BY <1>1, <1>2, <2>1
    <3> QED  BY <3>1
  <2>2. CASE e \in 1 .. Len(s)
    <3>1. s1[e] = s[e] /\ r1[e] = r[e] /\ e \in DOMAIN s
      BY <1>1, <1>2, <2>2
    <3> QED  BY <3>1
  <2> QED  BY <1>1, <2>1, <2>2
<1> QED  BY <1>1, <1>2, <1>3 DEF s1, r1

LEMMA PushKeepsTypes ==
  ASSUME IInv, ~Failed, NEW itype \in Word, PushEntry(itype), UNCHANGED types, ordered,
         NEW said, said = declared.imports \o declared.functions
  PROVE  /\ Len(entries') = Len(Append(said, itype))
         /\ \A e \in DOMAIN entries' : types'[entries'[e] + 1] = types'[Append(said, itype)[e] + 1]
<1>1. declared.imports \in Seq(Word) /\ declared.functions \in Seq(Word)
  BY DEF IInv, TypeOK
<1>2. said \in Seq(Word)
  BY <1>1, ConcatProperties
<1>3. /\ Len(entries) = Len(said) /\ entries \in Seq(Word)
      /\ \A e \in DOMAIN entries : types[entries[e] + 1] = types[said[e] + 1]
  BY DEF IInv, TypeOK, ImportsComeFirst
<1>4. entries' = Append(entries, itype)
  BY DEF PushEntry
<1>5. /\ Len(Append(entries, itype)) = Len(Append(said, itype))
      /\ \A e \in DOMAIN Append(entries, itype) :
           types[Append(entries, itype)[e] + 1] = types[Append(said, itype)[e] + 1]
  <2>1. /\ entries \in Seq(Word) /\ said \in Seq(Word) /\ itype \in Word /\ Len(entries) = Len(said)
    BY <1>2, <1>3
  <2>2. \A e \in DOMAIN entries : types[entries[e] + 1] = types[said[e] + 1]
    BY <1>3
  <2> QED  BY ONLY <2>1, <2>2, AppendKeepsTypes
<1> QED  BY <1>4, <1>5

LEMMA FnDeclPreserves ==
  ASSUME IInv, NEW itype \in Word, FnDecl(itype)
  PROVE  IInv'
<1>1. /\ pc = "entries" /\ section = "Function" /\ nread' \in 0 .. MaxEntries /\ ~Failed
      /\ called = NoFn
      /\ ordered => last \in 1 .. 11 /\ SectionOrder[last] = "Function"
  BY ReadsEntry, Rank DEF FnDecl
<1>2. ordered => last = 3
  <2>1. \A id \in 1 .. 11 : SectionOrder[id] = "Function" => id = 3
    BY Rank
  <2> QED  BY <1>1, <2>1
<1>3. /\ PushEntry(itype)
      /\ declared' = [declared EXCEPT !.functions = Append(@, itype)]
      /\ UNCHANGED <<section, types, imports, fnNames, ccode, table, placed, vecmem, written>>
      /\ UNCHANGED <<cglobals, memTypes, exports, start, called, last, ordered, whole>>
  BY DEF FnDecl, tblVars, memVars, listVars, fileVars
<1>4. /\ EntriesNameTypes' /\ entries' \in Seq(Word) /\ Len(entries') = Len(entries) + 1
      /\ Len(entries) \in Nat /\ pc' \in {"entries", "refused"}
  BY <1>1, <1>3, PushKeepsNames
<1>5. /\ declared.imports \in Seq(Word) /\ declared.functions \in Seq(Word)
      /\ declared \in [imports : Seq(Word), functions : Seq(Word)]
  BY DEF IInv, TypeOK
<1>6. /\ declared'.imports = declared.imports
      /\ declared'.functions = Append(declared.functions, itype)
      /\ declared' \in [imports : Seq(Word), functions : Seq(Word)]
  <2>1. Append(declared.functions, itype) \in Seq(Word)
    BY <1>5, AppendIs
  <2> QED  BY <1>3, <1>5, <2>1
<1>7. TypeOK'
  BY <1>1, <1>3, <1>4, <1>6 DEF IInv, TypeOK
<1>8. ImportsComeFirst'
  <2>1. Len(imports) <= Len(entries) /\ Len(imports) \in Nat
    <3>1. imports \in Seq(Nat)
      BY DEF IInv, TypeOK
    <3> QED  BY <1>1, <3>1 DEF IInv, ImportsComeFirst
  <2>2. Len(imports') <= Len(entries')
    BY <1>3, <1>4, <2>1
  <2>3. CASE ordered
    <3> DEFINE said == declared.imports \o declared.functions
    <3>1. declared'.imports \o declared'.functions = Append(said, itype)
      <4>1. declared.imports \o Append(declared.functions, itype) = Append(said, itype)
        BY <1>5, AppendProperties, ConcatProperties
      <4> QED  BY <1>6, <4>1
    <3>2. /\ Len(entries') = Len(Append(said, itype))
          /\ \A e \in DOMAIN entries' : types'[entries'[e] + 1] = types'[Append(said, itype)[e] + 1]
      BY <1>1, <1>3, <2>3, PushKeepsTypes
    <3>3. Len(imports') = Len(declared'.imports)
      BY <1>1, <1>3, <1>6, <2>3 DEF IInv, ImportsComeFirst
    <3> HIDE DEF said
    <3> QED  BY <2>2, <3>1, <3>2, <3>3 DEF ImportsComeFirst
  <2>4. CASE ~ordered
    BY <1>3, <2>2, <2>4 DEF ImportsComeFirst
  <2> QED  BY <2>3, <2>4
<1>9. NamesInv' /\ SegmentsAreKept'
  BY <1>3, SegmentsKept DEF IInv, NamesInv
<1>10. LinkInv' /\ OrderInv'
  BY <1>1, <1>2, <1>3, <1>4, <1>6 DEF IInv, LinkInv, OrderInv
<1> QED  BY <1>4, <1>7, <1>8, <1>9, <1>10 DEF IInv

LEMMA ImportFnPreserves ==
  ASSUME IInv, NEW name \in ImportName, NEW itype \in Word, ImportFn(name, itype)
  PROVE  IInv'
<1>1. /\ pc = "entries" /\ section = "Import" /\ nread' \in 0 .. MaxEntries /\ ~Failed
      /\ called = NoFn
      /\ ordered => last \in 1 .. 11 /\ SectionOrder[last] = "Import"
  BY ReadsEntry, Rank DEF ImportFn
<1>2. ordered => last = 2
  <2>1. \A id \in 1 .. 11 : SectionOrder[id] = "Import" => id = 2
    BY Rank
  <2> QED  BY <1>1, <2>1
<1>3. /\ PushEntry(itype) /\ imports' = Append(imports, 0) /\ fnNames' = Append(fnNames, name)
      /\ declared' = [declared EXCEPT !.imports = Append(@, itype)]
      /\ UNCHANGED <<section, types, ccode, table, placed, vecmem, written>>
      /\ UNCHANGED <<cglobals, memTypes, exports, start, called, last, ordered, whole>>
  BY DEF ImportFn, tblVars, memVars, listVars, fileVars
<1>4. /\ EntriesNameTypes' /\ entries' \in Seq(Word) /\ Len(entries') = Len(entries) + 1
      /\ Len(entries) \in Nat /\ pc' \in {"entries", "refused"}
  BY <1>1, <1>3, PushKeepsNames
<1>5. /\ declared.imports \in Seq(Word) /\ declared.functions \in Seq(Word)
      /\ declared \in [imports : Seq(Word), functions : Seq(Word)]
      /\ imports \in Seq(Nat) /\ fnNames \in Seq(ImportName)
  BY DEF IInv, TypeOK
<1>6. /\ declared'.imports = Append(declared.imports, itype)
      /\ declared'.functions = declared.functions
      /\ declared' \in [imports : Seq(Word), functions : Seq(Word)]
      /\ Len(declared'.imports) = Len(declared.imports) + 1
  <2>1. /\ Append(declared.imports, itype) \in Seq(Word)
        /\ Len(Append(declared.imports, itype)) = Len(declared.imports) + 1
    BY <1>5, AppendIs
  <2> QED  BY <1>3, <1>5, <2>1
<1>7. /\ imports' \in Seq(Nat) /\ Len(imports') = Len(imports) + 1 /\ Len(imports) \in Nat
  BY <1>3, <1>5, AppendIs
<1>8. /\ fnNames' \in Seq(ImportName) /\ Len(fnNames') = Len(fnNames) + 1
  BY <1>3, <1>5, AppendIs
<1>9. TypeOK'
  BY <1>1, <1>3, <1>4, <1>6, <1>7, <1>8 DEF IInv, TypeOK
<1>10. ImportsComeFirst'
  <2>1. Len(imports) <= Len(entries)
    BY <1>1 DEF IInv, ImportsComeFirst
  <2>2. Len(imports') <= Len(entries')
    BY <1>4, <1>7, <2>1
  <2>3. CASE ordered
    <3> DEFINE said == declared.imports \o declared.functions
    <3>1. declared'.imports \o declared'.functions = Append(said, itype)
      <4>1. declared.functions = <<>>
        BY <1>2, <2>3 DEF IInv, OrderInv
      <4>2. said = declared.imports
        BY <1>5, <4>1, ConcatProperties
      <4>3. Append(declared.imports, itype) \o <<>> = Append(declared.imports, itype)
        BY <1>5, AppendProperties, ConcatProperties
      <4> QED  BY <1>6, <4>1, <4>2, <4>3
    <3>2. /\ Len(entries') = Len(Append(said, itype))
          /\ \A e \in DOMAIN entries' : types'[entries'[e] + 1] = types'[Append(said, itype)[e] + 1]
      BY <1>1, <1>3, <2>3, PushKeepsTypes
    <3>3. Len(imports') = Len(declared'.imports)
      BY <1>1, <1>6, <1>7, <2>3 DEF IInv, ImportsComeFirst
    <3> HIDE DEF said
    <3> QED  BY <2>2, <3>1, <3>2, <3>3 DEF ImportsComeFirst
  <2>4. CASE ~ordered
    BY <1>3, <2>2, <2>4 DEF ImportsComeFirst
  <2> QED  BY <2>3, <2>4
<1>11. NamesInv' /\ SegmentsAreKept'
  BY <1>3, <1>7, <1>8, SegmentsKept DEF IInv, NamesInv
<1>12. LinkInv' /\ OrderInv'
  BY <1>1, <1>2, <1>3, <1>4, <1>6 DEF IInv, LinkInv, OrderInv
<1> QED  BY <1>4, <1>9, <1>10, <1>11, <1>12 DEF IInv

-----------------------------------------------------------------------------
(* The table and the image.                                                 *)

LEMMA SaidDomain ==
  ASSUME NEW S, NEW offset \in Nat, NEW segment \in Seq(S), NEW said, DOMAIN said \subseteq Nat
  PROVE  DOMAIN Said(said, offset, segment) \subseteq Nat
<1>1. DOMAIN segment = 1 .. Len(segment) /\ Len(segment) \in Nat
  OBVIOUS
<1>2. \A i \in 1 .. Len(segment) : offset + i - 1 \in Nat
  BY <1>1
<1> QED  BY <1>1, <1>2 DEF Said

LEMMA TablePreserves ==
  ASSUME IInv, NEW maximum_size \in Word, Table(maximum_size)
  PROVE  IInv'
<1>1. /\ pc = "entries" /\ nread' \in 0 .. MaxEntries /\ ~Failed /\ called = NoFn
      /\ ordered => (last \in 1 .. 11 /\ SectionOrder[last] = "Table")
  BY ReadsEntry, Rank DEF Table
<1>2. ordered => last = 4
  BY <1>1, Rank
<1>3. /\ table' = Resized(table, maximum_size) /\ pc' = "section" /\ section' = "none"
      /\ UNCHANGED <<types, entries, imports, fnNames, ccode, declared, placed, vecmem, written>>
      /\ UNCHANGED <<cglobals, memTypes, exports, start, called, last, ordered, whole>>
  BY DEF Table, fnVars, memVars, listVars, fileVars
<1>4. 0 \in Word /\ maximum_size \in Nat /\ table \in Seq(Word) /\ maximum_size < WordSize
  BY LoaderAssumption DEF IInv, TypeOK, Word
<1>5. table' \in Seq(Word) /\ Len(table') = maximum_size
  BY <1>3, <1>4, ResizedIsSeq
<1>6. TypeOK'
  BY <1>1, <1>3, <1>4, <1>5 DEF IInv, TypeOK
<1>7. EntriesNameTypes' /\ ImportsComeFirst' /\ NamesInv'
  BY <1>1, <1>3, FnKept
<1>8. SegmentsAreKept'
  <2>1. CASE ordered
    <3>1. DOMAIN placed = {} /\ Holds(table, placed) /\ Holds(vecmem, written)
      BY <1>2, <2>1 DEF IInv, OrderInv, SegmentsAreKept
    <3>2. Holds(Resized(table, maximum_size), placed)
      BY <1>4, <3>1, HoldsResized
    <3> QED  BY <1>3, <3>1, <3>2 DEF SegmentsAreKept
  <2>2. CASE ~ordered
    BY <1>3, <2>2 DEF SegmentsAreKept
  <2> QED  BY <2>1, <2>2
<1>9. LinkInv' /\ OrderInv'
  BY <1>1, <1>3 DEF IInv, LinkInv, OrderInv
<1> QED  BY <1>6, <1>7, <1>8, <1>9 DEF IInv

LEMMA ElementPreserves ==
  ASSUME IInv, NEW idxStart \in Word, NEW segment \in Segments(Word), Element(idxStart, segment)
  PROVE  IInv'
<1>1. /\ pc = "entries" /\ nread' \in 0 .. MaxEntries /\ ~Failed /\ called = NoFn
      /\ ordered => (last \in 1 .. 11 /\ SectionOrder[last] = "Element")
  BY ReadsEntry, Rank DEF Element
<1>2. ordered => last = 9
  BY <1>1, Rank
<1>3. /\ pc' = (IF InTable(idxStart, segment) THEN "entries" ELSE "refused")
      /\ UNCHANGED <<section, types, entries, imports, fnNames, ccode, declared, vecmem, written>>
      /\ UNCHANGED <<cglobals, memTypes, exports, start, called, last, ordered, whole>>
  BY DEF Element, RefusedUnless, fnVars, memVars, listVars, fileVars
<1>4. /\ segment \in Seq(Word) /\ idxStart \in Nat /\ table \in Seq(Word)
      /\ Len(table) < WordSize /\ DOMAIN placed \subseteq Nat
  BY SegmentIsSeq DEF IInv, TypeOK, OrderInv, Word
<1>5. /\ table' \in Seq(Word) /\ Len(table') = Len(table) /\ DOMAIN placed' \subseteq Nat
      /\ Holds(table, placed) => Holds(table', placed')
  <2>1. CASE InTable(idxStart, segment)
    <3>1. /\ table' = Overwritten(table, idxStart, segment)
          /\ placed' = Said(placed, idxStart, segment)
      BY <2>1 DEF Element
    <3>2. table' \in Seq(Word) /\ Len(table') = Len(table)
      BY <1>4, <3>1, OverwrittenIsSeq
    <3>3. DOMAIN placed' \subseteq Nat
      BY <1>4, <3>1, SaidDomain
    <3>4. ASSUME Holds(table, placed) PROVE Holds(table', placed')
      <4>1. segment = <<>> \/ idxStart + Len(segment) <= Len(table)
        BY <2>1 DEF InTable
      <4> QED  BY <1>4, <3>1, <3>4, <4>1, HoldsOverwritten
    <3> QED  BY <3>2, <3>3, <3>4
  <2>2. CASE ~InTable(idxStart, segment)
    <3>1. table' = table /\ placed' = placed
      BY <2>2 DEF Element, tblVars
    <3> QED  BY <1>4, <3>1
  <2> QED  BY <2>1, <2>2
<1>6. TypeOK'
  BY <1>1, <1>3, <1>4, <1>5 DEF IInv, TypeOK
<1>7. EntriesNameTypes' /\ ImportsComeFirst' /\ NamesInv'
  BY <1>1, <1>3, FnKept
<1>8. SegmentsAreKept'
  <2>1. ordered => Holds(table, placed) /\ Holds(vecmem, written)
    BY DEF IInv, SegmentsAreKept
  <2>2. Holds(vecmem, written) => Holds(vecmem', written')
    BY <1>3 DEF Holds
  <2> QED  BY <1>3, <1>5, <2>1, <2>2 DEF SegmentsAreKept
<1>9. LinkInv' /\ OrderInv'
  BY <1>1, <1>2, <1>3, <1>5 DEF IInv, LinkInv, OrderInv
<1> QED  BY <1>6, <1>7, <1>8, <1>9 DEF IInv

LEMMA GrownIs ==
  ASSUME IInv, NEW n \in Nat, n < WordSize
  PROVE  /\ Grown(n) \in Seq(Byte) /\ Len(Grown(n)) < WordSize
         /\ Holds(vecmem, written) => Holds(Grown(n), written)
<1>1. vecmem \in Seq(Byte) /\ Len(vecmem) < WordSize /\ 0 \in Byte /\ DOMAIN written \subseteq Nat
      /\ Len(vecmem) \in Nat
  BY LoaderAssumption DEF IInv, TypeOK, OrderInv
<1>2. CASE n > Len(vecmem)
  <2>1. Grown(n) = Resized(vecmem, n)
    BY <1>2 DEF Grown
  <2>2. Resized(vecmem, n) \in Seq(Byte) /\ Len(Resized(vecmem, n)) = n
    BY <1>1, ResizedIsSeq
  <2>3. ASSUME Holds(vecmem, written) PROVE Holds(Resized(vecmem, n), written)
    <3>1. n >= Len(vecmem)
      BY <1>1, <1>2
    <3> QED  BY <1>1, <2>3, <3>1, HoldsResized
  <2> QED  BY <2>1, <2>2, <2>3
<1>3. CASE ~(n > Len(vecmem))
  BY <1>1, <1>3 DEF Grown
<1> QED  BY <1>2, <1>3

LEMMA DataPreserves ==
  ASSUME IInv, NEW offset \in Word, NEW segment \in Segments(Byte), Data(offset, segment)
  PROVE  IInv'
<1>1. /\ pc = "entries" /\ nread' \in 0 .. MaxEntries /\ ~Failed /\ called = NoFn
      /\ ordered => (last \in 1 .. 11 /\ SectionOrder[last] = "Data")
  BY ReadsEntry, Rank DEF Data
<1>2. ordered => last = 11
  BY <1>1, Rank
<1> DEFINE n == (offset + Len(segment)) % WordSize
           grown == Grown(n)
<1>3. /\ pc' = pc \/ pc' = "crashed"
      /\ UNCHANGED <<section, types, entries, imports, fnNames, ccode, declared, table, placed>>
      /\ UNCHANGED <<cglobals, memTypes, exports, start, called, last, ordered, whole>>
      /\ \/ /\ segment = <<>> \/ offset + Len(segment) <= Len(grown)
            /\ vecmem' = Overwritten(grown, offset, segment)
            /\ written' = Said(written, offset, segment)
         \/ vecmem' = vecmem /\ written' = written
  BY DEF Data, fnVars, tblVars, memVars, listVars, fileVars
<1>4. /\ segment \in Seq(Byte) /\ offset \in Nat /\ Len(segment) \in Nat
      /\ WordSize \in Nat \ {0} /\ DOMAIN written \subseteq Nat
  <2>1. segment \in Seq(Byte)
    BY SegmentIsSeq
  <2> QED  BY <2>1, LoaderAssumption DEF IInv, OrderInv, Word
<1>5. n \in Nat /\ n < WordSize
  BY <1>4
<1>6. /\ grown \in Seq(Byte) /\ Len(grown) < WordSize
      /\ Holds(vecmem, written) => Holds(grown, written)
  <2> HIDE DEF n
  <2> QED  BY <1>5, GrownIs
<1> HIDE DEF grown, n
<1>7. /\ vecmem' \in Seq(Byte) /\ Len(vecmem') < WordSize /\ DOMAIN written' \subseteq Nat
      /\ Holds(vecmem, written) => Holds(vecmem', written')
  <2>1. CASE vecmem' = vecmem /\ written' = written
    BY <1>4, <2>1 DEF IInv, TypeOK
  <2>2. CASE /\ segment = <<>> \/ offset + Len(segment) <= Len(grown)
             /\ vecmem' = Overwritten(grown, offset, segment)
             /\ written' = Said(written, offset, segment)
    <3>1. vecmem' \in Seq(Byte) /\ Len(vecmem') = Len(grown)
      BY <1>4, <1>6, <2>2, OverwrittenIsSeq
    <3>2. DOMAIN written' \subseteq Nat
      BY <1>4, <2>2, SaidDomain
    <3>3. ASSUME Holds(vecmem, written) PROVE Holds(vecmem', written')
      BY <1>4, <1>6, <2>2, <3>3, HoldsOverwritten
    <3> QED  BY <1>6, <3>1, <3>2, <3>3
  <2> QED  BY <1>3, <2>1, <2>2
<1>8. TypeOK'
  BY <1>1, <1>3, <1>7 DEF IInv, TypeOK
<1>9. EntriesNameTypes' /\ ImportsComeFirst' /\ NamesInv'
  BY <1>1, <1>3, FnKept
<1>10. SegmentsAreKept'
  <2>1. ordered => Holds(table, placed) /\ Holds(vecmem, written)
    BY DEF IInv, SegmentsAreKept
  <2>2. Holds(table, placed) => Holds(table', placed')
    BY <1>3 DEF Holds
  <2> QED  BY <1>3, <1>7, <2>1, <2>2 DEF SegmentsAreKept
<1>11. LinkInv' /\ OrderInv'
  BY <1>1, <1>2, <1>3, <1>7 DEF IInv, LinkInv, OrderInv
<1> QED  BY <1>8, <1>9, <1>10, <1>11 DEF IInv

(* InitializeMemory may cut the image down, but in a file whose sections    *)
(* are in order nothing has been written by then.                           *)
LEMMA EndSectionPreserves ==
  ASSUME IInv, EndSection
  PROVE  IInv'
<1>1. /\ pc = "entries" /\ ~Failed /\ called = NoFn /\ section' = "none"
      /\ UNCHANGED <<nread, types, entries, imports, fnNames, ccode, declared, table, placed, written>>
      /\ UNCHANGED <<cglobals, memTypes, exports, start, called, last, ordered, whole>>
      /\ pc' \in {"section", "refused"}
  BY DEF EndSection, InitializeMemory, Failed, IInv, LinkInv, fnVars, tblVars, listVars, fileVars
<1>2. /\ vecmem \in Seq(Byte) /\ Len(vecmem) < WordSize /\ 0 \in Byte /\ WordSize \in Nat \ {0}
      /\ DOMAIN written \subseteq Nat
  BY LoaderAssumption DEF IInv, TypeOK, OrderInv
<1>3. \/ vecmem' = vecmem
      \/ section = "Export" /\ \E n \in Nat : n < WordSize /\ vecmem' = Resized(vecmem, n)
  <2>1. ASSUME section = "Export", vecmem' # vecmem
        PROVE  \E n \in Nat : n < WordSize /\ vecmem' = Resized(vecmem, n)
    <3>1. PICK idxMem \in 0 .. Len(memTypes) - 1 :
            vecmem' = Resized(vecmem, ImageSize(memTypes[idxMem + 1]))
      BY <2>1 DEF EndSection, InitializeMemory
    <3>2. memTypes[idxMem + 1] \in Nat
      <4>1. memTypes \in Seq(Word)
        BY DEF IInv, TypeOK
      <4>2. idxMem + 1 \in 1 .. Len(memTypes)
        BY <4>1
      <4>3. memTypes[idxMem + 1] \in Word
        BY <4>1, <4>2, ElementOfSeq
      <4> QED  BY <4>3 DEF Word
    <3>3. ASSUME NEW pages \in Nat PROVE ImageSize(pages) \in Nat /\ ImageSize(pages) < WordSize
      <4>1. pages * PageSize \in Nat
        BY LoaderAssumption
      <4> QED  BY <1>2, <4>1 DEF ImageSize
    <3> QED  BY <3>1, <3>2, <3>3
  <2> QED  BY <2>1 DEF EndSection
<1>4. vecmem' \in Seq(Byte) /\ Len(vecmem') < WordSize
  BY <1>2, <1>3, ResizedIsSeq
<1>5. TypeOK'
  BY <1>1, <1>4 DEF IInv, TypeOK
<1>6. EntriesNameTypes' /\ ImportsComeFirst' /\ NamesInv'
  BY <1>1, FnKept
<1>7. SegmentsAreKept'
  <2>1. CASE ~ordered
    BY <1>1, <2>1 DEF SegmentsAreKept
  <2>2. CASE ordered
    <3>1. Holds(table, placed) /\ Holds(vecmem, written)
      BY <2>2 DEF IInv, SegmentsAreKept
    <3>2. Holds(vecmem', written)
      <4>1. CASE vecmem' = vecmem
        BY <3>1, <4>1
      <4>2. CASE section = "Export" /\ \E n \in Nat : n < WordSize /\ vecmem' = Resized(vecmem, n)
        <5>1. last \in 1 .. 11 /\ SectionOrder[last] = "Export"
          BY <1>1, <2>2, <4>2, Rank DEF IInv, OrderInv
        <5>2. last = 7
          BY <5>1, Rank
        <5>3. DOMAIN written = {}
          BY <2>2, <5>2 DEF IInv, OrderInv
        <5> QED  BY <1>2, <3>1, <4>2, <5>3, HoldsResized
      <4> QED  BY <1>3, <4>1, <4>2
    <3> QED  BY <1>1, <3>1, <3>2 DEF SegmentsAreKept
  <2> QED  BY <2>1, <2>2
<1>8. LinkInv' /\ OrderInv'
  BY <1>1 DEF IInv, LinkInv, OrderInv
<1> QED  BY <1>5, <1>6, <1>7, <1>8 DEF IInv

-----------------------------------------------------------------------------
(* The rest of LoadModule.                                                  *)

LEMMA LinkImportsPreserves ==
  ASSUME IInv, LinkImports
  PROVE  IInv'
<1>1. /\ pc = "link" /\ ~Failed /\ called = NoFn /\ pc' \in {"canonical", "refused"}
      /\ UNCHANGED <<section, nread, types, entries, fnNames, ccode, declared, table, placed>>
      /\ UNCHANGED <<vecmem, written, cglobals, memTypes, exports, start, called, last, ordered, whole>>
  BY DEF LinkImports, Failed, IInv, LinkInv, tblVars, memVars, listVars, fileVars
<1>2. /\ imports' \in Seq(Nat) /\ Len(imports') = Len(imports)
      /\ pc' = "canonical" => ImportsAreLinked'
  <2>1. CASE \A i \in DOMAIN fnNames : \E b \in DOMAIN BuiltinNames : BuiltinNames[b] = fnNames[i]
    <3>1. imports' = Linked
      BY <2>1 DEF LinkImports
    <3>2. /\ imports \in Seq(Nat) /\ fnNames \in Seq(ImportName) /\ Len(fnNames) = Len(imports)
      BY DEF IInv, TypeOK, NamesInv
    <3>3. DOMAIN imports = 1 .. Len(imports) /\ DOMAIN fnNames = 1 .. Len(imports) /\ Len(imports) \in Nat
      BY <3>2
    <3>4. /\ DOMAIN BuiltinNames = 1 .. Len(BuiltinNames) /\ Len(BuiltinNames) \in Nat
      BY LoaderAssumption
    <3>5. \A i \in 1 .. Len(imports) :
            /\ IBuiltin(fnNames[i]) + 1 \in DOMAIN BuiltinNames
            /\ BuiltinNames[IBuiltin(fnNames[i]) + 1] = fnNames[i]
            /\ IBuiltin(fnNames[i]) \in Nat
      <4> TAKE i \in 1 .. Len(imports)
      <4> DEFINE b == CHOOSE b \in DOMAIN BuiltinNames : BuiltinNames[b] = fnNames[i]
      <4>1. b \in DOMAIN BuiltinNames /\ BuiltinNames[b] = fnNames[i]
        BY <2>1, <3>3
      <4>2. IBuiltin(fnNames[i]) = b - 1
        BY DEF IBuiltin
      <4> HIDE DEF b
      <4>3. b \in Nat /\ b >= 1 /\ (b - 1) + 1 = b
        BY <3>4, <4>1
      <4> QED  BY <4>1, <4>2, <4>3
    <3>6. Linked \in [1 .. Len(imports) -> Nat] /\ \A i \in 1 .. Len(imports) : Linked[i] = IBuiltin(fnNames[i])
      BY <3>3, <3>5 DEF Linked
    <3>7. Linked \in Seq(Nat) /\ Len(Linked) = Len(imports)
      BY <3>3, <3>6, IsASeq, LenProperties
    <3>8. ImportsAreLinked'
      BY <1>1, <3>1, <3>3, <3>5, <3>6 DEF ImportsAreLinked
    <3> QED  BY <3>1, <3>7, <3>8
  <2>2. CASE ~ \A i \in DOMAIN fnNames : \E b \in DOMAIN BuiltinNames : BuiltinNames[b] = fnNames[i]
    BY <2>2 DEF LinkImports, IInv, TypeOK
  <2> QED  BY <2>1, <2>2
<1>3. TypeOK'
  BY <1>1, <1>2 DEF IInv, TypeOK
<1>4. EntriesNameTypes' /\ ImportsComeFirst' /\ NamesInv'
  BY <1>1, <1>2 DEF IInv, EntriesNameTypes, ImportsComeFirst, NamesInv
<1>5. SegmentsAreKept'
  BY <1>1, SegmentsKept
<1>6. LinkInv' /\ OrderInv'
  BY <1>1, <1>2 DEF IInv, LinkInv, OrderInv
<1> QED  BY <1>3, <1>4, <1>5, <1>6 DEF IInv

LEMMA CanonicalisePreserves ==
  ASSUME IInv, Canonicalise
  PROVE  IInv'
<1>1. /\ pc = "canonical" /\ pc' = "start" /\ ~Failed /\ called = NoFn
      /\ entries' = [e \in DOMAIN entries |-> First(entries[e])]
      /\ UNCHANGED <<section, nread, types, imports, fnNames, ccode, declared, table, placed>>
      /\ UNCHANGED <<vecmem, written, cglobals, memTypes, exports, start, called, last, ordered, whole>>
  BY DEF Canonicalise, Failed, IInv, LinkInv, tblVars, memVars, listVars, fileVars
<1>2. /\ entries \in Seq(Word) /\ DOMAIN entries = 1 .. Len(entries) /\ Len(entries) \in Nat
      /\ types \in Seq(Signature) /\ Len(types) \in Nat
      /\ \A e \in 1 .. Len(entries) : entries[e] \in Word /\ entries[e] < Len(types)
  <2>1. entries \in Seq(Word) /\ types \in Seq(Signature)
    BY DEF IInv, TypeOK
  <2>2. DOMAIN entries = 1 .. Len(entries) /\ Len(entries) \in Nat /\ Len(types) \in Nat
    BY <2>1
  <2>3. \A e \in 1 .. Len(entries) : entries[e] \in Word
    BY <2>1
  <2>4. \A e \in 1 .. Len(entries) : entries[e] < Len(types)
    BY <1>1, <2>2 DEF IInv, EntriesNameTypes
  <2> QED  BY <2>1, <2>2, <2>3, <2>4
<1>3. \A e \in 1 .. Len(entries) :
        /\ First(entries[e]) \in Word /\ First(entries[e]) < Len(types)
        /\ types[First(entries[e]) + 1] = types[entries[e] + 1]
        /\ \A j \in 0 .. First(entries[e]) - 1 : types[j + 1] # types[First(entries[e]) + 1]
  <2> TAKE e \in 1 .. Len(entries)
  <2>1. entries[e] \in Nat /\ entries[e] < Len(types) /\ entries[e] < WordSize /\ WordSize \in Nat
    BY <1>2, LoaderAssumption DEF Word
  <2>2. /\ First(entries[e]) \in 0 .. entries[e]
        /\ types[First(entries[e]) + 1] = types[entries[e] + 1]
        /\ \A j \in 0 .. First(entries[e]) - 1 : types[j + 1] # types[entries[e] + 1]
    BY <1>2, <2>1, FirstIsFirst
  <2>3. First(entries[e]) \in Word /\ First(entries[e]) < Len(types)
    BY <1>2, <2>1, <2>2 DEF Word
  <2> QED  BY <2>2, <2>3
<1>4. /\ entries' \in Seq(Word) /\ Len(entries') = Len(entries) /\ DOMAIN entries' = 1 .. Len(entries)
      /\ \A e \in 1 .. Len(entries) : entries'[e] = First(entries[e])
  <2>1. entries' \in [1 .. Len(entries) -> Word]
    BY <1>1, <1>2, <1>3
  <2>2. entries' \in Seq(Word) /\ Len(entries') = Len(entries)
    BY <1>2, <2>1, IsASeq, LenProperties
  <2> QED  BY <1>1, <1>2, <2>1, <2>2
<1>5. TypeOK'
  BY <1>1, <1>4 DEF IInv, TypeOK
<1>6. EntriesNameTypes'
  BY <1>1, <1>3, <1>4 DEF EntriesNameTypes
<1>7. ImportsComeFirst'
  <2>1. Len(imports) <= Len(entries)
    BY <1>1 DEF IInv, ImportsComeFirst
  <2>2. CASE ordered
    <3> DEFINE said == declared.imports \o declared.functions
    <3>1. /\ Len(imports) = Len(declared.imports) /\ Len(entries) = Len(said)
          /\ \A e \in 1 .. Len(entries) : types[entries[e] + 1] = types[said[e] + 1]
      BY <1>1, <1>2, <2>2 DEF IInv, ImportsComeFirst
    <3>2. \A e \in 1 .. Len(entries) : types[entries'[e] + 1] = types[said[e] + 1]
      BY <1>3, <1>4, <3>1
    <3> QED  BY <1>1, <1>4, <2>1, <3>1, <3>2 DEF ImportsComeFirst
  <2>3. CASE ~ordered
    BY <1>1, <1>4, <2>1, <2>3 DEF ImportsComeFirst
  <2> QED  BY <2>2, <2>3
<1>8. EntriesAreCanonical'
  BY <1>1, <1>3, <1>4 DEF EntriesAreCanonical
<1>9. NamesInv' /\ SegmentsAreKept' /\ ImportsAreLinked'
  BY <1>1, SegmentsKept DEF IInv, NamesInv, LinkInv, ImportsAreLinked
<1>10. LinkInv' /\ OrderInv'
  BY <1>1, <1>8, <1>9 DEF IInv, LinkInv, OrderInv
<1> QED  BY <1>5, <1>6, <1>7, <1>9, <1>10 DEF IInv

(* A call changes nothing but what was called. *)
LEMMA CallPreserves ==
  ASSUME IInv, RunStart \/ \E name \in ExportName : CallFunction(name)
  PROVE  IInv'
<1>1. /\ pc \in {"start", "loaded"} /\ ~Failed
      /\ pc' \in {"loaded", "refused", "terminated"}
      /\ UNCHANGED <<section, nread, types, entries, imports, fnNames, ccode, declared, table, placed>>
      /\ UNCHANGED <<vecmem, written, cglobals, memTypes, exports, start, last, ordered, whole>>
  BY DEF RunStart, StartIsReady, CallFunction, Call, Failed, fnVars, tblVars, memVars, listVars, fileVars
<1>2. called' = called \/ called' \in Word
  <2>1. start # NoFn => start \in Word
    BY DEF IInv, TypeOK
  <2>2. \A i \in DOMAIN exports : exports[i].index \in Word
    <3>1. exports \in Seq([strName : ExportName, index : Word])
      BY DEF IInv, TypeOK
    <3>2. ASSUME NEW i \in DOMAIN exports PROVE exports[i] \in [strName : ExportName, index : Word]
      <4>1. i \in 1 .. Len(exports)
        BY <3>1
      <4> QED  BY <3>1, <4>1, ElementOfSeq
    <3> QED  BY <3>2
  <2>3. ASSUME RunStart PROVE called' = called \/ called' \in Word
    BY <2>1, <2>3 DEF RunStart, Call
  <2>4. ASSUME NEW name \in ExportName, CallFunction(name) PROVE called' = called \/ called' \in Word
    <3> DEFINE found == {i \in DOMAIN exports : exports[i].strName = name}
               x == CHOOSE i \in found : \A j \in found : i <= j
    <3>1. found # {} /\ Call(exports[x].index, {"loaded"})
      BY <2>4 DEF CallFunction
    <3>2. found \in SUBSET Nat
      <4>1. exports \in Seq([strName : ExportName, index : Word])
        BY DEF IInv, TypeOK
      <4>2. DOMAIN exports = 1 .. Len(exports) /\ Len(exports) \in Nat
        BY <4>1
      <4> QED  BY <4>2
    <3>3. x \in found
      <4> HIDE DEF found
      <4>1. \E i \in found : \A j \in found : i <= j
        BY <3>1, <3>2, Least
      <4> QED  BY <4>1
    <3>4. exports[x].index \in Word
      BY <2>2, <3>3
    <3> HIDE DEF x
    <3> QED  BY <3>1, <3>4 DEF Call
  <2> QED  BY <2>3, <2>4
<1>3. TypeOK'
  BY <1>1, <1>2 DEF IInv, TypeOK
<1>4. EntriesNameTypes' /\ ImportsComeFirst' /\ NamesInv' /\ SegmentsAreKept'
  BY <1>1, FnKept, SegmentsKept
<1>5. ImportsAreLinked' /\ EntriesAreCanonical'
  BY <1>1 DEF IInv, LinkInv, ImportsAreLinked, EntriesAreCanonical
<1>6. LinkInv' /\ OrderInv'
  BY <1>1, <1>5 DEF IInv, LinkInv, OrderInv
<1> QED  BY <1>3, <1>4, <1>6 DEF IInv

-----------------------------------------------------------------------------

LEMMA StutterPreserves == IInv /\ UNCHANGED vars => IInv'
<1> SUFFICES ASSUME IInv, UNCHANGED vars PROVE IInv'
  OBVIOUS
<1>1. /\ UNCHANGED <<pc, section, nread, types, entries, imports, fnNames, ccode, declared, table>>
      /\ UNCHANGED <<placed, vecmem, written, cglobals, memTypes, exports, start, called>>
      /\ UNCHANGED <<last, ordered, whole>>
  BY DEF vars, fnVars, tblVars, memVars, listVars, fileVars
<1>2. TypeOK'
  BY <1>1 DEF IInv, TypeOK
<1>3. EntriesNameTypes' /\ ImportsComeFirst' /\ NamesInv' /\ SegmentsAreKept'
  BY <1>1, FnKept, SegmentsKept DEF Failed
<1>4. LinkInv' /\ OrderInv'
  BY <1>1 DEF IInv, LinkInv, OrderInv, ImportsAreLinked, EntriesAreCanonical
<1> QED  BY <1>2, <1>3, <1>4 DEF IInv

LEMMA NextPreserves == IInv /\ [Next]_vars => IInv'
<1> SUFFICES ASSUME IInv, [Next]_vars PROVE IInv'
  OBVIOUS
<1>1. CASE Header \/ UnknownSection \/ EndOfFile \/ Malformed \/ Truncated
  BY <1>1, FileStepPreserves
<1>2. CASE EndSection
  BY <1>2, EndSectionPreserves
<1>3. CASE \E id \in DOMAIN SectionOrder : BeginSection(id)
  BY <1>3, BeginSectionPreserves
<1>4. CASE ReadEntry
  <2>1. CASE \E sig \in Signature : FnType(sig)
    BY <2>1, FnTypePreserves
  <2>2. CASE \E itype \in Word : FnDecl(itype)
    BY <2>2, FnDeclPreserves
  <2>3. CASE \E name \in ImportName, itype \in Word : ImportFn(name, itype)
    BY <2>3, ImportFnPreserves
  <2>4. CASE \E size \in Word : Table(size)
    BY <2>4, TablePreserves
  <2>5. CASE \E offset \in Word, segment \in Segments(Word) : Element(offset, segment)
    BY <2>5, ElementPreserves
  <2>6. CASE \E offset \in Word, segment \in Segments(Byte) : Data(offset, segment)
    BY <2>6, DataPreserves
  <2>7. CASE \/ Global
             \/ \E size \in Word : Memory(size)
             \/ \E name \in ExportName, index \in Word : Export(name, index)
             \/ \E ifn \in Word : Start(ifn)
             \/ Body
    BY <2>7, ListEntryPreserves
  <2> QED  BY <1>4, <2>1, <2>2, <2>3, <2>4, <2>5, <2>6, <2>7 DEF ReadEntry
<1>5. CASE LinkImports
  BY <1>5, LinkImportsPreserves
<1>6. CASE Canonicalise
  BY <1>6, CanonicalisePreserves
<1>7. CASE RunStart \/ \E name \in ExportName : CallFunction(name)
  BY <1>7, CallPreserves
<1>8. CASE UNCHANGED vars
  BY <1>8, StutterPreserves
<1> QED  BY <1>1, <1>2, <1>3, <1>4, <1>5, <1>6, <1>7, <1>8 DEF Next

(* What the loader maintains, through any file. *)
THEOREM IInvAlways == Spec => []IInv
<1>1. Init => IInv
  BY InitIInv
<1>2. IInv /\ [Next]_vars => IInv'
  BY NextPreserves
<1> QED  BY <1>1, <1>2, PTL DEF Spec

(* The vectors of a context keep their types; none is 2^32 cells long. *)
THEOREM TypeOKAlways == Spec => []TypeOK
<1>1. IInv => TypeOK
  BY DEF IInv
<1> QED  BY <1>1, IInvAlways, PTL

(* Every entry names a type, before and after it is made canonical. *)
THEOREM EntriesNameTypesAlways == Spec => []EntriesNameTypes
<1>1. IInv => EntriesNameTypes
  BY DEF IInv
<1> QED  BY <1>1, IInvAlways, PTL

(* No function runs before the imports are linked and the types canonical. *)
THEOREM NothingRunsBeforeLinkingAlways == Spec => []NothingRunsBeforeLinking
<1>1. IInv => NothingRunsBeforeLinking
  BY DEF IInv, LinkInv, NothingRunsBeforeLinking
<1> QED  BY <1>1, IInvAlways, PTL

(* In a file in order the imports are the first entries, with their types. *)
THEOREM ImportsComeFirstAlways == Spec => []ImportsComeFirst
<1>1. IInv => ImportsComeFirst
  BY DEF IInv
<1> QED  BY <1>1, IInvAlways, PTL

(* In a file in order the table and the image are what the segments said. *)
THEOREM SegmentsAreKeptAlways == Spec => []SegmentsAreKept
<1>1. IInv => SegmentsAreKept
  BY DEF IInv
<1> QED  BY <1>1, IInvAlways, PTL
=============================================================================
