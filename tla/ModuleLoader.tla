---------------------------- MODULE ModuleLoader ----------------------------
(***************************************************************************)
(* The loading of a module: src/lib/WasmContext.cpp.                       *)
(*                                                                         *)
(* LoadModule reads sections until the file ends, then links the imports,  *)
(* rewrites the type of every function by its canonical index and runs the *)
(* start function.  Sections come in any order and any number of times,    *)
(* and most of what one section says about another is not checked.  The    *)
(* file is not fixed in advance: each step reads whatever may come next.   *)
(* load_section reads a payload before it parses it, so a payload that     *)
(* ends too early is a different thing from a file that does.              *)
(***************************************************************************)
EXTENDS Integers, Sequences

CONSTANTS
  WordSize,      \* 2^32
  PageSize,      \* WASM_PAGE_SIZE
  Byte,          \* values of a byte
  Signature,     \* function types, up to operator==
  BuiltinNames,  \* the names in BuiltinMap, in order
  ImportName,    \* names a module may import
  ExportName,    \* names a module may export
  MaxSegment,    \* bound on the length of a segment
  MaxEntries     \* bound on the entries of all sections of a file

Word == 0 .. WordSize - 1
SectionOrder == <<"Type", "Import", "Function", "Table", "Memory", "Global",
                  "Export", "Start", "Element", "Code", "Data">>
Sections == {SectionOrder[id] : id \in DOMAIN SectionOrder}

ASSUME LoaderAssumption ==
  /\ WordSize \in Nat \ {0} /\ PageSize \in Nat \ {0}
  /\ 0 \in Byte /\ Byte \subseteq Nat
  /\ BuiltinNames \in Seq(ImportName)
  /\ MaxSegment \in Nat /\ MaxEntries \in Nat

VARIABLES
  pc,         \* where LoadModule is, or how it ended
  section,    \* the section whose entries are being read
  nread,      \* entries read so far
  types,      \* m_vecfn_types
  entries,    \* m_vecfn_entries
  imports,    \* m_vecimports: a placeholder, then the number of a builtin
  fnNames,    \* m_vecimportFnNames
  ccode,      \* m_vecfn_code.size()
  cglobals,   \* m_vecglbls.size()
  table,      \* m_vecIndirectFnTable
  memTypes,   \* initial_size of each of m_vecmem_types
  exports,    \* m_vecexports; the kind of an export is never looked at
  vecmem,     \* m_vecmem
  start,      \* m_ifnStart if m_fStartFn, else NoFn
  called,     \* the last function given to ExternCallFn
  last,       \* history: the highest section begun
  ordered,    \* history: were the sections in order, each at most once?
  declared,   \* history: the types given to imports and to functions
  placed,     \* history: what the element segments put at each index
  written,    \* history: what the data segments put at each address
  whole       \* history: was every section of the file loaded?

fnVars   == <<types, entries, imports, fnNames, ccode, declared>>
tblVars  == <<table, placed>>
memVars  == <<vecmem, written>>
listVars == <<cglobals, memTypes, exports, start>>
fileVars == <<last, ordered, whole>>
vars == <<pc, section, nread, fnVars, tblVars, memVars, listVars, called, fileVars>>

NoFn == WordSize

(* std::vector::resize: what is added is zero. *)
Resized(s, n) == [i \in 1 .. n |-> IF i <= Len(s) THEN s[i] ELSE 0]

(* s with a segment copied to offset, which counts from 0. *)
Overwritten(s, offset, segment) ==
  [i \in DOMAIN s |-> IF i - offset \in DOMAIN segment THEN segment[i - offset] ELSE s[i]]

Init ==
  /\ pc = "header" /\ section = "none" /\ nread = 0
  /\ types = <<>> /\ entries = <<>> /\ imports = <<>> /\ fnNames = <<>> /\ ccode = 0
  /\ table = <<>> /\ vecmem = <<>>
  /\ cglobals = 0 /\ memTypes = <<>> /\ exports = <<>> /\ start = NoFn
  /\ called = NoFn
  /\ last = 0 /\ ordered = TRUE /\ whole = TRUE
  /\ declared = [imports |-> <<>>, functions |-> <<>>]
  /\ placed = <<>> /\ written = <<>>

-----------------------------------------------------------------------------
(* The file. *)

(* Magic and version, or Verify, or the end of the file. *)
Header ==
  /\ pc = "header"
  /\ pc' \in {"section", "refused", "terminated"}
  /\ UNCHANGED <<section, nread, fnVars, tblVars, memVars, listVars, called, fileVars>>

(* The payload is read whole; custom sections are skipped. *)
BeginSection(id) ==
  /\ pc = "section" /\ pc' = "entries"
  /\ section' = SectionOrder[id]
  /\ last' = IF id > last THEN id ELSE last
  /\ ordered' = (ordered /\ id > last)
  /\ UNCHANGED <<nread, fnVars, tblVars, memVars, listVars, called, whole>>

(* throw std::string("unknown section"): no host catches a string. *)
UnknownSection ==
  /\ pc = "section" /\ pc' = "terminated"
  /\ UNCHANGED <<section, nread, fnVars, tblVars, memVars, listVars, called, fileVars>>

(* catch (int) and feof: the file ends, before a section or inside one. *)
EndOfFile ==
  /\ pc = "section" /\ pc' = "link"
  /\ whole' \in BOOLEAN
  /\ UNCHANGED <<section, nread, fnVars, tblVars, memVars, listVars, called, last, ordered>>

(* Verify in one of the loaders: a wrong tag, an expression that is not    *)
(* constant, or, but for imports and data, bytes left over.                *)
Malformed ==
  /\ pc = "entries" /\ section # "Start" /\ pc' = "refused"
  /\ UNCHANGED <<section, nread, fnVars, tblVars, memVars, listVars, called, fileVars>>

(* throw 0 where a payload ends in the middle of an entry, which no host   *)
(* catches.  A number after the end of a payload is read as 0, so that     *)
(* functions and start do not throw.                                       *)
Truncated ==
  /\ pc = "entries" /\ section \notin {"Function", "Start"} /\ pc' = "terminated"
  /\ UNCHANGED <<section, nread, fnVars, tblVars, memVars, listVars, called, fileVars>>

-----------------------------------------------------------------------------
(* The entries of the sections. *)

Reads(s) ==
  /\ pc = "entries" /\ section = s
  /\ nread < MaxEntries /\ nread' = nread + 1

RefusedUnless(ok) == pc' = IF ok THEN "entries" ELSE "refused"

FnType(sig) ==
  /\ Reads("Type")
  /\ types' = Append(types, sig)
  /\ UNCHANGED <<pc, section, entries, imports, fnNames, ccode, declared,
                 tblVars, memVars, listVars, called, fileVars>>

(* A push to m_vecfn_entries, and the Verify after it. *)
NamesATypeOrNext(itype) == itype <= Len(types)
NamesAType(itype) == itype < Len(types)
PushEntry(itype) == entries' = Append(entries, itype) /\ RefusedUnless(NamesAType(itype))

FnDecl(itype) ==
  /\ Reads("Function")
  /\ PushEntry(itype)
  /\ declared' = [declared EXCEPT !.functions = Append(@, itype)]
  /\ UNCHANGED <<section, types, imports, fnNames, ccode,
                 tblVars, memVars, listVars, called, fileVars>>

ImportFn(name, itype) ==
  /\ Reads("Import")
  /\ imports' = Append(imports, 0)
  /\ fnNames' = Append(fnNames, name)
  /\ PushEntry(itype)
  /\ declared' = [declared EXCEPT !.imports = Append(@, itype)]
  /\ UNCHANGED <<section, types, ccode, tblVars, memVars, listVars, called, fileVars>>

(* A global, imported (its value is then 0) or with an initialiser. *)
Global ==
  /\ Reads("Import") \/ Reads("Global")
  /\ cglobals' = cglobals + 1
  /\ UNCHANGED <<pc, section, fnVars, tblVars, memVars, memTypes, exports, start, called, fileVars>>

(* The table takes maximum_size, which is not initialised when the table   *)
(* has no maximum.  More than one table in a section is malformed.         *)
Table(maximum_size) ==
  /\ Reads("Table")
  /\ table' = Resized(table, maximum_size)
  /\ pc' = "section" /\ section' = "none"
  /\ UNCHANGED <<fnVars, placed, memVars, listVars, called, fileVars>>

Memory(initial_size) ==
  /\ Reads("Memory")
  /\ memTypes' = Append(memTypes, initial_size)
  /\ UNCHANGED <<pc, section, fnVars, tblVars, memVars, cglobals, exports, start, called, fileVars>>

Export(name, index) ==
  /\ Reads("Export")
  /\ exports' = Append(exports, [strName |-> name, index |-> index])
  /\ UNCHANGED <<pc, section, fnVars, tblVars, memVars, cglobals, memTypes, start, called, fileVars>>

(* Of several start sections the last one counts; bytes left over do not. *)
Start(ifn) ==
  /\ Reads("Start")
  /\ start' = ifn
  /\ pc' = "section" /\ section' = "none"
  /\ UNCHANGED <<fnVars, tblVars, memVars, cglobals, memTypes, exports, called, fileVars>>

(* What a segment says, cell by cell, over what was said before. *)
Said(before, offset, segment) ==
  LET new == {offset + i - 1 : i \in DOMAIN segment}
  IN [a \in new \cup DOMAIN before |-> IF a \in new THEN segment[a - offset + 1] ELSE before[a]]

(* Verify(idxStart + ielem < m_vecIndirectFnTable.size()), element by element. *)
InTable(idxStart, segment) == segment # <<>> => idxStart + Len(segment) <= Len(table)

Element(idxStart, segment) ==
  /\ Reads("Element")
  /\ RefusedUnless(InTable(idxStart, segment))
  /\ IF InTable(idxStart, segment)
     THEN /\ table' = Overwritten(table, idxStart, segment)
          /\ placed' = Said(placed, idxStart, segment)
     ELSE UNCHANGED tblVars
  /\ UNCHANGED <<section, fnVars, memVars, listVars, called, fileVars>>

(* vecbytecode.back() is asked of an empty body as of any other. *)
Body ==
  /\ Reads("Code")
  /\ pc' \in {"entries", "crashed"}
  /\ ccode' = ccode + 1
  /\ UNCHANGED <<section, types, entries, imports, fnNames, declared,
                 tblVars, memVars, listVars, called, fileVars>>

(* offset + cb is a sum of 32-bit numbers.  The image grows to it and the  *)
(* bytes go to offset: beyond the image when the sum has wrapped, and then *)
(* nothing is known any more ("crashed").                                  *)
GrownFresh(n) == IF n > Len(vecmem) THEN [i \in 1 .. n |-> 0] ELSE vecmem
Grown(n) == IF n > Len(vecmem) THEN Resized(vecmem, n) ELSE vecmem

Data(offset, segment) ==
  /\ Reads("Data")
  /\ LET grown == Grown((offset + Len(segment)) % WordSize)
     IN IF segment = <<>> \/ offset + Len(segment) <= Len(grown)
        THEN /\ vecmem' = Overwritten(grown, offset, segment)
             /\ written' = Said(written, offset, segment)
             /\ UNCHANGED pc
        ELSE pc' = "crashed" /\ UNCHANGED memVars
  /\ UNCHANGED <<section, fnVars, tblVars, listVars, called, fileVars>>

-----------------------------------------------------------------------------
(* The end of a section. *)

(* int idxMem = exp.index *)
ToInt(w) == IF w < WordSize \div 2 THEN w ELSE w - WordSize

(* initial_size * WASM_PAGE_SIZE, a product of 32-bit numbers. *)
ImageSizeWide(pages) == pages * PageSize
ImageSize(pages) == (pages * PageSize) % WordSize

(* InitializeMemory, after every export section: the image takes the size  *)
(* of the memory exported under this name, whatever the kind of the export.*)
InitializeMemory ==
  LET found  == {i \in DOMAIN exports : exports[i].strName = "memory"}
      idxMem == ToInt(exports[CHOOSE i \in found : \A j \in found : j <= i].index)
      valid  == /\ idxMem \in 0 .. Len(memTypes) - 1
                /\ \A i \in found : (\E j \in found : i < j) => ToInt(exports[i].index) = -1
  IN CASE found = {} -> pc' = "section" /\ UNCHANGED vecmem
       [] found # {} /\ ~valid -> pc' = "refused" /\ UNCHANGED vecmem
       [] OTHER -> /\ pc' = "section"
                   /\ vecmem' = Resized(vecmem, ImageSize(memTypes[idxMem + 1]))

EndSection ==
  /\ pc = "entries" /\ section # "Start" /\ section' = "none"
  /\ IF section = "Export" THEN InitializeMemory ELSE pc' = "section" /\ UNCHANGED vecmem
  /\ UNCHANGED <<nread, fnVars, tblVars, written, listVars, called, fileVars>>

-----------------------------------------------------------------------------
(* The rest of LoadModule, and CallFunction. *)

(* IBuiltinFromName, for a name it does not refuse. *)
IBuiltin(name) == (CHOOSE b \in DOMAIN BuiltinNames : BuiltinNames[b] = name) - 1

Linked == [i \in DOMAIN imports |-> IBuiltin(fnNames[i])]

LinkImports ==
  /\ pc = "link"
  /\ IF \A i \in DOMAIN fnNames : \E b \in DOMAIN BuiltinNames : BuiltinNames[b] = fnNames[i]
     THEN imports' = Linked /\ pc' = "canonical"
     ELSE pc' = "refused" /\ UNCHANGED imports
  /\ UNCHANGED <<section, nread, types, entries, fnNames, ccode, declared,
                 tblVars, memVars, listVars, called, fileVars>>

OneBefore(itype) == IF itype = 0 THEN 0 ELSE itype - 1

(* The first type equal to the one an entry names, which is what the scan  *)
(* of ITypeCanonicalFromIType finds (CanonicalTypes).                      *)
First(itype) ==
  CHOOSE i \in 0 .. itype : /\ types[i + 1] = types[itype + 1]
                            /\ \A j \in 0 .. i - 1 : types[j + 1] # types[itype + 1]

Canonicalise ==
  /\ pc = "canonical" /\ pc' = "start"
  /\ entries' = [e \in DOMAIN entries |-> First(entries[e])]
  /\ UNCHANGED <<section, nread, types, imports, fnNames, ccode, declared,
                 tblVars, memVars, listVars, called, fileVars>>

(* m_vecfn_entries.at(ifn) throws std::out_of_range, which no host catches; *)
(* what a function does once it runs is left to the other modules.          *)
Call(ifn, ends) ==
  IF ifn < Len(entries) THEN called' = ifn /\ pc' \in ends \cup {"terminated"}
                        ELSE pc' = "terminated" /\ UNCHANGED called

StartIsReadyEarly == pc = "start" \/ (pc = "canonical" /\ start # NoFn)
StartIsReady == pc = "start"

(* A trap in the start function is an Exception, as any Verify is. *)
RunStart ==
  /\ StartIsReady
  /\ IF start = NoFn THEN pc' = "loaded" /\ UNCHANGED called
                     ELSE Call(start, {"loaded", "refused"})
  /\ UNCHANGED <<section, nread, fnVars, tblVars, memVars, listVars, fileVars>>

(* The first export of the name is called, whatever its kind. *)
CallFunction(name) ==
  /\ pc = "loaded"
  /\ LET found == {i \in DOMAIN exports : exports[i].strName = name}
     IN /\ found # {}
        /\ Call(exports[CHOOSE i \in found : \A j \in found : i <= j].index, {"loaded"})
  /\ UNCHANGED <<section, nread, fnVars, tblVars, memVars, listVars, fileVars>>

-----------------------------------------------------------------------------

Segments(S) == UNION {[1 .. n -> S] : n \in 0 .. MaxSegment}

ReadEntry ==
  \/ \E sig \in Signature : FnType(sig)
  \/ \E itype \in Word : FnDecl(itype)
  \/ \E name \in ImportName, itype \in Word : ImportFn(name, itype)
  \/ Global
  \/ \E size \in Word : Table(size) \/ Memory(size)
  \/ \E name \in ExportName, index \in Word : Export(name, index)
  \/ \E ifn \in Word : Start(ifn)
  \/ \E offset \in Word, segment \in Segments(Word) : Element(offset, segment)
  \/ Body
  \/ \E offset \in Word, segment \in Segments(Byte) : Data(offset, segment)

Next ==
  \/ Header \/ UnknownSection \/ EndOfFile \/ Malformed \/ Truncated \/ EndSection
  \/ \E id \in DOMAIN SectionOrder : BeginSection(id)
  \/ ReadEntry
  \/ LinkImports \/ Canonicalise \/ RunStart
  \/ \E name \in ExportName : CallFunction(name)

Spec == Init /\ [][Next]_vars

-----------------------------------------------------------------------------

Failed == pc \in {"refused", "terminated", "crashed"}

TypeOK ==
  /\ pc \in {"header", "section", "entries", "link", "canonical", "start", "loaded",
             "refused", "terminated", "crashed"}
  /\ section \in Sections \cup {"none"}
  /\ nread \in 0 .. MaxEntries
  /\ types \in Seq(Signature) /\ entries \in Seq(Word)
  /\ imports \in Seq(Nat) /\ fnNames \in Seq(ImportName)
  /\ ccode \in Nat /\ cglobals \in Nat
  /\ table \in Seq(Word) /\ Len(table) < WordSize
  /\ vecmem \in Seq(Byte) /\ Len(vecmem) < WordSize
  /\ memTypes \in Seq(Word)
  /\ exports \in Seq([strName : ExportName, index : Word])
  /\ start \in Word \cup {NoFn} /\ called \in Word \cup {NoFn}
  /\ last \in 0 .. Len(SectionOrder) /\ ordered \in BOOLEAN /\ whole \in BOOLEAN
  /\ declared \in [imports : Seq(Word), functions : Seq(Word)]

(* ExternCallFn and CompileFn index m_vecfn_types with an entry and do not  *)
(* test it: whatever the order of the sections, and after the entries have  *)
(* been rewritten, each one names a type.                                   *)
EntriesNameTypes == ~Failed => \A e \in DOMAIN entries : entries[e] < Len(types)

ImportsAreLinked ==
  \A i \in DOMAIN fnNames :
    imports[i] + 1 \in DOMAIN BuiltinNames /\ BuiltinNames[imports[i] + 1] = fnNames[i]
EntriesAreCanonical ==
  \A e \in DOMAIN entries : \A j \in 0 .. entries[e] - 1 : types[j + 1] # types[entries[e] + 1]

(* No function runs, the start function included, while an import still     *)
(* holds the placeholder that load_imports pushed (which is the number of a *)
(* builtin) or an entry is not the first index of its type.                 *)
NothingRunsBeforeLinking == called # NoFn => ImportsAreLinked /\ EntriesAreCanonical

(* The constructor of JitWriter fills one slot for each of m_vecimports and *)
(* CompileFn subtracts their number: imports have the first entries, each   *)
(* of the type it was declared with, if the file keeps the order of the     *)
(* sections; in any file they fit in the vector.                            *)
ImportsComeFirst ==
  ~Failed =>
    /\ Len(imports) <= Len(entries)
    /\ ordered =>
         LET said == declared.imports \o declared.functions
         IN /\ Len(imports) = Len(declared.imports) /\ Len(entries) = Len(said)
            /\ \A e \in DOMAIN entries : types[entries[e] + 1] = types[said[e] + 1]

(* The table and the image of the memory are what the segments said, the    *)
(* last one at each place, and zero elsewhere, if the sections came in      *)
(* order: no resize loses or invents a cell.  Zero is a function like any   *)
(* other to an entry of the table.                                          *)
Holds(s, said) ==
  /\ \A a \in DOMAIN said : a < Len(s) /\ s[a + 1] = said[a]
  /\ \A i \in DOMAIN s : i - 1 \notin DOMAIN said => s[i] = 0
SegmentsAreKept == ordered => Holds(table, placed) /\ Holds(vecmem, written)

(* A file is loaded whole or not at all: "valid to end the file at a        *)
(* section boundary".                                                       *)
LoadedWhole == pc = "loaded" => whole
=============================================================================
