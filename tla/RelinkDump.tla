----------------------------- MODULE RelinkDump -----------------------------
(***************************************************************************)
(* relink/dump.c turns a PE executable into an assembly file: dump_asm     *)
(* walks every section byte by byte and emits what the assembler needs to  *)
(* rebuild it, with the export labels, the import slots and the string     *)
(* resources replaced by symbols the linker resolves.                      *)
(*                                                                         *)
(* An image is what the table readers of dump.c leave in memory: the       *)
(* section headers, the export addresses (and which of them have a name),  *)
(* the import slots and the string resources.  The assembler is modelled   *)
(* by what it does with the directives: text[s] is the contents it gives   *)
(* section s, one record per byte that says where the byte comes from.     *)
(***************************************************************************)
EXTENDS Naturals, Sequences

CONSTANT Images         \* the images the program may be given

SlotSize == 4           \* dump_do_import: one .long

-----------------------------------------------------------------------------
(* What an image is, and what makes one well formed.                       *)

\* The symbols that stand for bytes: import slots and string resources, as
\* half-open address ranges.
ImportRange(img, i) == [lo |-> img.imports[i], hi |-> img.imports[i] + SlotSize]
StringRange(img, i) == [lo |-> img.strings[i].addr,
                        hi |-> img.strings[i].addr + img.strings[i].size]

Disjoint(r, q)     == r.hi <= q.lo \/ q.hi <= r.lo
Within(r, lo, hi)  == lo <= r.lo /\ r.hi <= hi
\* A range lies on one side of the section or inside it.
Straddles(r, sec)  == /\ r.lo < sec.addr + sec.vsize
                      /\ sec.addr < r.hi
                      /\ ~Within(r, sec.addr, sec.addr + sec.vsize)

SectionType == [addr : Nat, vsize : Nat, dsize : Nat, offset : Nat]
ExportType  == [addr : Nat, named : BOOLEAN]
StringType  == [addr : Nat, id : Nat, size : Nat \ {0}]
\* The file may be unreadable where the name of the exporting library stands, or
\* where a slot's library or name does (unread, the numbers of such slots).
ImageType   == [sections  : Seq(SectionType),
                exports   : Seq(ExportType),
                nameNum   : Nat,
                exportDll : BOOLEAN,
                imports   : Seq(Nat),
                unread    : SUBSET Nat,
                strings   : Seq(StringType)]

WellFormed(img) ==
  /\ \A i, j \in DOMAIN img.imports :
        i # j => Disjoint(ImportRange(img, i), ImportRange(img, j))
  /\ \A i, j \in DOMAIN img.strings :
        i # j => Disjoint(StringRange(img, i), StringRange(img, j))
  /\ \A i \in DOMAIN img.imports, j \in DOMAIN img.strings :
        Disjoint(ImportRange(img, i), StringRange(img, j))
  /\ \A s \in DOMAIN img.sections :
        /\ \A i \in DOMAIN img.imports :
              ~Straddles(ImportRange(img, i), img.sections[s])
        /\ \A i \in DOMAIN img.strings :
              ~Straddles(StringRange(img, i), img.sections[s])
        \* a string resource inside a section is stored in the file
        /\ \A i \in DOMAIN img.strings :
              LET r == StringRange(img, i)
                  z == img.sections[s]
              IN  Within(r, z.addr, z.addr + z.vsize) => r.hi <= z.addr + z.dsize
  \* the slots are read out of the sections' data, the strings are where the loader
  \* has something, and no sections overlap
  /\ \A i \in DOMAIN img.imports : \E s \in DOMAIN img.sections :
        LET z == img.sections[s]
        IN  Within(ImportRange(img, i), z.addr, z.addr + z.vsize)
  /\ \A i \in DOMAIN img.strings : \E s \in DOMAIN img.sections :
        LET z == img.sections[s]
        IN  Within(StringRange(img, i), z.addr, z.addr + z.vsize)
  /\ \A s, t \in DOMAIN img.sections :
        s < t => img.sections[s].addr + img.sections[s].vsize <= img.sections[t].addr

ASSUME ImagesAssumption == \A img \in Images : img \in ImageType /\ WellFormed(img)

-----------------------------------------------------------------------------
(* What the assembler puts in a section.                                   *)

FileByte(o)    == [src |-> "file", of |-> 0, at |-> o]
ZeroByte       == [src |-> "zero", of |-> 0, at |-> 0]
SlotByte(i, k) == [src |-> "slot", of |-> i, at |-> k]
Byte == [src : {"file", "zero", "slot"}, of : Nat, at : Nat]

Incbin(o, n) == [k \in 1..n |-> FileByte(o + k - 1)]        \* .incbin f, o, n
Zeros(n)     == [k \in 1..n |-> ZeroByte]                   \* .zero n
SlotWord(i)  == [k \in 1..SlotSize |-> SlotByte(i, k - 1)]  \* .long symbol

\* Mutants of Flush: the file's bytes forgotten where they end before the
\* symbol; the zeros counted from the last symbol; one byte too many.
FlushAllZero(sec, from, to) ==
  IF to <= sec.dsize THEN Incbin(sec.offset + from, to - from) ELSE Zeros(to - from)
FlushZeroFromLast(sec, from, to) ==
  IF to <= sec.dsize
    THEN Incbin(sec.offset + from, to - from)
    ELSE IF from < sec.dsize
      THEN Incbin(sec.offset + from, sec.dsize - from) \o Zeros(to - from)
      ELSE Zeros(to - from)
FlushOneMore(sec, from, to) == Incbin(sec.offset + from, to - from + 1)

\* dump_asm, the bytes between the last symbol and this one.
Flush(sec, from, to) ==
  IF to <= sec.dsize
    THEN Incbin(sec.offset + from, to - from)
    ELSE IF from < sec.dsize
      THEN Incbin(sec.offset + from, sec.dsize - from) \o Zeros(to - sec.dsize)
      ELSE Zeros(to - from)

\* dump_find_export, dump_find_import, dump_find_rsrc_string: the entries
\* with this address, of which the first in the table is taken.
ExportsAt(img, a) == {i \in DOMAIN img.exports : img.exports[i].addr = a}
ImportsAt(img, a) == {i \in DOMAIN img.imports : img.imports[i] = a}
StringsAt(img, a) == {i \in DOMAIN img.strings : img.strings[i].addr = a}
FirstOf(S) == CHOOSE i \in S : \A j \in S : i <= j

\* What dump_do_import and dump_do_rsrc_string emit for a symbol.
SlotText(img, a) ==
  IF ImportsAt(img, a) = {} THEN <<>> ELSE SlotWord(FirstOf(ImportsAt(img, a)))
StringText(img, sec, p) ==
  LET found == StringsAt(img, sec.addr + p)
  IN  IF found = {} THEN <<>>
      ELSE Incbin(sec.offset + p, img.strings[FirstOf(found)].size)

\* dump_find_export exits when it cannot read the name of the library, or the name
\* it expects: an index below name_num whose name_addr is still 0.
Unreadable(img, i) == ~img.exportDll \/ (i <= img.nameNum /\ ~img.exports[i].named)

-----------------------------------------------------------------------------
VARIABLES
  pc,       \* "sections": at the head of the loop over the sections,
            \* "scan": in the loop over one section, "strings": at the table
            \* that ends the file, "done", "failed": exited
  image,    \* the tables of the executable, read before the first section
  x,        \* the section being dumped (the code's x, from 1)
  pos,      \* offset of the byte looked at
  lastPos,  \* offset up to which bytes have been emitted
  text,     \* text[s]: the bytes the assembler has in section s
  labels,   \* the labels defined: symbol, section and location in it
  table     \* the ids listed under pe_rsrc_strings

vars == <<pc, image, x, pos, lastPos, text, labels, table>>

Sec == image.sections[x]

Init ==
  /\ pc = "sections"
  /\ image \in Images
  /\ x = 1
  /\ pos = 0 /\ lastPos = 0
  /\ text = [s \in DOMAIN image.sections |-> <<>>]
  /\ labels = {}
  /\ table = <<>>

\* Mutant: one header too many, as `num > sections_num' lets through.
BeginSectionPastLast ==
  /\ pc = "sections"
  /\ x <= Len(image.sections) + 1
  /\ pc' = "scan"
  /\ pos' = 0 /\ lastPos' = 0
  /\ UNCHANGED <<image, x, text, labels, table>>

BeginSection ==
  /\ pc = "sections"
  /\ x <= Len(image.sections)
  /\ pc' = "scan"
  /\ pos' = 0 /\ lastPos' = 0
  /\ UNCHANGED <<image, x, text, labels, table>>

HereExports == ExportsAt(image, Sec.addr + pos)
HereImports == ImportsAt(image, Sec.addr + pos)
HereStrings == StringsAt(image, Sec.addr + pos)

\* Mutants of DumpHere: one of the kinds of symbols is not looked for.
DumpHereNoStrings == HereExports # {} \/ HereImports # {} \/ pos >= Sec.vsize
DumpHereNoExports == HereImports # {} \/ HereStrings # {} \/ pos >= Sec.vsize

\* `dump' of the code: a symbol here, or the end of the section.
DumpHere == \/ HereExports # {} \/ HereImports # {} \/ HereStrings # {}
            \/ pos >= Sec.vsize

\* dump_find_import exits in the same way; both look before anything is emitted.
ExitHere == \/ HereExports # {} /\ Unreadable(image, FirstOf(HereExports))
            \/ HereImports # {} /\ FirstOf(HereImports) \in image.unread

Scanning == pc = "scan" /\ pos <= Sec.vsize

SkipByte ==
  /\ Scanning
  /\ ~DumpHere
  /\ pos' = pos + 1
  /\ UNCHANGED <<pc, image, x, lastPos, text, labels, table>>

ExitUnreadable ==
  /\ Scanning
  /\ ExitHere
  /\ pc' = "failed"
  /\ UNCHANGED <<image, x, pos, lastPos, text, labels, table>>

\* Mutant: the increment for symbols without size is missing.
AdvanceToEnd(end) == end

\* A symbol without size still moves the scan on.
Advance(end) == IF end = pos THEN pos + 1 ELSE end

LabelAt(kind, n, loc) == [kind |-> kind, num |-> n, sec |-> x, loc |-> loc]

ExportLabels(i, loc) ==
  {LabelAt("ordinal", i, loc)}
    \cup IF i <= image.nameNum THEN {LabelAt("name", i, loc)} ELSE {}

DumpSymbol ==
  /\ Scanning
  /\ DumpHere
  /\ ~ExitHere
  /\ LET flushed == text[x] \o Flush(Sec, lastPos, pos)
         slot    == SlotText(image, Sec.addr + pos)
         string  == StringText(image, Sec, pos)
         slotted == flushed \o slot
         end     == pos + Len(slot) + Len(string)
     IN  /\ text' = [text EXCEPT ![x] = slotted \o string]
         /\ labels' = labels
              \cup (IF HereExports = {} THEN {}
                    ELSE ExportLabels(FirstOf(HereExports), Len(flushed)))
              \cup (IF HereStrings = {} THEN {}
                    ELSE {LabelAt("string", image.strings[FirstOf(HereStrings)].id,
                                  Len(slotted))})
         /\ lastPos' = end
         /\ pos' = Advance(end)
  /\ UNCHANGED <<pc, image, x, table>>

EndSection ==
  /\ pc = "scan"
  /\ pos > Sec.vsize
  /\ pc' = "sections"
  /\ x' = x + 1
  /\ UNCHANGED <<image, pos, lastPos, text, labels, table>>

EndSections ==
  /\ pc = "sections"
  /\ x > Len(image.sections)
  /\ pc' = "strings"
  /\ UNCHANGED <<image, x, pos, lastPos, text, labels, table>>

StringTable ==
  /\ pc = "strings"
  /\ table' = [i \in DOMAIN image.strings |-> image.strings[i].id]
  /\ pc' = "done"
  /\ UNCHANGED <<image, x, pos, lastPos, text, labels>>

Next == \/ BeginSection \/ SkipByte \/ ExitUnreadable \/ DumpSymbol
        \/ EndSection \/ EndSections \/ StringTable

\* The program is sequential: it runs until it returns or exits.
Spec == Init /\ [][Next]_vars /\ WF_vars(Next)

-----------------------------------------------------------------------------
(* What the dump promises.                                                 *)

\* Types of the state.
TypeOK ==
  /\ pc \in {"sections", "scan", "strings", "done", "failed"}
  /\ image \in ImageType
  /\ x \in 1..(Len(image.sections) + 1)
  /\ pc = "scan" => x \in DOMAIN image.sections
  /\ pos \in Nat /\ lastPos \in Nat
  /\ text \in [DOMAIN image.sections -> Seq(Byte)]
  /\ \A l \in labels : /\ l.kind \in {"ordinal", "name", "string"}
                       /\ l.num \in Nat /\ l.loc \in Nat
                       /\ l.sec \in DOMAIN image.sections
  /\ table \in Seq(Nat)

\* What the Windows loader has at offset p of section s: the address an import
\* slot is bound to, else the file's byte, else zero past the file's data.
Covering(img, a) == {i \in DOMAIN img.imports :
                       img.imports[i] <= a /\ a < img.imports[i] + SlotSize}

Loads(img, s, p, b) ==
  LET z == img.sections[s]
      a == z.addr + p
      c == Covering(img, a)
  IN  \/ \E i \in c : b = SlotByte(i, a - img.imports[i])
      \/ c = {} /\ b = IF p < z.dsize THEN FileByte(z.offset + p) ELSE ZeroByte

\* The sections whose loop has ended.
Finished == {s \in DOMAIN image.sections : s < x}

SymbolAt(img, a) == ImportsAt(img, a) # {} \/ StringsAt(img, a) # {}

\* dump_asm, the emission arithmetic: whatever symbols cut a section into
\* pieces, and wherever its file data ends, the section the assembler rebuilds
\* holds at every offset the byte the Windows loader would have put there, and
\* is no longer than the original unless the next section starts with a symbol
\* at exactly its end address.
Faithful ==
  \A s \in Finished :
    /\ \A p \in 0..(image.sections[s].vsize - 1) :
          /\ p < Len(text[s])
          /\ Loads(image, s, p, text[s][p + 1])
    /\ \/ Len(text[s]) = image.sections[s].vsize
       \/ SymbolAt(image, image.sections[s].addr + image.sections[s].vsize)

\* dump_do_export, dump_do_rsrc_string: a label is emitted where the assembler's
\* location, the sum of everything emitted before, is the symbol's own address.
LabelsPlaced ==
  \A l \in labels :
    LET a == image.sections[l.sec].addr + l.loc IN
    IF l.kind = "string"
      THEN \E i \in DOMAIN image.strings :
              image.strings[i].id = l.num /\ image.strings[i].addr = a
      ELSE image.exports[l.num].addr = a

InSection(r, z) == Within(r, z.addr, z.addr + z.vsize)

\* dump_asm: no string resource that lies in a dumped section is jumped over:
\* the labels the pe_rsrc_strings table refers to are defined.
StringsDefined ==
  pc = "done" =>
    \A k \in DOMAIN table, s \in DOMAIN image.sections :
      InSection(StringRange(image, k), image.sections[s]) =>
        \E l \in labels : l.kind = "string" /\ l.num = table[k] /\ l.sec = s

\* An export whose address is not inside a slot or a string body, and that is
\* the first of its address in the table, gets its ordinal label.
Hidden(img, a) ==
  \/ \E i \in DOMAIN img.imports : img.imports[i] < a /\ a < ImportRange(img, i).hi
  \/ \E i \in DOMAIN img.strings : img.strings[i].addr < a /\ a < StringRange(img, i).hi

ExportsDefined ==
  \A s \in Finished, i \in DOMAIN image.exports :
    LET a == image.exports[i].addr
        z == image.sections[s]
    IN  (/\ z.addr <= a /\ a < z.addr + z.vsize
         /\ ~Hidden(image, a)
         /\ i = FirstOf(ExportsAt(image, a)))
        => \E l \in labels : l.kind = "ordinal" /\ l.num = i /\ l.sec = s

\* No symbol is jumped over, of either kind.
SymbolsDefined == StringsDefined /\ ExportsDefined

\* What as and ld refuse: a label defined twice, two sections placed by
\* link.ld at addresses where they overlap.
DuplicateLabel ==
  \E l, m \in labels : l # m /\ l.kind = m.kind /\ l.num = m.num

Overlap ==
  \E s, t \in DOMAIN image.sections :
    /\ s # t /\ text[t] # <<>>
    /\ image.sections[s].addr <= image.sections[t].addr
    /\ image.sections[t].addr < image.sections[s].addr + Len(text[s])

\* The scan looks at the end address too (`pos <= size'), so a symbol that
\* starts the next of two adjoining sections is emitted in both.  Such a dump
\* never links silently: the assembler or the linker refuses it.
NoSilentDouble ==
  (pc = "done" /\ \E s \in DOMAIN image.sections :
                     Len(text[s]) > image.sections[s].vsize)
     => DuplicateLabel \/ Overlap

\* The program ends: every turn of the scan moves pos, also where a symbol has
\* no size (an export label).
Termination == <>(pc \in {"done", "failed"})

=============================================================================
