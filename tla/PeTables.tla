------------------------------ MODULE PeTables ------------------------------
(***************************************************************************)
(* How relink/dump.c finds the exports, the imports and the string         *)
(* resources of an executable before it dumps it.  Each table leads to     *)
(* others by address; the readers follow it with one FILE whose position   *)
(* every fread and every lookup of an address moves.                       *)
(*                                                                         *)
(* A file is its words: sizes, addresses and offsets are counted in words  *)
(* of four bytes, and the fields that the readers skip are left out of the *)
(* tables' entries.                                                        *)
(***************************************************************************)
EXTENDS Integers, Sequences

CONSTANTS
  Files,      \* the executables
  HighBit,    \* the bit that marks a directory, or an ordinal (2^31 in the code)
  Hint,       \* what stands before the name of an import (2 bytes in the code)
  StringDir,  \* the type of string resources, 6
  Language    \* the language expected of them, 0x409

\* Words, directories and sections with fields that are numbers.
WellFormed(f) ==
  /\ f.words \in Seq(Nat)
  /\ \A k \in DOMAIN f.dirs : f.dirs[k].addr \in Nat /\ f.dirs[k].size \in Nat
  /\ DOMAIN f.sections \subseteq Nat
  /\ \A k \in DOMAIN f.sections : /\ f.sections[k].addr \in Nat /\ f.sections[k].dsize \in Nat
                                  /\ f.sections[k].offset \in Nat

ASSUME PeAssumption ==
  /\ HighBit \in Nat \ {0} /\ Hint \in Nat /\ StringDir \in Nat /\ Language \in Nat
  /\ \A f \in Files : WellFormed(f)

-----------------------------------------------------------------------------
(* The file.                                                               *)

Word(f, p) == f.words[p + 1]
\* fseek to p and fread of one item of n words; an item of no words is never read.
Has(f, p, n) == n > 0 /\ p >= 0 /\ p + n <= Len(f.words)

\* pe_find_file_offset: the first section whose data has the address.
Covers(f, a)   == {s \in DOMAIN f.sections : /\ f.sections[s].addr <= a
                                             /\ a < f.sections[s].addr + f.sections[s].dsize}
Mapped(f, a)   == Covers(f, a) # {}
OffsetOf(f, a) == LET s == CHOOSE s \in Covers(f, a) : \A t \in Covers(f, a) : s <= t
                  IN  a - f.sections[s].addr + f.sections[s].offset

\* Entries, in words.  Export directory: name of the DLL, number of functions,
\* number of names, tables of functions, names and ordinals.  Import descriptor:
\* names, name of the DLL, slots.
ExportSize == 6
DescSize   == 3
\* A word of the table of ordinals has two of them.
Ordinals   == 16
OrdinalAt(f, p, k) == (Word(f, p + k \div 2) \div (IF k % 2 = 0 THEN 1 ELSE Ordinals)) % Ordinals

\* Resource directory: numbers of named and of numbered entries, and the entries:
\* what it is called, and where it is.
NumName(f, p)  == Word(f, p)
NumId(f, p)    == Word(f, p + 1)
IdEntry(f, p, k) == p + 2 + 2 * NumName(f, p) + 2 * k
EntryId(f, p)  == Word(f, p)
EntryOff(f, p) == Word(f, p + 1) % HighBit
IsDir(f, p)    == Word(f, p + 1) >= HighBit

-----------------------------------------------------------------------------
VARIABLES
  pc,      \* "exports", "imports", "descriptor", "names", "slots", "strings",
           \* "entry", "done"; "error" when a reader returns false
  file,
  at,      \* the position of the FILE
  funcs,   \* exports->func_addr
  fnames,  \* exports->name_addr, 0 where there is none
  hdr,     \* offset of the import descriptors
  desc,    \* the descriptor looked at, in words behind it
  x,       \* address of the next slot
  names,   \* imports->name_addr
  slots,   \* imports->imp_addr with dllname_addr
  dir,     \* offset of the directory of strings
  strs     \* rsrc_strings

vars == <<pc, file, at, funcs, fnames, hdr, desc, x, names, slots, dir, strs>>

Init ==
  /\ pc = "exports"
  /\ file \in Files
  /\ at = 0
  /\ funcs = <<>> /\ fnames = <<>>
  /\ hdr = 0 /\ desc = 0 /\ x = 0
  /\ names = <<>> /\ slots = <<>>
  /\ dir = 0 /\ strs = <<>>

\* pe_get_datadir, and whether the table is at an address that is in the file.
HasDir(k)  == k \in DOMAIN file.dirs
DirAddr(k) == file.dirs[k].addr
NoTable(k) == DirAddr(k) = 0 \/ file.dirs[k].size = 0
DirOff(k)  == OffsetOf(file, DirAddr(k))

-----------------------------------------------------------------------------
(* pe_read_export_table                                                    *)

Field(k)   == Word(file, DirOff(1) + k)
TableAt(k) == Field(k) - DirAddr(1) + DirOff(1)

ExportsReadable ==
  /\ Mapped(file, DirAddr(1)) /\ Has(file, DirOff(1), ExportSize)
  /\ Has(file, TableAt(3), Field(1))
  /\ Has(file, TableAt(4), Field(2))
  \* twice what the ordinals need
  /\ Has(file, TableAt(5), Field(2))

\* Mutant: the names are in the order of the functions.
OrdinalsInOrder(k) == {j \in 0..(Field(2) - 1) : j = k}

\* The names a function has: the indices whose ordinal it is.
NamesOf(k) == {j \in 0..(Field(2) - 1) : OrdinalAt(file, TableAt(5), j) = k}

ReadExports ==
  /\ pc = "exports" /\ HasDir(1) /\ ~NoTable(1) /\ ExportsReadable
  /\ funcs' = [k \in 1..Field(1) |-> Word(file, TableAt(3) + k - 1)]
  /\ fnames' = [k \in 1..Field(1) |->
       IF NamesOf(k - 1) = {} THEN 0
       ELSE LET last == CHOOSE j \in NamesOf(k - 1) : \A i \in NamesOf(k - 1) : i <= j
            IN  Word(file, TableAt(4) + last)]
  /\ at' = TableAt(4) + Field(2)
  /\ pc' = "imports"
  /\ UNCHANGED <<file, hdr, desc, x, names, slots, dir, strs>>

NoExports ==
  /\ pc = "exports" /\ HasDir(1) /\ NoTable(1)
  /\ pc' = "imports"
  /\ UNCHANGED <<file, at, funcs, fnames, hdr, desc, x, names, slots, dir, strs>>

ExportsFail ==
  /\ pc = "exports"
  /\ HasDir(1) => ~NoTable(1) /\ ~ExportsReadable
  /\ pc' = "error"
  /\ UNCHANGED <<file, at, funcs, fnames, hdr, desc, x, names, slots, dir, strs>>

-----------------------------------------------------------------------------
(* pe_read_import_table                                                    *)

ImportsReadable ==
  HasDir(2) /\ Mapped(file, DirAddr(2)) /\ Has(file, DirOff(2), file.dirs[2].size)

ReadDescriptors ==
  /\ pc = "imports" /\ ImportsReadable
  /\ hdr' = DirOff(2)
  /\ at' = DirOff(2) + file.dirs[2].size
  /\ pc' = "descriptor"
  /\ UNCHANGED <<file, funcs, fnames, desc, x, names, slots, dir, strs>>

ImportsFail ==
  /\ pc = "imports" /\ ~ImportsReadable
  /\ pc' = "error"
  /\ UNCHANGED <<file, at, funcs, fnames, hdr, desc, x, names, slots, dir, strs>>

Origs == Word(file, hdr + desc)
DName == Word(file, hdr + desc + 1)
Thunk == Word(file, hdr + desc + 2)
\* Mutant: a descriptor that is not wholly in the table is taken.
HasDescPart == /\ file.dirs[2].size > desc
               /\ Origs # 0 /\ Thunk # 0

\* There is a descriptor, and it is not the one that ends the table.
HasDesc == /\ file.dirs[2].size >= desc + DescSize
           /\ Origs # 0 /\ Thunk # 0
BothMapped == Mapped(file, Origs) /\ Mapped(file, Thunk)

\* Both tables are looked up, then the names are read.
BeginNames ==
  /\ pc = "descriptor" /\ HasDesc /\ BothMapped
  /\ at' = OffsetOf(file, Origs)
  /\ pc' = "names"
  /\ UNCHANGED <<file, funcs, fnames, hdr, desc, x, names, slots, dir, strs>>

NameAddr(w) == IF w < HighBit THEN w + Hint ELSE w

ReadName ==
  /\ pc = "names" /\ Has(file, at, 1) /\ Word(file, at) # 0
  /\ names' = Append(names, NameAddr(Word(file, at)))
  /\ at' = at + 1
  /\ UNCHANGED <<pc, file, funcs, fnames, hdr, desc, x, slots, dir, strs>>

\* Mutant: the slots are read from where the names ended.
BeginSlotsHere ==
  /\ pc = "names" /\ Has(file, at, 1) /\ Word(file, at) = 0
  /\ at' = at + 1
  /\ x' = Thunk
  /\ pc' = "slots"
  /\ UNCHANGED <<file, funcs, fnames, hdr, desc, names, slots, dir, strs>>

BeginSlots ==
  /\ pc = "names" /\ Has(file, at, 1) /\ Word(file, at) = 0
  /\ at' = OffsetOf(file, Thunk)
  /\ x' = Thunk
  /\ pc' = "slots"
  /\ UNCHANGED <<file, funcs, fnames, hdr, desc, names, slots, dir, strs>>

ReadSlot ==
  /\ pc = "slots" /\ Has(file, at, 1) /\ Word(file, at) # 0
  /\ slots' = Append(slots, [addr |-> x, dll |-> DName])
  /\ x' = x + 1
  /\ at' = at + 1
  /\ UNCHANGED <<pc, file, funcs, fnames, hdr, desc, names, dir, strs>>

EndSlots ==
  /\ pc = "slots" /\ Has(file, at, 1) /\ Word(file, at) = 0
  /\ desc' = desc + DescSize
  /\ at' = at + 1
  /\ pc' = "descriptor"
  /\ UNCHANGED <<file, funcs, fnames, hdr, x, names, slots, dir, strs>>

EndImports ==
  /\ pc = "descriptor" /\ ~HasDesc
  /\ pc' = "strings"
  /\ UNCHANGED <<file, at, funcs, fnames, hdr, desc, x, names, slots, dir, strs>>

DescriptorFails ==
  /\ \/ pc = "descriptor" /\ HasDesc /\ ~BothMapped
     \/ pc \in {"names", "slots"} /\ ~Has(file, at, 1)
  /\ pc' = "error"
  /\ UNCHANGED <<file, at, funcs, fnames, hdr, desc, x, names, slots, dir, strs>>

-----------------------------------------------------------------------------
(* pe_get_rsrc_dir and pe_read_rsrc_strings                                *)

Root == DirOff(3)
RootReadable == Mapped(file, DirAddr(3)) /\ Has(file, Root, 2)

\* The entries of the root that its loop reads before it stops.
StringDirs == {k \in 0..(NumId(file, Root) - 1) :
                 /\ Has(file, IdEntry(file, Root, k), 2)
                 /\ EntryId(file, IdEntry(file, Root, k)) = StringDir}
AllRead    == \A k \in 0..(NumId(file, Root) - 1) : Has(file, IdEntry(file, Root, k), 2)
StringsAt  == IdEntry(file, Root, CHOOSE k \in StringDirs : \A j \in StringDirs : k <= j)

\* Whether there is a directory of strings, or surely none.
StringsThere == /\ RootReadable /\ StringDirs # {} /\ IsDir(file, StringsAt)
                /\ Has(file, Root + EntryOff(file, StringsAt), 2)
NoneThere    == RootReadable /\ StringDirs = {} /\ AllRead

FindStrings ==
  /\ pc = "strings" /\ HasDir(3) /\ ~NoTable(3) /\ StringsThere
  /\ dir' = Root + EntryOff(file, StringsAt)
  /\ at' = dir' + 2
  /\ pc' = "entry"
  /\ UNCHANGED <<file, funcs, fnames, hdr, desc, x, names, slots, strs>>

NoStrings ==
  /\ pc = "strings" /\ HasDir(3)
  /\ NoTable(3) \/ NoneThere
  /\ pc' = "done"
  /\ UNCHANGED <<file, at, funcs, fnames, hdr, desc, x, names, slots, dir, strs>>

\* Mutant: the named entries are not jumped over.
EntryFirst == dir + 2 + 2 * Len(strs)

\* The next block of strings: the entry, the directory of its languages, and the
\* entry of that, which comes right behind.
Entry == IdEntry(file, dir, Len(strs))
Sub   == Root + EntryOff(file, Entry)
Data  == Root + EntryOff(file, Sub + 2)
Expected ==
  /\ Has(file, Entry, 2) /\ IsDir(file, Entry)
  /\ Has(file, Sub, 2) /\ NumName(file, Sub) = 0 /\ NumId(file, Sub) = 1
  /\ Has(file, Sub + 2, 2) /\ ~IsDir(file, Sub + 2) /\ EntryId(file, Sub + 2) = Language
  /\ Has(file, Data, 2)

ReadString ==
  /\ pc = "entry" /\ Len(strs) < NumId(file, dir) /\ Expected
  /\ strs' = Append(strs, [id |-> EntryId(file, Entry),
                           addr |-> Word(file, Data), size |-> Word(file, Data + 1)])
  /\ at' = Data + 2
  /\ UNCHANGED <<pc, file, funcs, fnames, hdr, desc, x, names, slots, dir>>

EndStrings ==
  /\ pc = "entry" /\ Len(strs) >= NumId(file, dir)
  /\ pc' = "done"
  /\ UNCHANGED <<file, at, funcs, fnames, hdr, desc, x, names, slots, dir, strs>>

StringsFail ==
  /\ \/ /\ pc = "strings"
        /\ HasDir(3) => ~NoTable(3) /\ ~StringsThere /\ ~NoneThere
     \/ pc = "entry" /\ Len(strs) < NumId(file, dir) /\ ~Expected
  /\ pc' = "error"
  /\ UNCHANGED <<file, at, funcs, fnames, hdr, desc, x, names, slots, dir, strs>>

Next == \/ ReadExports \/ NoExports \/ ExportsFail
        \/ ReadDescriptors \/ ImportsFail
        \/ BeginNames \/ ReadName \/ BeginSlots \/ ReadSlot \/ EndSlots
        \/ EndImports \/ DescriptorFails
        \/ FindStrings \/ NoStrings \/ ReadString \/ EndStrings \/ StringsFail

Spec == Init /\ [][Next]_vars

-----------------------------------------------------------------------------
(* Properties.                                                             *)

\* What the readers put together is in step: every function has a name or 0, and
\* no descriptor beyond the table's size is taken.
TypeOK ==
  /\ pc \in {"exports", "imports", "descriptor", "names", "slots", "strings",
             "entry", "done", "error"}
  /\ at \in Nat /\ hdr \in Nat /\ desc \in Nat /\ x \in Nat /\ dir \in Nat
  /\ funcs \in Seq(Nat) /\ fnames \in Seq(Nat) /\ Len(funcs) = Len(fnames)
  /\ names \in Seq(Nat)
  /\ slots \in Seq([addr : Nat, dll : Nat])
  /\ strs \in Seq([id : Nat, addr : Nat, size : Nat])
  /\ HasDir(2) => desc <= file.dirs[2].size

Past(p) == pc \notin p \cup {"error"}

\* What GetProcAddress answers: a name, by its index, leads to the function whose
\* number is in the table of ordinals at that index.
Resolves == {<<Word(file, TableAt(4) + j), Word(file, TableAt(3) + OrdinalAt(file, TableAt(5), j))>> :
               j \in {i \in 0..(Field(2) - 1) : OrdinalAt(file, TableAt(5), i) < Field(1)}}

\* Every name has an address, as linkers write it: 0 is what the dump has for none.
NamesThere == \A j \in 0..(Field(2) - 1) : Word(file, TableAt(4) + j) # 0

\* A name that is dumped with a function is one that leads to it, and a function
\* that can be found by name has one (dump.c:257-261: the names are stored at the
\* ordinals, those beyond the functions are passed over).
ExportsAsLoaded ==
  Past({"exports"}) /\ ~NoTable(1) /\ NamesThere =>
    /\ \A k \in DOMAIN fnames : fnames[k] # 0 => <<fnames[k], funcs[k]>> \in Resolves
    /\ \A r \in Resolves : \E k \in DOMAIN funcs : funcs[k] = r[2] /\ fnames[k] # 0

\* The loader's view of the imports: descriptors up to the first without slots,
\* and for each the table of names, which ends with 0.
LoadedField(k, i) == Word(file, DirOff(2) + DescSize * k + i)
LoadedDescs == {k \in 0..(file.dirs[2].size \div DescSize - 1) :
                  \A j \in 0..k : LoadedField(j, 2) # 0}
Items(a)    == {i \in 0..Len(file.words) :
                  \A j \in 0..i : /\ OffsetOf(file, a) + j < Len(file.words)
                                  /\ Word(file, OffsetOf(file, a) + j) # 0}
Bindings    == UNION {{<<LoadedField(k, 2) + i, LoadedField(k, 1),
                         NameAddr(Word(file, OffsetOf(file, LoadedField(k, 0)) + i))>> :
                         i \in Items(LoadedField(k, 0))} : k \in LoadedDescs}

\* The slots in the file are as many as the names, as linkers write them.
SlotsAsNames ==
  \A k \in LoadedDescs : /\ LoadedField(k, 0) # 0
                         /\ Items(LoadedField(k, 0)) = Items(LoadedField(k, 2))

\* The two lists of dump_asm, paired by index, are the loader's bindings: slot,
\* DLL and name (dump.c:314-339 fills them in two loops that share one FILE).
ImportsPaired ==
  Past({"exports", "imports", "descriptor", "names", "slots"}) /\ SlotsAsNames =>
    /\ Len(slots) = Len(names)
    /\ {<<slots[k].addr, slots[k].dll, names[k]>> : k \in DOMAIN slots} = Bindings

\* Every block of strings, in whatever language, by walking the tree of resources.
Numbered(d)  == {IdEntry(file, d, k) : k \in 0..(NumId(file, d) - 1)}
Under(e)     == Root + EntryOff(file, e)
Languages(d) == {d + 2 + 2 * k : k \in 0..(NumName(file, d) + NumId(file, d) - 1)}
Blocks ==
  UNION {UNION {{[id |-> EntryId(file, b), addr |-> Word(file, Under(l)), size |-> Word(file, Under(l) + 1)] :
                   l \in Languages(Under(b))} : b \in Numbered(Under(e))} :
         e \in {n \in Numbered(Root) : EntryId(file, n) = StringDir}}

\* The root has one entry for strings at most, as linkers write it: the reader takes
\* the first.
OneForStrings ==
  \A n, m \in Numbered(Root) : EntryId(file, n) = StringDir /\ EntryId(file, m) = StringDir => n = m

\* A dump that succeeds has every numbered block of the one directory of strings:
\* what the reader does not expect in it makes it fail, it is never passed over
\* (dump.c:473-482).  Blocks with a name, and a second directory of strings, are
\* passed over and not spoken of.
StringsComplete ==
  pc = "done" /\ ~NoTable(3) /\ OneForStrings => {strs[k] : k \in DOMAIN strs} = Blocks

=============================================================================
