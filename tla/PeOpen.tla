------------------------------- MODULE PeOpen -------------------------------
(***************************************************************************)
(* How relink/dump.c opens an executable: the offset of its headers, the   *)
(* header, the optional header, and with what these say the directories    *)
(* and the sections.                                                       *)
(*                                                                         *)
(* As in PeTables a file is its words, and sizes and offsets are counted   *)
(* in words of four bytes.  Two numbers of 16 bits share a word.           *)
(***************************************************************************)
EXTENDS Integers, Sequences

CONSTANTS
  Executables,  \* files, with what a loader finds in them
  Half,         \* how many values 16 bits have
  OptSizes,     \* how many sizes of the optional header 8 bits can say
  OffsetAt,     \* where the offset of the headers is, 0x3c
  Signature,    \* "PE", 0, 0
  Magic         \* 0x010b, an executable of 32 bits

ASSUME OpenAssumption ==
  /\ Half \in Nat \ {0} /\ OptSizes \in Nat \ {0} /\ OffsetAt \in Nat
  /\ Magic \in 0..(Half - 1)
  /\ \A e \in Executables : e.words \in Seq(Nat)

VARIABLES
  exe,      \* the file
  opening,  \* what is read next; "open", or "failed"
  header_off,
  datadir_off,
  sections_off,
  sections_num,
  entrypoint,
  base_addr,
  datadir_num

openVars == <<exe, opening, header_off, datadir_off, sections_off, sections_num,
              entrypoint, base_addr, datadir_num>>

HeaderSize  == 6
OptSize     == 30
SectionSize == 10
\* The directories that the optional header, as far as it is read, has room for.
DirsIn      == 24

At(p)        == exe.words[p + 1]
There(p, n)  == n > 0 /\ p >= 0 /\ p + n <= Len(exe.words)
Low(w)       == w % Half
High(w)      == w \div Half

OpenInit ==
  /\ exe \in Executables /\ opening = "offset"
  /\ header_off = 0 /\ datadir_off = 0 /\ sections_off = 0 /\ sections_num = 0
  /\ entrypoint = 0 /\ base_addr = 0 /\ datadir_num = 0

-----------------------------------------------------------------------------
(* pe_open_read_header                                                     *)

ReadOffset ==
  /\ opening = "offset" /\ There(OffsetAt, 1)
  /\ header_off' = At(OffsetAt)
  /\ opening' = "header"
  /\ UNCHANGED <<exe, datadir_off, sections_off, sections_num, entrypoint, base_addr, datadir_num>>

\* Mutant: the sections are behind what is read of the optional header.
AfterRead(size) == header_off + HeaderSize + OptSize

\* Where the sections are; the size is kept in 8 bits.
AfterHeader(size) == header_off + HeaderSize + (size % OptSizes)

IsHeader == There(header_off, HeaderSize) /\ At(header_off) = Signature

ReadHeader ==
  /\ opening = "header" /\ IsHeader
  /\ datadir_off' = header_off + HeaderSize + DirsIn
  /\ sections_off' = AfterHeader(Low(At(header_off + 5)))
  /\ sections_num' = High(At(header_off + 1))
  /\ opening' = "optional"
  /\ UNCHANGED <<exe, header_off, entrypoint, base_addr, datadir_num>>

Optional == header_off + HeaderSize
IsOptional == There(Optional, OptSize) /\ Low(At(Optional)) = Magic

ReadOptional ==
  /\ opening = "optional" /\ IsOptional
  /\ entrypoint' = At(Optional + 4)
  /\ base_addr' = At(Optional + 7)
  /\ datadir_num' = At(Optional + 23)
  /\ opening' = "open"
  /\ UNCHANGED <<exe, header_off, datadir_off, sections_off, sections_num>>

OpenFails ==
  /\ \/ opening = "offset" /\ ~There(OffsetAt, 1)
     \/ opening = "header" /\ ~IsHeader
     \/ opening = "optional" /\ ~IsOptional
  /\ opening' = "failed"
  /\ UNCHANGED <<exe, header_off, datadir_off, sections_off, sections_num,
                 entrypoint, base_addr, datadir_num>>

OpenNext == ReadOffset \/ ReadHeader \/ ReadOptional \/ OpenFails

-----------------------------------------------------------------------------
(* What the open file says.                                                *)

\* pe_get_datadir; where it cannot be read there is none either.
HasDatadir(num) == num < datadir_num /\ There(datadir_off + 2 * num, 2)
Datadir(num)    == [addr |-> At(datadir_off + 2 * num), size |-> At(datadir_off + 2 * num + 1)]

\* The table that pe_find_file_offset searches, whole or not at all, and the one
\* header that pe_read_section_header reads.
SectionsThere == There(sections_off, SectionSize * sections_num)
Section(num)  == LET p == sections_off + SectionSize * num
                 IN  [addr |-> At(p + 3), dsize |-> At(p + 4), offset |-> At(p + 5)]

-----------------------------------------------------------------------------
(* Properties.                                                             *)

OpenTypeOK ==
  /\ opening \in {"offset", "header", "optional", "open", "failed"}
  /\ \A n \in {header_off, datadir_off, sections_off, sections_num, entrypoint,
               base_addr, datadir_num} : n \in Nat

\* A file that opens says what the loader finds in it: entry point, directories and
\* every section, unless the size of its optional header has more than 8 bits
\* (dump.c:80); and one that a loader can read opens (dump.c:66-94).
HeadersAsLoaded ==
  /\ opening = "open" /\ exe.opt < OptSizes =>
       /\ base_addr + entrypoint = exe.entry
       /\ \A k \in DOMAIN exe.dirs : HasDatadir(k - 1) /\ Datadir(k - 1) = exe.dirs[k]
       /\ ~HasDatadir(Len(exe.dirs))
       /\ sections_num = Len(exe.sections)
       /\ SectionsThere => \A k \in DOMAIN exe.sections : Section(k - 1) = exe.sections[k]
  /\ opening = "failed" => ~exe.loads

=============================================================================
