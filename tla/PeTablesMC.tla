----------------------------- MODULE PeTablesMC -----------------------------
(***************************************************************************)
(* Executables for PeTables: one section each for exports, imports and     *)
(* resources, none at its address, in every combination, and cut short.    *)
(* And string resources for LoadString, which walks what the dump makes of *)
(* the blocks that PeTables finds.  The dump and the call are programs of  *)
(* their own; a behaviour follows one of them.                             *)
(***************************************************************************)
EXTENDS PeOpen, PeTables, LoadString, TLC

Pad(s, n) == [k \in 1..n |-> IF k \in DOMAIN s THEN s[k] ELSE 0]
Dir(a, n) == [addr |-> a, size |-> n]
None      == Dir(0, 0)

Sections == <<[addr |-> 20, dsize |-> 15, offset |-> 4],
              [addr |-> 50, dsize |-> 24, offset |-> 19],
              [addr |-> 80, dsize |-> 30, offset |-> 43]>>

\* Exports: functions, names, ordinals, two in a word.  The tables of names and
\* ordinals are behind that of the functions.
Export(nf, nn, ords) ==
  Pad(<<70, nf, nn, 26, 29, 32>> \o Pad(<<301, 302, 303>>, 3) \o Pad(<<401, 402, 403>>, 3) \o ords, 15)
ExportData == {Export(2, 2, <<16>>), Export(2, 2, <<1>>), Export(3, 1, <<2>>),
               Export(2, 2, <<1 + 16 * 5>>), Export(2, 2, <<17>>), Export(2, 0, <<>>)}

\* Imports: descriptors at 50, tables at 60, 63, 66 and 69.
Import(descs, tables) == Pad(Pad(descs, 10) \o tables, 24)
Twice  == <<60, 71, 66, 63, 72, 69, 0, 0, 0>>
Crossed == <<69, 71, 60, 66, 72, 63, 0, 0, 0>>
Tables(p, q, r, s) == Pad(p, 3) \o Pad(q, 3) \o Pad(r, 3) \o Pad(s, 3)
ImportData ==
  {Import(Twice, Tables(<<501, 502>>, <<1007>>, <<501, 502>>, <<1007>>)),
   Import(Twice, Tables(<<501>>, <<502, 503>>, <<901>>, <<902, 903>>)),
   Import(Crossed, Tables(<<501>>, <<502, 503>>, <<502, 503>>, <<501>>)),
   Import(Twice, Tables(<<501>>, <<502>>, <<501, 503>>, <<>>)),
   Import(<<60, 71, 66, 0, 72, 69>>, Tables(<<501>>, <<502>>, <<501>>, <<502>>)),
   Import(<<60, 71, 300>>, Tables(<<501>>, <<502>>, <<501>>, <<502>>)),
   Import(<<>>, <<>>)}

\* Resources: the root, the blocks at 10, their languages at 18 and 22, the data.
Root2(named, type, off) ==
  IF named THEN <<1, 2, 900, 5, 3, 1000 + 10, type, off, 0, 0>>
  ELSE <<0, 2, 3, 26, type, off, 0, 0, 0, 0>>
BlockDir(named) ==
  IF named THEN <<1, 1, 901, 1000 + 18, 12, 1000 + 22, 0, 0>>
  ELSE <<0, 2, 11, 1000 + 18, 12, 1000 + 22, 0, 0>>
Resource(root, blocks, sub) ==
  Pad(root \o blocks \o <<0, 1, 9, 26>> \o sub \o <<601, 4, 605, 2>>, 30)
ResourceData ==
  {Resource(Root2(n, 6, 1000 + 10), BlockDir(b), <<0, 1, 9, 28>>) : n \in BOOLEAN, b \in BOOLEAN}
  \cup {Resource(Root2(FALSE, t, o), BlockDir(FALSE), <<0, 1, 9, 28>>) :
          t \in {6, 5}, o \in {10, 1000 + 90}}
  \cup {Resource(Root2(TRUE, 6, 1000 + 10), BlockDir(FALSE), s) :
          s \in {<<0, 1, 7, 28>>, <<1, 0, 9, 28>>, <<0, 2, 9, 26>>, <<0, 1, 9, 1000 + 10>>}}

\* An executable: a header at 16, an optional header of opt words, three sections.
\* Cut is how many words of the sections' data are there, or less if negative.
HeaderAt      == 16
DataAt(opt)   == HeaderAt + 6 + opt + 30
InFile(opt)   == [k \in 1..3 |-> [Sections[k] EXCEPT !.offset = DataAt(opt) + @ - 4]]
Described(s)  == Pad(<<0, 0, s.dsize, s.addr, s.dsize, s.offset>>, 10)
HeaderOf(n, opt) == <<Signature, n * Half + 332, 0, 0, 0, opt + 258 * Half>>
OptionalOf(opt, dirs, n) ==
  Pad(<<Magic + 2 * Half, 1, 0, 0, 27, 28, 0, 600>> \o Pad(<<>>, 15) \o <<n>>
        \o <<dirs[1].addr, dirs[1].size, dirs[2].addr, dirs[2].size, dirs[3].addr, dirs[3].size>>, opt)

Exe(opt, words, dirs, n, cut) ==
  [words |-> SubSeq(Pad(<<>>, OffsetAt) \o <<HeaderAt>> \o HeaderOf(3, opt) \o OptionalOf(opt, dirs, n)
                      \o Described(InFile(opt)[1]) \o Described(InFile(opt)[2])
                      \o Described(InFile(opt)[3]) \o words, 1, DataAt(opt) + cut),
   dirs |-> SubSeq(dirs, 1, n), sections |-> InFile(opt), entry |-> 627, opt |-> opt, loads |-> cut >= 0]

FileOf(e, i, r, de, di, dr, n, cut) == Exe(30, e \o i \o r, <<de, di, dr>>, n, cut - 4)

Cuts == {73, 71, 62, 40, 30, 21, 17, -4, -30, -50, -60, -70}

MCExport   == Export(2, 2, <<1>>)
MCResource == Resource(Root2(TRUE, 6, 1000 + 10), BlockDir(FALSE), <<0, 1, 9, 28>>)
Whole(e, i, r, di) == FileOf(e, i, r, Dir(20, 15), di, Dir(80, 30), 3, 73)
MCData               == MCExport \o Import(Twice, Tables(<<501>>, <<502>>, <<501>>, <<502>>)) \o MCResource
MCDirs             == <<Dir(20, 15), Dir(50, 9), Dir(80, 30)>>
Broken(k, w)       == [Exe(30, MCData, MCDirs, 3, 69) EXCEPT !.words[k + 1] = w, !.loads = FALSE]

MCExecutables ==
  {Whole(e, i, MCResource, Dir(50, 9)) : e \in ExportData, i \in ImportData}
  \cup {Whole(MCExport, i, r, Dir(50, n)) : i \in ImportData, r \in ResourceData, n \in {9, 4}}
  \cup {FileOf(MCExport, i, MCResource, de, Dir(50, 9), dr, 3, k) :
          i \in ImportData, de \in {None, Dir(20, 15), Dir(19, 15)},
          dr \in {None, Dir(80, 30), Dir(120, 30)}, k \in Cuts}
  \cup {FileOf(MCExport, i, MCResource, None, Dir(50, 9), None, n, 73) : i \in ImportData, n \in 0..2}
  \* optional headers that are longer, to one that 8 bits cannot tell; what is none
  \cup {Exe(opt, MCData, MCDirs, 3, cut) : opt \in {30, 32, 63, 64, 70}, cut \in {69, 0, -1}}
  \cup {Broken(HeaderAt, 7), Broken(HeaderAt + 6, 523 + 2 * Half), Broken(OffsetAt, 500)}

\* No file yet.
Nothing == [words |-> <<>>, dirs |-> <<>>, sections |-> <<>>]
MCFiles == {Nothing} \cup {[words |-> e.words, dirs |-> e.dirs, sections |-> e.sections] : e \in MCExecutables}

\* Two blocks with a gap between them, an empty string, one that the smaller
\* buffers cut, units wider than a byte.
MCResources == {0 :> <<5, 2>> @@ 1 :> <<3>>,
                1 :> <<1, 6, 3>> @@ 4 :> <<>> @@ 5 :> <<2, 2>>,
                2 :> <<7>>,
                <<>>}

VARIABLES follows, begun

InitAll ==
  /\ follows \in {"dump", "call"} /\ begun = FALSE
  /\ IF follows = "call" THEN TRUE
     ELSE given = [strings |-> <<>>, from |-> "exe", uID |-> 0, max |-> 1]
  /\ LoadInit
  /\ file = Nothing
  /\ Init
  /\ IF follows = "dump" THEN TRUE ELSE exe = Exe(30, MCData, MCDirs, 3, 69)
  /\ OpenInit

\* dump_asm reads the tables of the file that is open, by what its headers say.  With
\* an optional header whose size was cut off it takes something else for sections;
\* that is not followed here.
Begin ==
  /\ opening = "open" /\ exe.opt < OptSizes /\ ~begun /\ begun' = TRUE
  /\ file' = [words    |-> exe.words,
              dirs     |-> [k \in {k \in 1..3 : HasDatadir(k - 1)} |-> Datadir(k - 1)],
              sections |-> IF SectionsThere THEN [k \in 1..sections_num |-> Section(k - 1)] ELSE <<>>]
  /\ UNCHANGED <<pc, at, funcs, fnames, hdr, desc, x, names, slots, dir, strs, openVars>>

NextAll ==
  \/ follows = "dump" /\ OpenNext /\ UNCHANGED <<follows, begun, vars, loadVars>>
  \/ follows = "dump" /\ Begin /\ UNCHANGED <<follows, loadVars>>
  \/ begun /\ Next /\ UNCHANGED <<follows, begun, openVars, loadVars>>
  \/ follows = "call" /\ LoadNext /\ UNCHANGED <<follows, begun, vars, openVars>>

SpecAll == InitAll /\ [][NextAll]_<<follows, begun, vars, openVars, loadVars>>

\* The types of the headers and the tables (dump.c) and of LoadStringA (user32.c), with the
\* bounds of their buffers.
TypesOK == OpenTypeOK /\ TypeOK /\ LoadTypeOK

=============================================================================
