------------------------------ MODULE ScanBin -------------------------------
(***************************************************************************)
(* The scanner of patch/scan.c: it looks for the code of a few functions   *)
(* in an executable and prints where they are, for patch.i.                *)
(*                                                                         *)
(* A file is a sequence of cells.  One stands for the bytes of an opcode   *)
(* in a pattern, one for a whole word; opcodes are numbered from Words on. *)
(* Offsets are in cells, from 0.  A size_t has 64 bits.                    *)
(***************************************************************************)
EXTENDS Integers, Sequences, FiniteSets, FiniteSetsExt, SequencesExt

CONSTANTS
  Words,    \* how many values a word has, for 2^32
  Layouts,  \* executables, as sequences of the names of their parts
  Cuts      \* how many cells may be missing at the end

VARIABLES
  layout,   \* the parts of the executable
  file,     \* its cells
  places,   \* struct loc of what was found
  off,      \* where find_fs goes on
  warned,   \* the warning about leftovers was given
  output,      \* what was printed
  stage

scanVars == <<layout, file, places, off, warned, output, stage>>

None == -1
Size == Len(file)
Cell(p) == file[p + 1]

-----------------------------------------------------------------------------
(* The patterns: regions <<offset, cells>>, the first one at 0.            *)

NopCell  == Words
Call == Words + 1
Push == Words + 2
FsCode       == <<<<0, <<Words + 3, Words + 4>>>>>>
InitCode     == <<<<0, <<Words + 5>>>>, <<5, <<Push>>>>, <<7, <<Push>>>>, <<9, <<Push>>>>,
                  <<1, <<Call>>>>, <<3, <<Call>>>>, <<11, <<Call>>>>>>
EndInitArgs  == <<Words + 6, Words + 7>>
ArgsTail     == 1
EndInitEnvp  == <<Words + 8, Words + 9>>
GetenvCode   == <<<<0, <<Words + 10, Words + 11>>>>>>
EndGetenv    == <<Words + 10, Words + 12>>
FindexeCode  == <<<<0, <<Words + 13, Words + 14>>>>>>
EndFindexe   == <<NopCell, NopCell>>
MemreuseCode == <<<<0, <<Words + 15>>>>, <<2, <<Call>>>>, <<4, <<Words + 16>>>>, <<6, <<Words + 17>>>>,
                  <<8, <<Call>>>>, <<10, <<Words + 18>>>>, <<12, <<Words + 19, NopCell, NopCell>>>>>>
BuildCode    == <<<<0, <<Words + 20, Words + 21>>>>>>
TargetCode   == <<<<0, <<Words + 20, Words + 22>>>>>>
HeaderCode   == <<<<0, <<Words + 23>>>>>>
PushCode     == <<Words + 26, 104>>
Near         == 6
Structs      == {70, 72}
TextCode     == <<<<0, <<Words + 24>>>>, <<4, <<Words + 25>>>>>>
\* The array of regions itself, with its pointers: no executable has that.
ScanStruct   == <<Words + 27>>

Has(p, cells) == p + Len(cells) <= Size /\ \A k \in 1..Len(cells) : Cell(p + k - 1) = cells[k]

First(S) == IF S = {} THEN None ELSE Min(S)
Memmem(cells, from) == First({p \in from..(Size - 1) : Has(p, cells)})

Scan(code, from) ==
  First({p \in from..(Size - 1) : \A r \in 1..Len(code) : Has(p + code[r][1], code[r][2])})

\* The word behind region r of a match at p, and where a call with it goes.
Next4(p, code, r)  == p + code[r][1] + Len(code[r][2]) + 1
Behind(p, code, r) == Cell(Next4(p, code, r) - 1)
CallUnsigned(p, code, r) == Next4(p, code, r) + Behind(p, code, r)
CallSigned(p, code, r) ==
  LET w == Behind(p, code, r) IN Next4(p, code, r) + (IF w >= Words \div 2 THEN w - Words ELSE w)

SkipNops(p) == Min({q \in p..Size : q = Size \/ Cell(q) # NopCell})

\* The end of a function: behind (skip cells of) the first place with these cells,
\* and the nops there if they count.
\* Mutant: only one of them.
PaddedOne(p) == IF p < Size /\ Cell(p) = NopCell THEN p + 1 ELSE p
Padded(p)   == SkipNops(p)
EndOf(start, cells, skip, nops) ==
  LET e == Memmem(cells, start)
  IN  IF e = None THEN 0 ELSE IF nops THEN Padded(e + skip) ELSE e + skip

Loc(name, start, end) == [name |-> name, start |-> start, end |-> end, raw |-> FALSE]
Global(name, p, code, r) == Loc(name, Behind(p, code, r), 0)

-----------------------------------------------------------------------------
(* The parts of an executable.                                             *)

\* A word that is the displacement to a part.
Targets == <<"init_args", "init_envp", "main", "prog_malloc", "FUN_004f8b60">>
To(n)   == -SelectInSeq(Targets, LAMBDA t : t = n)

Part ==
  [dos   |-> <<5>>,
   text  |-> <<Words + 24, -11, 3, -12, Words + 25>>,
   fs    |-> <<Words + 3, Words + 4, 9>>,
   init  |-> <<Words + 5, Call, To("init_args"), Call, To("init_envp"), Push, 11, Push, 12,
               Push, 13, Call, To("main")>>,
   init_args |-> <<9>> \o EndInitArgs \o <<9>>,
   init_envp |-> <<9>> \o EndInitEnvp \o <<NopCell>>,
   main      |-> <<9>>,
   getenv    |-> GetenvCode[1][2] \o <<9>> \o EndGetenv \o <<NopCell>>,
   findexe   |-> FindexeCode[1][2] \o <<9, NopCell, NopCell>>,
   FUN_00505340 |-> <<Words + 15, 21, Call, To("prog_malloc"), Words + 16, 22, Words + 17, 23,
                      Call, To("FUN_004f8b60"), Words + 18, 24, Words + 19, NopCell, NopCell>>,
   prog_malloc  |-> <<9>>,
   FUN_004f8b60 |-> <<9>>,
   depfile_build      |-> BuildCode[1][2] \o <<70>> \o PushCode \o <<9>>,
   depfile_unknown    |-> BuildCode[1][2] \o <<71>> \o PushCode \o <<9>>,
   depfile_get_target |-> TargetCode[1][2],
   depfile_get_header |-> <<Words + 23>>,
   \* Parts that look like others.
   half_fs     |-> <<Words + 3, 9>>,
   half_init   |-> <<Words + 5, Call, 0, Call, 0, Push>>,
   half_getenv |-> <<Words + 10, Words + 12, 9>>,
   half_reuse  |-> <<Words + 15, 0, Call, 0, 9>>,
   nops        |-> <<NopCell, NopCell>>,
   data        |-> <<9>>]

Cells(lay) == FlattenSeq([k \in 1..Len(lay) |-> Part[lay[k]]])
\* Where part k of lay starts.
At(lay, k) == Len(Cells(SubSeq(lay, 1, k - 1)))
Where(lay, n) == At(lay, SelectInSeq(lay, LAMBDA m : m = n))
TextStart(lay) == Where(lay, "text") + Len(Part.text)

Linked(lay) ==
  LET c == Cells(lay)
      n == Len(c) - (IF Last(lay) = "data" THEN 1 ELSE 0)
  IN  [p \in 1..Len(c) |->
         CASE c[p] >= 0  -> c[p]
           [] c[p] = -11 -> n - TextStart(lay)
           [] c[p] = -12 -> TextStart(lay)
           [] OTHER -> IF Contains(lay, Targets[-c[p]])
                         THEN (Where(lay, Targets[-c[p]]) - p) % Words ELSE 0]

-----------------------------------------------------------------------------
(* The finders, in the order of funcs, and scan_bin.                       *)

ScanInit ==
  /\ layout \in Layouts
  /\ \E cut \in Cuts : file = SubSeq(Linked(layout), 1, Len(Linked(layout)) - cut)
  /\ places = {} /\ off = 0 /\ warned = FALSE /\ output = {} /\ stage = "fs"

Finds(new, next) ==
  /\ places' = places \cup new /\ stage' = next
  /\ UNCHANGED <<layout, file, off, warned, output>>

Names == <<"fs_1", "fs_2", "fs_3">>

\* Mutant: the search starts over where it was.
FindFsAgain ==
  /\ stage = "fs" /\ Cardinality(places) < 3
  /\ LET p == Scan(FsCode, off) IN
       IF p = None THEN stage' = "init" /\ UNCHANGED <<places, off>>
       ELSE /\ places' = places \cup {Loc(Names[Cardinality(places) + 1], p, p + Len(FsCode[1][2]))}
            /\ off' = p /\ UNCHANGED stage
  /\ UNCHANGED <<layout, file, warned, output>>

FindFs ==
  /\ stage = "fs" /\ Cardinality(places) < 3
  /\ LET p == Scan(FsCode, off) IN
       IF p = None THEN stage' = "init" /\ UNCHANGED <<places, off>>
       ELSE /\ places' = places \cup {Loc(Names[Cardinality(places) + 1], p, p + Len(FsCode[1][2]))}
            /\ off' = p + 1 /\ UNCHANGED stage
  /\ UNCHANGED <<layout, file, warned, output>>

Leftover ==
  /\ stage = "fs" /\ Cardinality(places) = 3
  /\ warned' = (Memmem(ScanStruct, off) # None)
  /\ stage' = "init"
  /\ UNCHANGED <<layout, file, places, off, output>>

\* A start outside of the file is searched from, for ever.
FindInit ==
  /\ stage = "init"
  /\ LET p    == Scan(InitCode, 0)
         args == CallUnsigned(p, InitCode, 5)
         envp == CallUnsigned(p, InitCode, 6)
         main == CallUnsigned(p, InitCode, 7)
     IN  IF p = None THEN Finds({}, "getenv")
         ELSE IF args > Size \/ envp > Size THEN Finds({}, "crash")
         ELSE Finds({Global("envp", p, InitCode, 2), Global("argv", p, InitCode, 3),
                     Global("argc", p, InitCode, 4),
                     Loc("init_args", args, EndOf(args, EndInitArgs, 2 + ArgsTail, FALSE)),
                     Loc("init_envp", envp, EndOf(envp, EndInitEnvp, 2, TRUE)),
                     Loc("main", main, main)}, "getenv")

\* Mutant: the end is looked for from the beginning of the file.
FindGetenvFar ==
  /\ stage = "getenv"
  /\ LET p == Scan(GetenvCode, 0) IN
       Finds(IF p = None THEN {} ELSE {Loc("getenv", p, EndOf(0, EndGetenv, 2, TRUE))}, "findexe")

FindGetenv ==
  /\ stage = "getenv"
  /\ LET p == Scan(GetenvCode, 0) IN
       Finds(IF p = None THEN {} ELSE {Loc("getenv", p, EndOf(p, EndGetenv, 2, TRUE))}, "findexe")

FindFindexe ==
  /\ stage = "findexe"
  /\ LET p == Scan(FindexeCode, 0) IN
       Finds(IF p = None THEN {} ELSE {Loc("findexe", p, EndOf(p, EndFindexe, 0, TRUE))}, "memreuse01")

FindMemreuse01 ==
  /\ stage = "memreuse01"
  /\ LET p      == Scan(MemreuseCode, 0)
         malloc == CallSigned(p, MemreuseCode, 2)
         clear  == CallSigned(p, MemreuseCode, 5)
     IN  IF p = None THEN Finds({}, "depfile")
         ELSE Finds({Loc("FUN_00505340", p, p + MemreuseCode[7][1] + Len(MemreuseCode[7][2])),
                     Global("DAT_0063a798", p, MemreuseCode, 1), Global("DAT_0063ccf0", p, MemreuseCode, 3),
                     Global("DAT_0063a828", p, MemreuseCode, 4), Global("DAT_0063ccb0", p, MemreuseCode, 6),
                     Loc("prog_malloc", malloc, malloc), Loc("FUN_004f8b60", clear, clear)}, "depfile")

\* The word before the push of 0x104, None if it cannot be read.
StructOf(b) ==
  LET push == First({q \in b..(b + Near - Len(PushCode)) : Has(q, PushCode)})
  IN  IF b < 1 \/ Size - b < Near \/ push = None THEN None ELSE Cell(push - 1)

Start(name, p, code) == Loc(name, p, p + Len(code[1][2]))

\* Mutant: what was found before a failure counts.
FindDepfilePart ==
  /\ stage = "depfile"
  /\ LET b == Scan(BuildCode, 0)
         t == Scan(TargetCode, 0)
         h == Scan(HeaderCode, 0)
     IN  IF b = None THEN Finds({}, "print")
         ELSE IF None \in {t, h} \/ StructOf(b) \notin Structs
         THEN Finds({Start("depfile_build", b, BuildCode)}, "print")
         ELSE Finds({Start("depfile_build", b, BuildCode), Start("depfile_get_target", t, TargetCode),
                     Start("depfile_get_header", h, HeaderCode),
                     [name |-> "off_depfile_struct", start |-> StructOf(b), end |-> 0, raw |-> TRUE]}, "print")

FindDepfile ==
  /\ stage = "depfile"
  /\ LET b == Scan(BuildCode, 0)
         t == Scan(TargetCode, 0)
         h == Scan(HeaderCode, 0)
     IN  IF None \in {b, t, h} \/ StructOf(b) \notin Structs THEN Finds({}, "print")
         ELSE Finds({Start("depfile_build", b, BuildCode), Start("depfile_get_target", t, TargetCode),
                     Start("depfile_get_header", h, HeaderCode),
                     [name |-> "off_depfile_struct", start |-> StructOf(b), end |-> 0, raw |-> TRUE]}, "print")

\* What is known of .text: 0 and 0 if it is not found.
Text ==
  LET p == Scan(TextCode, 0)
  IN  IF p = None THEN [off |-> 0, len |-> 0] ELSE [off |-> Cell(p + 3), len |-> Cell(p + 1)]
InText(q) == q >= Text.off /\ q < Text.off + Text.len

\* Mutant: without an end it is still the place of a function.
AlwaysCode(l) == IF l.raw THEN "raw" ELSE "code"
KindOf(l) == IF l.end # 0 THEN "code" ELSE IF l.raw THEN "raw" ELSE "addr"

Report ==
  /\ stage = "print"
  /\ output' = {[name |-> l.name, kind |-> KindOf(l), start |-> l.start, end |-> l.end,
              addr |-> l.end # 0 /\ InText(l.start) /\ InText(l.end)] : l \in places}
  /\ stage' = "done"
  /\ UNCHANGED <<layout, file, places, off, warned>>

ScanNext == \/ FindFs \/ Leftover \/ FindInit \/ FindGetenv \/ FindFindexe
            \/ FindMemreuse01 \/ FindDepfile \/ Report

ScanSpec == ScanInit /\ [][ScanNext]_scanVars

-----------------------------------------------------------------------------
(* Properties.                                                             *)

Patchable == {"init_args", "init_envp", "getenv", "findexe", "FUN_00505340", "depfile_build"}
Starts(n) == {At(layout, k) : k \in {j \in 1..Len(layout) : layout[j] = n}}
\* The part is all there.
Whole(n)  == \E s \in Starts(n) : s + Len(Part[n]) <= Size

Printed(n) == {o \in output : o.name = n /\ o.kind = "code"}

\* What has to be there for a function to be found, and where it ends.
Needs == [init_args |-> "init", init_envp |-> "init", getenv |-> "getenv", findexe |-> "findexe",
          FUN_00505340 |-> "FUN_00505340", prog_malloc |-> "FUN_00505340", FUN_004f8b60 |-> "FUN_00505340"]
EndsAt(n) ==
  CASE n \in {"prog_malloc", "FUN_004f8b60"} -> Where(layout, n)
    [] n \in {"init_args", "FUN_00505340"}   -> Where(layout, n) + Len(Part[n])
    [] OTHER                                 -> SkipNops(Where(layout, n) + Len(Part[n]))
TextEnd == IF ~Contains(layout, "text") THEN 0
           ELSE Len(Cells(layout)) - (IF Last(layout) = "data" THEN 1 ELSE 0)

\* Code that is in the executable is found, where it starts and with its padding to
\* where it ends, whatever parts look like it, come before it or are missing; and
\* it has an address in memory unless it ends .text
\* (scan.c:47-74, 184-207, 240-252, 281-291, 340-356, 540-546).
Complete ==
  stage = "done" =>
    \A n \in DOMAIN Needs :
      Whole(n) /\ Whole(Needs[n]) =>
        \E o \in Printed(n) :
          /\ o.start = Where(layout, n) /\ o.end = EndsAt(n)
          /\ o.end < TextEnd => o.addr

\* Nothing else is.  A place that patch.i overwrites is the start of that function,
\* has an end, and one name (scan.c:535-539, patch.i:69-81).  The uses of fs get
\* their names in order, and none between two of them is missed (scan.c:96-107).
\* depfile_build, which patch.i replaces if it is defined, is found together with
\* the two functions and the structure that its replacement uses (scan.c:414-458).
\* And the search leaves the file only for a function in front of the entry code.
PlacesReal ==
  /\ \A n \in Patchable : \A o \in Printed(n) : o.start \in Starts(n) /\ o.end > o.start
  /\ \A o, p \in output : o.name = p.name => o = p
FsInOrder ==
  \A k \in 1..3 : \A o \in Printed(Names[k]) :
    o.start \in Starts("fs") /\ Cardinality({s \in Starts("fs") : s < o.start}) = k - 1
DepfileWhole ==
  Printed("depfile_build") # {} =>
    /\ Printed("depfile_get_target") # {} /\ Printed("depfile_get_header") # {}
    /\ \E o \in output : o.name = "off_depfile_struct" /\ o.start \in Structs
InFile ==
  stage = "crash" =>
    \E n \in {"init_args", "init_envp"} : \E s \in Starts(n) : \E e \in Starts("init") : s < e

Sound == PlacesReal /\ FsInOrder /\ DepfileWhole /\ InFile

\* "Make sure we got everything": a fourth use of fs is reported (scan.c:110-117).
LeftoverReported == stage = "done" /\ Cardinality(Starts("fs")) > 3 => warned

=============================================================================
