# A verification project for metroskrew

metroskrew turns the Metrowerks ARM compilers, assemblers and linkers, which are
Windows executables, into native ELF programs.  It dumps the executable into an
assembly file, patches a few places of its code, links it against replacements
of the Windows DLLs, and wraps the result in a command that picks a version.

This directory holds TLA+ modules that model its program logic, configurations
that check them with TLC, and theorems that TLAPS proves about them.

## The system

| part | source | state it keeps | operations | what it talks to |
|---|---|---|---|---|
| assembly dump | `relink/dump.c` | the tables of the executable; the section, `pos`, `last_pos` | read the tables; scan each section; emit labels, slots, strings | reads the executable, writes assembly for `as` and `ld` |
| patch macros, link layout | `patch/patch.i`, `relink/link.ld.in` | the location counter, `patch`, `patch.end` | `patch`, `patch_end` | take the places from the scanner, the payloads call the replacements |
| scanner | `patch/scan.c` | the list of places | one `find_*` per patch; sort; print | reads the executable, writes the file that includes `patch.i` |
| replaced compiler function | `patch/FUN_00505340.c` | rows of bits per basic block; a static pointer into `SKREW_HACK01` | init, report, restore, loop until nothing changes | called by the compiler for each function; calls its `prog_malloc` |
| dependency file writer | `patch/depfile_build.c` | a growing string, path buffers | target line; one line per header; relative paths; escaping | called by the compiler; uses `GlobalAlloc`/`GlobalReAlloc` of `kernel32.c` |
| environment filter | `patch/env.c` | none | allow or hide a name | called by the compiler |
| kernel32 | `dlls/kernel32.c`, `dlls/_utils.c` | handles (descriptor + 1), directory searches, memory blocks with a header, `Tls` cells | Win32 calls on top of POSIX ones | called by the compiler; works on files other processes change |
| user32 and other DLLs | `dlls/*.c` | the string resources `dump.c` lists | `LoadStringA`; stubs | called by the compiler |
| wrapper | `wrap/wrap.c` | the arguments, the environment | filter arguments, pick the tool and libraries, start and wait | starts the converted program |
| entry and import glue | `relink/*.s`, `*.ld` | none | calling conventions | between C runtime and program |

The parts meet in data more than in calls.  The scanner's places are the macros'
input.  The dump's `.pe_text` section is replaced by the macros' output at the
same address.  The dump's string labels are what `LoadStringA` walks.  What
`SKREW_HACK_CHK` makes one process print, a user passes to the next through the
wrapper's `-wrap:hack01`.

Nothing in the programs is threaded (`kernel32.c` says so twice).  What is hard
is of other kinds.  The dump and the macros move a cut point through data, where
one wrong byte shifts everything behind it and shows up in an unrelated place of
the converted compiler.  The replaced function has undefined behaviour on
purpose, and a protocol between two processes to control it.  Path handling
compares pointers into two strings that end in many ways.  `kernel32.c` works
on a file system that other processes change between two of its calls.

What makes each part correct:

* dump: the linked section equals the loaded one, byte by byte; every label is
  at its address; no symbol is lost; the scan ends.
* macros: the patched text is as long as the original and every byte that is not
  patched is where it was, for any list of places that assembles.
* replaced function: the loop ends with the largest solution, as the original
  does, and a complete `SKREW_HACK01` makes it independent of `malloc`.
* dependency file: the path written leads to the header.
* kernel32: a search returns each file that stays, once, whatever is removed
  meanwhile; a handle names the file it was opened for until it is closed.
* wrapper: the arguments arrive as given; the exit status is the tool's.

`PROJECT.json` lists the components with what is and is not modelled, and the
hazards, each at its line with the properties that watch it.

## The modules

### RelinkDump: `dump_asm`

An image is what the table readers leave in memory.  `BeginSection` to
`EndSection` are the loop over the sections; `SkipByte` and `DumpSymbol` are the
two ends of a turn of the scan, `ExitUnreadable` the exits inside
`dump_find_export` and `dump_find_import`, where a name that is needed cannot be
read.  Which names those are belongs to the image (`exportDll`, `named`,
`unread`).  `DumpSymbol` is one action for the whole body: the piece before the
symbol (`Flush`), the export labels, the slot, the string, and the step on.  What
the assembler makes of it is `text[s]`, a sequence of bytes that say where they
come from, so that `.incbin` of the wrong range is seen.

`Faithful` compares it with `Loads`, what the Windows loader has at an offset.
The exception it makes is real: the scan looks at the end address too, and where
the next section starts there with a symbol, that is emitted in both sections.
`NoSilentDouble` shows that the assembler or the linker then refuses the result.

`WellFormed` says which images are meant: slots and strings do not overlap, none
lies across the end of a section, slots and strings are inside sections (the
reader finds them there), strings in the stored part, and sections do not overlap.
A string that is in no section matters: at the end address of the last one it
would be emitted, and nothing would refuse the result.

### PatchText: `patch.i` with `link.ld`

One action per line of `patch.i`: the line assembles (`ApplyPatch`), is left out
by `.ifdef` (`SkipPatch`), or stops the assembler (`BadPatch`).  `end` is
`patch.end`; `out` is the section so far.  A negative `.fill` does nothing but
warn, a negative `.incbin` is an error, and one of length 0, as GNU as reads it
(this much of the assembler is assumed), puts out nothing: with this, `OnlyOrderedAssembles` says
that a scanner's mistake in the order of places cannot pass, and `Preserved`
that what passes is right.  `Fits` (a payload is no longer than its place) is
assumed, as nothing in the macros checks it; it was compared by hand for the
generated files.

### Dominators: `FUN_00505340`

A process calls the function for each flow graph of a program, and a second
process compiles the same program.  `Call` picks the content of the rows that
nothing initialises: any set of bits.  `ReportWord` and `RestoreWord` are the
loops over these rows, `Visit` one turn of the inner loop, `NextPass` and
`LastPass` its end.  `Rerun` passes the report on, or the same text again.

`LargestSolution` is the specification of the result, not of the loop: the rows
solve the equations, and every set of blocks that could have a bit has it.
`Reproduced` is the point of the two variables: with a digit for every word that
is read uninitialised (only the last word may be short) the two processes agree
in every call, and a report is such a text.  Characters that are no digits are
passed over, and the pointer into the text is kept between the calls.

A digit is one bit and a word has `W` bits, so the reversal of the 32 bits and
their grouping by four become one reversal.

### DepfilePath: one header in `depfile_build`

From the path `path_join` left to the text that goes into the line.  A path is a
sequence of characters, as `relpath` compares characters.  `Strip` is one turn
of its loop, `StripFinal` the step after it, `Build` the rest; `NoMemory` leads
to the use of the null pointer, `Overrun` is the escape loop past the end.

`LeadsToHeader` resolves both paths name by name, with `..`.  It holds except
where a name of the working directory begins with one of the header's
(`SplitsName`) or a separator is doubled (`Doubled`); `depfile_strip` shows the
first of these.  `BelowIsShort` is what the file's head asks for (both together are
`RelativePath`): a header below
the working directory has the path that a relative rule would have.

### DepfileBuild: the rule in `depfile_build`

The whole function, with the string it grows in a block of `GlobalAlloc` memory.
`SourceAlone`, or `TargetText` and `SourceText`, print the first line,
`HeaderLine` each further one.  `StringAppend` is `string_append` with
`GlobalReAlloc` below it: the block may move.  `NullBlock` is any allocation that
fails, `NoDirectory` the failure of `getcwd`, which is the only one that reaches
"Out of memory", and `NameOverrun` a name with a space (see `DepfilePath`).  A piece
of text (a name, a colon, a continuation, a line end) is one byte, so that sizes
are lengths.  `OneRule` reads the text as make does.

### PeOpen: the headers

`pe_open` up to an open file (`ReadOffset`, `ReadHeader`, `ReadOptional`), and what
`pe_get_datadir` and the two readers of section headers make of it.  In
`PeTablesMC` it comes before `PeTables`: `Begin` hands over the directories and the
sections that were found, so the tables are read from files with real headers, cut
at any place.  The size of the optional header is kept in 8 bits (`dump.c:80`):
`HeadersAsLoaded` holds for every smaller one, whatever its length; with one of 256
bytes or more the sections would be looked for in the header itself, which the
compilers' executables (224 bytes) do not have.

### PeTables: the readers of `dump.c`

From the data directories to the arrays `dump_asm` works on.  A file is a
sequence of words with its sections; `at` is the position of the one `FILE`,
which every `fread` and every `pe_find_file_offset` moves.  `ReadExports`,
`ReadDescriptors` to `EndImports`, and `FindStrings` to `EndStrings` are the
three readers in the order `dump_asm` calls them; each has the actions in which
it returns false.  Names and slots are read by two loops, one turn an action.

The properties compare the arrays with what the Windows loader makes of the same
file: `ExportsAsLoaded` with the lookup by name, `ImportsPaired` with the
bindings of slots to DLL and name, `StringsComplete` with a walk of the whole
resource tree.  The last holds because whatever is not expected (a named
language, two of them, another language) makes the dump fail.  `ImportsPaired`
presumes tables of slots as long as those of names (`SlotsAsNames`), and a table
of names for each; nothing in the code would notice otherwise.  Fields are words
here, so that sizes of entries are smaller than in the file; two ordinals share
a word, as they do there.

### FindFile and DirSearch: directory searches

`DirSearch` is what a program relies on: a search returns each file that stays
exactly once before it ends, nothing that is not there, and gives up only over a
file that cannot be examined.  `FindFile` is `FindFirstFileA`, `FindNextFileA`
and `FindClose` cut at the calls of the system (`opendir`, `readdir`, `stat`),
with `Change`, a step of another process, possible between any two; `Listing` is
`DirSearch`'s specification under a refinement mapping that makes an open search
out of the program counter and the `findfile` object.  `Owned` follows the two
blocks, the joined path and the stream: `path` is handed to one turn of the loop
and must not be freed again by `FindClose`.  `readdir` is external: it returns
every entry that stays once, and may or may not return what came or went.  That
it does not fail on an open directory is assumed: the code takes its `NULL` for
the end of the listing in any case, and would leave out what is left.

### WrapLine: `win_argv_build`

The line is written one character of an argument at a time (`CopySlash`,
`CopyQuote`, `CopyOther` are the three ends of a turn), then read by the rules of
the Microsoft runtime, which are external.  `ReadBack` is the round trip.
`TypeOK` holds the point of the algorithm: `back` is the number of backslashes at
the end of what has been copied.

### WrapArgs: `parse_args` and `remove_ipa_arguments`

A command is a sequence of units, an option with its values; the code sees only
their concatenation, `argv`, and each action is one turn of the loop of
`parse_args` (`Proc`, `Thumb`, `Flag`, `Value`, `Other`) or of
`remove_ipa_arguments`.  The properties are about units: `GivenToTool` says that
the tool gets exactly its own, whole and in order; with the values of the
wrapper's own options and the choice of libraries it is `CommandRead`.  The last unit may have been
cut, which is how an option without its value comes about.

### WrapRun: the rest of `main`, and `patch_getenv`

`FindSelf` (or `SelfUnknown`, when `readlink` fails) to `SetEnvironment` are the
steps of `main` in their order, with empty values taken as not given, `Spawn`,
`SpawnFails` and `Wait` the process; the tool runs beside it.  Each look at the
disk (`BySdk`, `ChooseLibraries`) chooses what it finds, so the file `exe` of an
sdk and its file `lib` may come from different trees, appear, or go.  A file
with nothing but blanks gives an empty name: then the tool cannot be run, and the
library directory is the tree itself, both as the code has it.  `Getenv` and
`GetenvDies` are `patch_getenv` in the tool, over the environment it was given.

`SuccessIsReal` relates the wrapper's exit code to the tool's end, `OfTheSdk` the
tool to the file of the sdk, `ToolBeside` the tool's directory to the wrapper's
(together they are `RightTool`), `AsSet` what the tool reads to what the user or
an option has set.

### ScanBin: `scan`, the finders, and what `scan_bin` prints

A file is put together from named parts: the functions that are looked for, parts
that share the beginning of their patterns, and others.  A cell stands for the
bytes of an opcode in a pattern, or for one word, and displacements are words
modulo `Words`, which stands for 2^32.  `FindFs` (one turn of the loop),
`Leftover`, and one action for each further finder follow the table `funcs`;
`Report` is what is printed.  The sorting in front of it only orders the lines.

`Complete` and `Sound` know where each part is and compare: every function that
is there is found, with the end that its padding has, and no place that `patch.i`
would write over is anything else.  A place that ends where `.text` ends gets no
address (`scan.c:540`), so `Complete` asks for one only before that.  The end of
`init_args` may be a byte behind a file that is cut there (`ArgsTail`).

### FileHandles and Win32Files: files

`Win32Files` is the contract of Windows that a program writes for: a handle is its
own until it is closed, with a position of its own, and what a call answers is
what it did.  `FileHandles` is `kernel32.c` over a table of descriptors that the
kernel fills from below, and implements it (`AsOnWindows`) when a handle is mapped
to the descriptor below it.  Files are told from names, so that a deleted file
lives on while it is open.  Assumed: descriptors 0 to 2 are open when the program
starts.  A failed open returns 0, where Windows returns -1; what the program does
then is outside of this repository, so the model lets it use the 0 in every call,
and shows that nothing happens to any file.  `GetFileSize` changes nothing.

### FullPath: `GetFullPathNameA`

One call is one step (`First`, or `Retry` with the size the last one asked for),
and `Rename` is another process that renames the directory in between.
`RetryFits` is what the callers of this function rely on; `SameFile` resolves the
answer as `path_dup_unx` and the system do.  Names that begin with `/` are left
out there, as `kernel32.c:380` takes them for relative ones.

### LoadString: `LoadStringA`

The walk through the table the dump has written: `Find` the block, `Skip` a
string, `Copy`.  The identifiers, the sizes of buffers and the instances a caller
may give are chosen at the start.  With a buffer of size 0 the copied length is
-1, and the loop runs on (`step = "fault"`); `LoadTypeOK` says that this is the only
size for which it does.

### PathJoin: `path_join`

In front of `DepfilePath`: the directory and the name in one buffer, given or
allocated, cut as a whole to its size.  `Truncate` has the two cases, the name is
cut, or the directory alone fills the buffer.


## The runs

| run | modules | what it asks | bounds |
|---|---|---|---|
| `relink_dump` | `RelinkDump` | faithful dump, labels, nothing lost, ends | two sections, adjoining or not, data shorter, equal, longer; up to two exports, two slots, two strings at every kind of place |
| `dominators` | `Dominators` | largest solution, reproduced, ends | programs of one and two graphs with three to five blocks, words of three bits, every content of uninitialised rows, five texts |
| `pe_tables` | `PeOpen` | the loader's headers, or a failure | optional headers of five sizes on both sides of what 8 bits hold; cut in each header; wrong offset, signature, magic |
| | `PeTables` | the loader's tables, or a failure | the same, and 550 files: two DLLs, tables crossed, of unequal length or outside; three functions; trees with named, missing and unexpected entries; cut at twelve places |
| | `LoadString` | the string of the identifier, in the buffer | four tables with blocks of two strings, a gap, an empty string, wide units; identifiers 0 to 6, buffers of 0 to 5, every instance |
| `depfile` | `DepfilePath` | path leads to the header, short below | names `a`, `b`, `ab`, `..`; working directories of up to two names, headers of up to three; a buffer of ten characters |
| | `DepfileBuild` | one rule, every name | with and without target, up to three headers, names with spaces, two places for the block |
| | `PathJoin` | the beginning of the two that fits | every path of up to three characters, sizes 0 (none given) to 8, `PATH_MAX` of 5 |
| `kernel32` | `FindFile` | listing, ownership, calls return | two names of five kinds, two searches at once, two changes by others |
| | `FileHandles` | Windows' contract for handles | two descriptors besides the console's, one name, two files of up to two bytes, dispositions of the table and outside it |
| | `FullPath` | a second call is enough, same file, last part | every name of up to three characters of four kinds, four directories with the root and a failing `getcwd`, buffers of up to nine, two renames |
| `wrapper` | `WrapArgs` | what the tool gets, last value, libraries | up to three of fourteen kinds of unit, the last one cut or not |
| | `WrapRun` | exit code, tool, environment; ends | the options that `WrapArgs` leaves, three sets of the user's variables, files in either tree, missing or blank; homes with and without a name; tools that exit, are killed, cannot be run; `SIGCHLD` ignored or not |
| | `WrapLine` | the line reads back | an argument of up to three characters of four kinds and a short one behind it, a line end |
| `patching` | `ScanBin` | complete, sound, in order, all or none | the order of the compilers and every exchange of neighbours, each part left out, seven lookalikes put anywhere, a callee in front of the entry code, with and without `.text` and data behind it, whole and cut |
| | `PatchText` | preserved text, ordered places | text of eight bytes, up to three lines of 17 kinds |
| `depfile_strip` | `DepfilePath` | finding: a split name | the absolute headers of the same |
| `depfile_escape` | `DepfilePath` | finding: a space | two headers with a space added |
| `wrap_line_bare` | `WrapLine` | finding: what is not quoted | the same |
| `scan_leftover` | `ScanBin` | finding: the fourth use of `fs` | four uses |
| `file_handles_six` | `FileHandles` | finding: disposition 6 | dispositions 6 and 7 |

A run with several modules checks parts of one source file, or of programs that
hand data to each other.  Where they share no variable (`Kernel32MC`,
`DepfileMC`, `PatchMC`, `LoadString` in `PeTablesMC`), what holds of each alone holds of every
interleaving, so a behaviour follows one part, chosen by `follows`, and the
others keep one initial state.  `PeOpen` with `PeTables`, and `WrapperMC`, are
compositions in sequence.  In the first, `Begin` hands the words of the file, its
directories and its sections to the reading of the tables.  In the second, `Begin`
hands the options that `parse_args` has found to the choice of tool and libraries,
and what the command was is forgotten there, as `main` does not look at it again.
On Windows the line is written instead, for arguments of its own.  `TypesOK` is the
conjunction of the parts' type invariants, `MainEnds` that of
`Parsed` and `Ends`.

Why these are enough to be interesting.  For the dump, a piece can begin and end
on each side of the end of the data, a symbol can stand at both ends of a
section, and two or three kinds of symbol at one address.  For the macros,
places touch, overlap, are out of order, are filled and are not.  For the rows,
a row has two words, so words and digits are told apart from rows, a loop is
visited against its direction, texts end inside each call.  For the paths, each
can be a beginning of the other, end inside a name, and be truncated.  For the
tables, a section's addresses are never its offsets, tables do not follow each
other in the order they are read, and every read fails in some file.  Two names
and two changes let a file go before and after it is read, come back, and be
replaced by a link to nowhere while another one stays.  Three characters hold a
run of two backslashes before a quote, at the end, and before anything else.
Two descriptors and two files let a handle be used again for another file, and a
deleted file stay open beside a new one of its name.  With three units an option's
value can look like an option, come twice, and be cut off.  For the scanner, a
part that looks like another stands before, behind and in place of it, and a
function's end can be the file's.  A buffer is smaller than the directory alone,
than directory and name, and than those with a terminator.
`CHECK_DEADLOCK FALSE` stands where the program really stops.

Five runs end in a violation, and are findings:

* `depfile_strip`: in `/ab` the header `/a/b` is written `b`.  The loop compares
  up to the header's separator and does not look whether the working directory's
  name ends there.
* `depfile_escape`: for a path with a space, `depfile_escape_spaces` tests `*s`
  and advances `src`; it does not stop at the end of the string.
* `wrap_line_bare`: only arguments with white space are quoted, so an empty one
  disappears and a quote in a word is taken for syntax.
* `file_handles_six`: `CreateFileA` lets a disposition of 6 pass and reads its
  flags behind the table of five.
* `scan_leftover`: the search for a leftover match looks for the bytes of the scan
  description; four uses of `fs` pass without the warning.

Four more departures from what a reader of the code may expect are in the models,
and stated as exceptions of properties, so that everything else is checked:

* `GlobalAlloc` and `GlobalReAlloc` use a null pointer where `string_alloc` and
  `string_realloc` expect to see it and to report it (`NullBlock` of
  `DepfileBuild`, and `JoinNoMemory` of `PathJoin` unless `GlobalAlloc` is Windows'
  own, end in `crash`; "Out of memory" is for `getcwd` only).
* `my_dirname` gives `""` for `/mwccarm`, which its caller takes for a name without
  a directory; the tool is then looked for in the working directory
  (`ToolBeside` leaves out a home without a name).
* When the parent ignores `SIGCHLD`, `waitpid` fails and the exit code is what was
  in an uninitialised variable (`SuccessIsReal` leaves this out).
* Displacements of calls in the entry code are added unsigned, so that a function
  in front of it is searched for outside of the file (`FindInit` ends in `crash`;
  `InFile`, a part of `Sound`, says that nothing else leads there).

## Fairness

The programs are sequential, and nothing but the end of the machine stops
them: `WF_vars(Next)` says that they run on.  No action is singled out, no
external event is assumed to happen.  `Termination` then rests on the code alone
(on `Advance` in the dump, on rows that only lose bits in the loop).

The wrapper is two processes: only `main` is fair (`WF_allVars(Main)` in
`WrapperMC`).  The tool may run for ever, and `Ends` says no more than that the
wrapper ends if the tool does; `Parsed` says that the loops over the arguments do.

`FindFile` is the other one with an environment: `WF_vars(InCall)` runs a call on
once it is made, and asks nothing of the program between calls nor of other
processes.  `CallsReturn` rests on the bound `MaxChanges` too: a process that
creates and removes files for ever could keep `readdir` busy, which the code
does not, and need not, prevent.

## What is proved

Eight modules hold proofs, seven of them theorems and `SeqFacts` what several share.
TLC checks the same properties on the instances above.  No theorem assumes more than the `ASSUME` of its component, which TLC
evaluates in the runs.

| module | property | for every |
|---|---|---|
| `RelinkDumpProofs` | `Faithful`, `LabelsPlaced`, `SymbolsDefined`, `NoSilentDouble` | set of well-formed images |
| `PeTablesProofs` | `ExportsAsLoaded`, `ImportsPaired`, `StringsComplete`, `IsTheString` | set of well-formed files, and of resources |
| `PatchTextProofs` | `Preserved`, `OnlyOrderedAssembles` | text and list of patches |
| `DominatorsProofs` | `LargestSolution`, `RowsShrink`, `Reproduced` | program, width of words, text |
| `DepfileProofs` | `OneRule`, `Joined` | list of headers, places of the block; pair of paths and size |
| `Kernel32Proofs` | `Owned`, `Listing` | set of names, of searches, and number of changes by others |
| | `AsOnWindows` | number of descriptors, names, files, bytes |
| | `SameFile`, `RetryFits` | name, set of directories, size and number of renames |
| `WrapperProofs` | `CommandRead` | set of options and length of the command |
| | `SuccessIsReal`, `RightTool`, `AsSet` | command, disk and environment |
| | `ReadBack` | list of arguments, of any length and with any characters |

Each also proves its component's type invariant.  `TypesOK` of `pe_tables`, `depfile`,
`kernel32` and `wrapper` is proved of the runs' own specifications.  In the first three
`Together` says that a behaviour in which one part is followed is one of each part; in the
wrapper the parts follow each other, which takes an invariant of its own (`AllInv`).

**RelinkDumpProofs**, from `ImagesAssumption`.  `Faithful`
speaks of finished sections; the invariant says that `text[x]` is right up to
`lastPos` and as long, that no symbol lies between `lastPos` and `pos`, and that
no slot lies across `lastPos`.  `JoinedBytes` carries a property of the
bytes from two pieces to their concatenation.

`SymbolsDefined` speaks of the end of the dump, so `SymbolInv` adds what has been
labelled on the way: every string behind the scan, and every export that is not
inside a slot or a string (`Behind`, `StringsOut`, `ExportsOut`).  A turn of
the scan goes from one address to the end of what stands there, and `InsideHidden`
shows that nothing in between had a claim to a label.  `NoSilentDouble` follows
from it: a section that became too long has a symbol at its end address.  If
that is a string, the section it lies in defines its label again; if a slot, that
section overlaps.  This is where a string in no section would have been a
counterexample, which TLC confirms when that part of `WellFormed` is left out.

**PeTablesProofs**, from `PeAssumption`, `OpenAssumption` and `LoadAssumption`.  The
attempt to prove `ExportsAsLoaded` and `StringsComplete` for every file showed that
both need a word about the file.  The dump takes an address of 0 for "no name", so a name
that has that address is lost (`NamesThere` excludes it); and the reader takes the first
entry for strings in the root and looks for no second (`OneForStrings`).  Both are
premises now, like `SlotsAsNames` before them.

For the imports the invariant (`Pairing`) says of each place in the two loops which pairs
there are: those of the descriptors in front (`BindingsTo`), and of this one as many
names, then slots, as its tables have had items so far.  `SlotsAsNames` is used where
the second loop ends: the slots end after as many items as the names did, so the two
arrays are equally long again.  For the strings (`StringsSoFar`), each block that
was kept had one language, which is where the walk of the tree and the reader agree; for
the exports `LastName` is the name that is written last into a function's place.
What the tables need of a file is `WellFormed`, words that are numbers.
`OpenedInvariance` shows that `pe_open` leaves such a file, so all of it
holds of what is read at the places the headers give (`ReadAfterOpening`).

`IsTheString` needs to know where the walk is in the block: `AtLength` says that the
position is that of a length, with as many strings in front as have been skipped.

**PatchTextProofs**, from `TextAssumption`.  `Preserved` says nothing until the
end; the invariant says
that what has been put out is right, and that what is missing up to `patch.end`
is the part of the last place that only nops will fill.

**DominatorsProofs**, from `DominatorsAssumption`.  The invariant has two sides.
From above: no row lacks
a bit of a closed set, as a visit only takes away what some predecessor lacks.
From below: the new row of any block is within the old one, which is also why
rows only shrink; and while a pass has changed nothing, the blocks behind it
solve their equations, so that the last pass leaves a solution.

`Reproduced` compares two processes, and the invariant `Repro` says how each of
them stands to the text.  The words of the uninitialised rows are numbered
through the whole program (`WordAt`: those of the calls and rows in front of it).
Word `m` is `W` digits of the text from digit `W * m` on (`RowFrom`, `TextBit`), where
characters that are no digits do not count (`Rank`).  `TextPlace` says that
`hack_data` is the rest of the text behind the words restored, `ReportPlace` that the
report is as long as the words that it was made of, `RowsText` which words
of the rows are those of the text already.  What a call returns then depends on the graph and the
text alone (`Result`): `OneResult` takes `LargestSolution` twice, as two largest
solutions over the same rows contain each other.  The text a process goes by is
its report or `SKREW_HACK01`, and `Rerun` makes the one the other, so both
processes have one and the same.  The last word of a
text may be short: the missing digits are zeros, which `TextBit` says of every digit that is not there.

`WordsOf` is a sum over the graphs; what these proofs need of it, and of the digits
counted in a text, is proved without an induction theorem: `Smallest`, from the
well-founded order of the numbers, gives a smallest counterexample.

**DepfileProofs**, from `JoinAssumption`.  `Joined` is about the result; the
invariant `CutToFit` says what the two lengths are after the cut: all of both, or
together just what fits, and then nothing of the name unless all of the
directory.  `BeginningOfBoth` makes one beginning of the two.

The rule, from `BuildAssumption`: `RuleInv` says that the one block there is holds a text
(`Holds`), and that the text shows the names wanted so far and has no end of a rule in it before the last
header (`Written`).  What a text shows is a `FlattenSeq` of what its pieces show, so a
text with a line more shows one name more, and its ends are those of both parts (`Line`).

The path, from `DepfileAssumption`: `relpath` moves a pointer through the working
directory and one through the header; `InCwd` says that the first is always the end of
it.  The rest is the room that `header_full` has.

**SeqFacts** has what `FlattenSeq` of two sequences behind each other is, and which
argument follows which part (`UpTo`, `Beyond`).  `FlattenSeq` is recursive; the facts
come from a function with the same recursion and `Smallest`, the smallest number of parts
for which one of them fails.

**Kernel32Proofs**, from `FindAssumption` (the bound on changes is a number).  `Owned`
is about a heap between calls; the invariant has to say whose each block is in
the middle of one: `Blocks` gives every block to a search that is open or, while
`open` or `stat` runs, to the call (`Lent`).  `Listing` is proved step by step
under the mapping of the model: `Opened` is `Begin`, a `stat` that succeeds is
`Deliver`, the end of the stream `NoMore`, the `exit` over a file that cannot be
examined `GiveUp`, a change by another process `Change`, and what lies between
them stutters.  It needs `Counted`: a file that
stays is there, and has been returned once if the search is past it and never
otherwise, where a file that is being looked at counts as not passed.

Handles, from `HandleAssumption`: the mapping takes a handle to the descriptor below it.
The invariant says that descriptors 0 to 2 stay the console's, that the handles
held are exactly those of the open files, and that a file nobody can reach is empty, so that
its number can be given to a new one.  `CloseHandle` is where it is needed: the
last handle of a deleted file takes its content with it, in both models at once.

Paths, from `PathAssumption`: the properties compare an answer with the
directory as it is later, so the invariant keeps, until another process renames
it, what a call found: `Answered` that the path is the directory and the name,
`Asked` that a refusal is what the name needs there.  What is asked for with a
buffer too small for the directory alone counts one more than the path has, and
`AskedFits` shows that it is enough.  `PartFacts` is the one fact about the last separator, and
rests on `LastOne`: positions with a property have a last one.

**WrapperProofs**, from `RunAssumption` (statuses and signals are numbers, and no
home has the name that stands for a directory of the user's).  The properties compare the start of
`main` with its end, so the invariant carries what was found from step to step:
the directory of the wrapper, the tool under it, the libraries in one of
the two trees, the environment as given up to `SetEnvironment` and as chosen
behind it.  `RightTool` needs that what was read from the file of the
sdk is what the tool's name was made of, whatever the file says later.

The command, from `UnitAssumption`: the code reads a flat list of arguments, the property
is about units, and the invariant says where in the units the code is (`ParseTo`,
`RemoveTo`).  It may be inside one: `parse_args` does not know `-ipa`, and copies it and the
file behind it in two turns; `remove_ipa_arguments` does not know `-proc` (`InUnit`,
`InKept`).  So the argument behind must not look like an option to that loop, which is
what `UnitAssumption` asks, and no more: a value may look like any other option, as
`-wrap:sdk -wrap:dbg` does in the run.  `ReadTo` says that options and libraries are what the last unit of
each kind so far says.

The line, from `LineAssumption`: `ReadBack` compares what was written with what a reader
of other rules makes of it, so `LineInv` says of the whole line how it is made.  Argument
`k` ends at `e[k]` (`Laid`), and in quotes its `x`-th character at `q[k][x]`; a quote has
the backslashes before it twice, and one more (`Placed`, `Escaped`), which is
where the count `back` is needed.  The reader, while it is in an
argument, has read a prefix of it, and never stands between two backslashes of one run
(`InQuoted`, `Clean`): in the middle of one it would take an odd number for an even one.
The proof needed what the model did not say of the path of the tool, which is read by
other rules: it has no quotes, and does not end with a backslash, or a quote written
behind it would be taken for one of its characters.  It is the path of a file, so
`LineAssumption` says so now.

`WrapperAsChecked` is about the specification that TLC runs, with all six invariants of
the run: `AllInv` is the three invariants, and that before the command has been read
nothing is known of the run but how it was called (`NotRun`).

Left to TLC:

* Liveness (`Termination`, `CallsReturn`, `MainEnds`), which these provers do not reach.
* `RelativePath` resolves two paths name by name with a fold that drops a name for each
  `..`; a proof would have to say what the path is after every one of them.
* `HeadersAsLoaded`, since its reading of the same fields by the loader is as long as the code.
* `Complete` and `Sound`, about a file put together from parts, the order of which the
  run's constants give; for other parts they say nothing.

## What is not modelled

* The instructions of payloads, the entry code and calling conventions.
* The Windows branch (`_WIN32`) of `depfile_build.c`, and of `wrap.c` what is not
  the quoting: `CreateProcess` and its wait.
* The text formats of the assembly and the names in it; the command line of `dump`.
* The remaining calls of `kernel32.c`: `GetFileSize`, times, modules, TLS and the
  environment are one system call or a constant each; `GlobalFree` and the locks
  undo what `GlobalAlloc` adds in front of a block.  The other DLLs are stubs that
  return constants or stop the program.
* Messages, traces and the debugging output; the command line of `scan` and the
  names of its output files.
* Generated patch files, build and release scripts.

## Plan

What could follow, the parts that decide most first.

1. The result of `PeTables` as one of `RelinkDump`'s images; `GlobalFree` with the blocks of `GlobalAlloc`.
2. The places that `ScanBin` prints, sorted, as `PatchText`'s lists.
