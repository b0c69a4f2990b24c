---------------------------- MODULE DepfilePath ----------------------------
(***************************************************************************)
(* What patch/depfile_build.c does with the path of one header on its way  *)
(* into the dependency file: separators, relpath (the path seen from the   *)
(* working directory), the copy that truncates, the escaping of spaces.    *)
(*                                                                         *)
(* A path is a sequence of characters: the code compares the two paths by  *)
(* pointers into them, not by names, and what it gets wrong it gets wrong  *)
(* between two letters of a name.                                          *)
(***************************************************************************)
EXTENDS Integers, Sequences, FiniteSets, SequencesExt

CONSTANTS
  Cwds,     \* what getcwd may return
  Headers,  \* what path_join may leave in header_full
  PathMax   \* PATH_MAX, the size of header_full

ASSUME DepfileAssumption ==
  /\ PathMax \in Nat \ {0}
  /\ \A s \in Cwds \cup Headers : s \in Seq({s[k] : k \in DOMAIN s})
  /\ \A h \in Headers : Len(h) < PathMax

-----------------------------------------------------------------------------
(* strchr and strncmp on what is left of a path.                           *)

\* Positions of separators after the first character.
SepsAfter(s) == {k \in 2..Len(s) : s[k] = "/"}
\* Where the first name of a path ends, the separator before it included.
NameEnd(s) == IF SepsAfter(s) = {} THEN Len(s)
              ELSE (CHOOSE k \in SepsAfter(s) : \A j \in SepsAfter(s) : k <= j) - 1

AtSep(s)        == s # <<>> /\ s[1] = "/"
From(s, k)      == SubSeq(s, k, Len(s))
SameStart(s, t, l) == l <= Len(s) /\ l <= Len(t) /\ SubSeq(s, 1, l) = SubSeq(t, 1, l)
Seps(s)         == Cardinality({k \in DOMAIN s : s[k] = "/"})

Slashes(s) == [k \in DOMAIN s |-> IF s[k] = "\\" THEN "/" ELSE s[k]]
Parents(p) == [k \in 1..(3 * p) |-> IF k % 3 = 0 THEN "/" ELSE "."]

-----------------------------------------------------------------------------
VARIABLES
  pc,      \* "convert", "strip", "final", "build", "copy", "escape", "done";
           \* "exit": out of memory, "crash", "overrun": reads past the string
  cwd,     \* what getcwd returned
  header,  \* what path_join made
  full,    \* header_full
  d, w,    \* dst_p and cwd_p: what is left of the two paths
  rel,     \* what relpath returns
  esc,     \* what depfile_escape_spaces has put into escape_buf, or returns
  at       \* the character it copies next

vars == <<pc, cwd, header, full, d, w, rel, esc, at>>

Init ==
  /\ pc = "convert"
  /\ cwd \in Cwds
  /\ header \in Headers
  /\ full = header
  /\ d = <<>> /\ w = <<>> /\ rel = <<>> /\ esc = <<>>
  /\ at = 1

\* getcwd, the conversion of the separators, the call of relpath.
Convert ==
  /\ pc = "convert"
  /\ full' = Slashes(full)
  /\ d' = full' /\ w' = cwd
  /\ pc' = "strip"
  /\ UNCHANGED <<cwd, header, rel, esc, at>>

OutOfMemory ==
  /\ pc = "convert"
  /\ pc' = "exit"
  /\ UNCHANGED <<cwd, header, full, d, w, rel, esc, at>>

\* Mutant: the separator after the name has to be the same as well.
StrippableNext == /\ AtSep(d) /\ SepsAfter(d) # {}
                  /\ SameStart(d, w, NameEnd(d) + 1)

\* A leading name of the header's path is one of the working directory's too.
Strippable == /\ AtSep(d) /\ SepsAfter(d) # {}
              /\ SameStart(d, w, NameEnd(d))

Strip ==
  /\ pc = "strip"
  /\ Strippable
  /\ d' = From(d, NameEnd(d) + 1)
  /\ w' = From(w, NameEnd(d) + 1)
  /\ UNCHANGED <<pc, cwd, header, full, rel, esc, at>>

EndStrip ==
  /\ pc = "strip"
  /\ ~Strippable
  /\ d' = IF d = <<>> THEN <<".">> ELSE d
  /\ pc' = "final"
  /\ UNCHANGED <<cwd, header, full, w, rel, esc, at>>

\* Mutant: the name may go on in the header's path.
StripFinalPart ==
  /\ pc = "final"
  /\ LET l == NameEnd(w)
     IN  IF AtSep(w) /\ SameStart(d, w, l)
           THEN d' = From(d, l + 1) /\ w' = From(w, l + 1)
           ELSE UNCHANGED <<d, w>>
  /\ pc' = "build"
  /\ UNCHANGED <<cwd, header, full, rel, esc, at>>

\* The last name of the header's path, if it is a directory on the way.
StripFinal ==
  /\ pc = "final"
  /\ LET l == NameEnd(w)
     IN  IF AtSep(w) /\ Len(d) = l /\ SameStart(d, w, l)
           THEN d' = <<>> /\ w' = From(w, l + 1)
           ELSE UNCHANGED <<d, w>>
  /\ pc' = "build"
  /\ UNCHANGED <<cwd, header, full, rel, esc, at>>

\* The ../ for what is left of the working directory, and the rest.
Build ==
  /\ pc = "build"
  /\ LET below == d = <<>> \/ AtSep(d)
         rest  == IF AtSep(d) THEN Tail(d) ELSE d
         p     == IF below THEN Seps(w) ELSE 0
     IN  rel' = IF rest # <<>> THEN Parents(p) \o rest
                ELSE IF p = 0 THEN <<".">>
                ELSE Front(Parents(p))
  /\ pc' = "copy"
  /\ UNCHANGED <<cwd, header, full, d, w, esc, at>>

\* relpath returns NULL, and its caller copies from there.
NoMemory ==
  /\ pc = "build"
  /\ pc' = "crash"
  /\ UNCHANGED <<cwd, header, full, d, w, rel, esc, at>>

\* Mutant: the terminator of a path that just fits is lost.
CopyOneMore ==
  /\ pc = "copy"
  /\ full' = IF Len(rel) <= PathMax THEN rel ELSE SubSeq(rel, 1, PathMax - 1)
  /\ pc' = "escape"
  /\ UNCHANGED <<cwd, header, d, w, rel, esc, at>>

\* memccpy into header_full.
Copy ==
  /\ pc = "copy"
  /\ full' = IF Len(rel) < PathMax THEN rel ELSE SubSeq(rel, 1, PathMax - 1)
  /\ pc' = "escape"
  /\ UNCHANGED <<cwd, header, d, w, rel, esc, at>>

HasSpace(s) == \E k \in DOMAIN s : s[k] = " "

\* depfile_escape_spaces where there is nothing to escape.
KeepSpaces ==
  /\ pc = "escape"
  /\ ~HasSpace(full)
  /\ esc' = full
  /\ pc' = "done"
  /\ UNCHANGED <<cwd, header, full, d, w, rel, at>>

\* Its loop where there is: every turn looks at the first character of the
\* string, and copies the next one.
EscapeChar ==
  /\ pc = "escape"
  /\ HasSpace(full)
  /\ at <= Len(full)
  /\ esc' = esc \o (IF full[1] = " " THEN <<"\\", full[at]>> ELSE <<full[at]>>)
  /\ at' = at + 1
  /\ UNCHANGED <<pc, cwd, header, full, d, w, rel>>

\* The first character is still there when the string has been copied.
Overrun ==
  /\ pc = "escape"
  /\ at > Len(full)
  /\ pc' = "overrun"
  /\ UNCHANGED <<cwd, header, full, d, w, rel, esc, at>>

Next == \/ Convert \/ OutOfMemory \/ Strip \/ EndStrip \/ StripFinal
        \/ Build \/ NoMemory \/ Copy \/ KeepSpaces
        \/ EscapeChar \/ Overrun

Spec == Init /\ [][Next]_vars /\ WF_vars(Next)

-----------------------------------------------------------------------------
Stages == {"convert", "strip", "final", "build", "copy", "escape", "done",
           "exit", "crash", "overrun"}

\* Types of the state.
TypeOK ==
  /\ pc \in Stages
  /\ cwd \in Cwds /\ header \in Headers
  /\ \A s \in {full, d, w, rel, esc} : s = <<>> \/ Len(s) \in Nat \ {0}
  /\ Len(full) < PathMax
  \* strncmp has never let cwd_p past the end of its string
  /\ pc \in {"strip", "final", "build"} =>
       \E k \in 0..Len(cwd) : w = From(cwd, k + 1)

\* The names of a path, and where a chain of names leads from the root.
Names(s) ==
  LET Cut(acc, ch) == IF ch = "/" THEN Append(acc, <<>>)
                      ELSE Append(Front(acc), Append(Last(acc), ch))
  IN  SelectSeq(FoldLeft(Cut, << <<>> >>, s), LAMBDA name : name # <<>>)

Walk(names) ==
  LET Go(place, name) ==
        CASE name = <<".">> -> place
          [] name = <<".", ".">> -> IF place = <<>> THEN place ELSE Front(place)
          [] OTHER -> Append(place, name)
  IN  FoldLeft(Go, <<>>, names)

Place(dir, s) == Walk(IF AtSep(s) THEN Names(s) ELSE Names(dir) \o Names(s))

\* Where the two paths part, the working directory has a name that begins with
\* the one the header's path has there, as /foobar does with /foo.
SplitsName(dir, s) ==
  LET a == Names(dir)
      b == Names(s)
  IN  \E k \in DOMAIN a \cap (1..(Len(b) - 1)) :
        /\ SubSeq(a, 1, k - 1) = SubSeq(b, 1, k - 1)
        /\ a[k] # b[k] /\ IsPrefix(b[k], a[k])

\* Two separators in a row are not one.
Doubled(s) == \E k \in 2..Len(s) : s[k - 1] = "/" /\ s[k] = "/"

\* What the stripping of names handles: it compares characters.
Handled(dir, s) == ~Doubled(s) /\ ~SplitsName(dir, s)

Target == Slashes(header)
Whole  == Len(rel) < PathMax

\* relpath: the path it returns leads from the working directory to the header,
\* whatever the two have in common, wherever one ends inside the other, and also
\* where the header's path climbs with .., except where the stripping splits a
\* name of the working directory or takes an empty name for one.
LeadsToHeader ==
  pc = "done" /\ Whole /\ Handled(cwd, Target) => Place(cwd, esc) = Place(cwd, Target)

\* The point of relpath: the path of a header below the working directory is the
\* one a rule that generates it has, no more and no less than its names there.
\* (In the root directory it climbs first: /x is ../x there.)
BelowIsShort ==
  LET dir  == Names(cwd)
      rest == SubSeq(Names(Target), Len(dir) + 1, Len(Names(Target)))
  IN  (/\ pc = "done" /\ Whole /\ dir # <<>>
       /\ AtSep(Target) /\ IsPrefix(dir, Names(Target)) /\ Handled(cwd, Target))
        => /\ ~AtSep(esc)
           /\ Names(esc) = IF rest = <<>> THEN << <<".">> >> ELSE rest

\* What relpath writes is right, and as short as it should be.
RelativePath == LeadsToHeader /\ BelowIsShort

\* depfile_build.c: "strip any leading path components".  Components: the path
\* that is written leads to the header for every pair of paths.
ComponentsStripped ==
  pc = "done" /\ Whole => Place(cwd, esc) = Place(cwd, Target)

\* depfile_build.c: "this set of functions is responsible for emitting
\* makefile-style dependency information".  It emits it, or reports that there
\* is no memory, for a header with a space in its name as well.
EveryHeaderWritten == pc # "overrun"

=============================================================================
