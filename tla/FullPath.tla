------------------------------ MODULE FullPath ------------------------------
(***************************************************************************)
(* GetFullPathNameA and GetCurrentDirectoryA of dlls/kernel32.c, as the    *)
(* program calls them: with a buffer, then again with one of the size it   *)
(* was told.  What it makes of the answer is a path for CreateFileA, which *)
(* path_dup_unx of dlls/_utils.c turns into one of Unix.                   *)
(*                                                                         *)
(* Between two calls another process may rename the current directory.     *)
(***************************************************************************)
EXTENDS Naturals, Sequences, SequencesExt

CONSTANTS
  PathNames,     \* what the program asks for: sequences of characters
  Dirs,      \* the current directories, the sequence <<>> where getcwd fails
  MaxSize,   \* the largest buffer, a bound of the model
  MaxMoves   \* how often the directory is renamed, a bound of the model

\* Characters that matter: "\\", "/", a drive ("C:"), and any other.
ASSUME PathAssumption ==
  /\ PathNames \subseteq Seq({"back", "slash", "drive", "a", "b"})
  /\ Dirs \subseteq Seq({"slash", "a", "b"})
  /\ MaxSize \in Nat /\ MaxMoves \in Nat

VARIABLES
  cwd,    \* what getcwd says
  moves,  \* how often it has changed
  name,   \* lpFileName
  size,   \* nBufferLength
  buf,    \* the text in lpBuffer
  stored, \* how many characters of it have been written, terminators included
  ret,    \* the result of the last call
  part,   \* lpFilePart, as a position in buf
  same,   \* the directory is still the one of the last call
  stage      \* "ask", or "have" after a call

fullVars == <<cwd, moves, name, size, buf, stored, ret, part, same, stage>>

Swap(path, c, d) == [k \in DOMAIN path |-> IF path[k] = c THEN d ELSE path[k]]

\* path_has_drv, and path_dup_unx.
HasDrive(path) == Len(path) >= 2 /\ path[1] = "drive" /\ path[2] = "back"
Unix(path)     == Swap(IF HasDrive(path) THEN Tail(path) ELSE path, "back", "slash")

FullInit ==
  /\ cwd \in Dirs /\ moves = 0
  /\ name \in PathNames
  /\ size = 0 /\ buf = <<>> /\ stored = 0 /\ ret = 0 /\ part = 0
  /\ same = TRUE /\ stage = "ask"

\* Mutant: a drive does not make a name absolute.
RelativeDrive == name = <<>> \/ name[1] # "back"
Relative == (name = <<>> \/ name[1] # "back") /\ ~HasDrive(name)

\* What GetCurrentDirectoryA answers: the room it needs, or the length.
Current(n) == IF cwd = <<>> THEN 0
              ELSE IF n < Len(cwd) + 1 THEN Len(cwd) + 1 ELSE Len(cwd)

\* Mutant: the separator is not counted.
FullLenBare(n) == Len(name) + (IF Relative THEN Current(n) ELSE 0)
FullLen(n)     == Len(name) + (IF Relative THEN Current(n) + 1 ELSE 0)

NoDirectory(n) == Relative /\ Current(n) = 0
DirTooLong(n)  == Relative /\ Current(n) + 1 > n

\* Mutants: the terminator is not; the directory alone is asked for.
NeedBare(n) == FullLen(n)
NeedDir(n)  == IF DirTooLong(n) THEN Current(n) + 1 ELSE FullLen(n) + 1
Need(n)     == FullLen(n) + 1

TooLong(n)     == DirTooLong(n) \/ Need(n) > n

\* Behind the last "\\".  Mutant: behind the first.
PartFirst(path) == SelectInSeq(path, LAMBDA c : c = "back") + 1
PartOf(path)    == SelectLastInSeq(path, LAMBDA c : c = "back") + 1

\* One call with a buffer of n, and how much of it is written even when it fails.
GetFullPathName(n) ==
  LET dir  == IF Relative THEN Append(Swap(cwd, "slash", "back"), "back") ELSE <<>>
      fits == ~NoDirectory(n) /\ ~TooLong(n)
  IN  /\ size' = n
      /\ buf' = IF fits THEN dir \o name ELSE <<>>
      /\ stored' = IF fits THEN Len(dir \o name) + 1
                   ELSE IF Relative /\ ~NoDirectory(n) /\ ~DirTooLong(n) THEN Len(cwd) + 1 ELSE 0
      /\ ret' = IF NoDirectory(n) THEN 0 ELSE IF TooLong(n) THEN Need(n) ELSE FullLen(n)
      /\ part' = IF fits THEN PartOf(buf') ELSE part
      /\ same' = TRUE /\ stage' = "have"
      /\ UNCHANGED <<cwd, moves, name>>

First == stage = "ask" /\ \E n \in 0..MaxSize : GetFullPathName(n)

\* It was too small: again, with what it asked for.
Retry == stage = "have" /\ ret > size /\ GetFullPathName(ret)

Rename ==
  /\ moves < MaxMoves
  /\ \E d \in Dirs \ {cwd} : cwd' = d
  /\ moves' = moves + 1
  /\ same' = FALSE
  /\ UNCHANGED <<name, size, buf, stored, ret, part, stage>>

FullNext == First \/ Retry \/ Rename
FullSpec == FullInit /\ [][FullNext]_fullVars

-----------------------------------------------------------------------------
(* Properties.                                                             *)

\* An answer is told from a refusal by its size: a path that was stored is shorter
\* than its buffer, what is asked for is larger than it (kernel32.c:384-398).
\* Nothing is written behind the buffer, by a call that fails either.
FullTypeOK ==
  /\ stage \in {"ask", "have"} /\ moves \in 0..MaxMoves /\ ret \in Nat
  /\ buf # <<>> => ret = Len(buf) /\ ret < size /\ part \in 1..(Len(buf) + 1)
  /\ stage = "have" /\ buf = <<>> => ret = 0 \/ ret > size
  /\ stored <= size

\* A call with the size the last one asked for has enough, unless the directory
\* was renamed in between: what is asked for with a buffer that is too small for
\* the directory alone is counted another way (kernel32.c:383-389).
RetryFits ==
  [][Retry /\ same /\ cwd # <<>> => buf' # <<>>]_fullVars

\* Where a path of Unix leads from a directory.
Leads(dir, path) == IF path # <<>> /\ path[1] = "slash" THEN path
                    ELSE dir \o <<"slash">> \o path

\* The full name, opened, is the file that the name is, opened from the directory
\* the program is in (a name that begins with "/" is one the code takes for a
\* relative one, kernel32.c:380, so it is left out); and the part of the file is its
\* last component.
SameFile ==
  buf # <<>> =>
    /\ same /\ (name = <<>> \/ name[1] # "slash") => Unix(buf) = Leads(cwd, Unix(name))
    /\ part = 1 \/ buf[part - 1] = "back"
    /\ \A k \in part..Len(buf) : buf[k] # "back"

=============================================================================
