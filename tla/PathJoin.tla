------------------------------ MODULE PathJoin ------------------------------
(***************************************************************************)
(* path_join of patch/depfile_build.c: the directory and the name of a     *)
(* header in one buffer, cut to its size.                                  *)
(***************************************************************************)
EXTENDS Integers, Sequences

CONSTANTS
  Dirs, Files,  \* what mwpath's dir and file may hold
  Sizes,        \* sizes the buffer may have, 0 for none given
  JoinMax       \* PATH_MAX

ASSUME JoinAssumption ==
  /\ JoinMax \in Nat \ {0} /\ Sizes \subseteq Nat
  /\ \A p \in Dirs \cup Files : p \in Seq({p[k] : k \in DOMAIN p})

Nul == "end"  \* the terminator, and memory that is cleared

VARIABLES
  dir, file,
  dst,              \* the buffer, <<>> for NULL
  size,             \* dst_size
  lenDir, lenFile,  \* how much of each is copied
  joining           \* "alloc", "cut", "copy", "done", or "crash"

joinVars == <<dir, file, dst, size, lenDir, lenFile, joining>>

JoinInit ==
  /\ dir \in Dirs /\ file \in Files /\ size \in Sizes
  /\ dst \in {<<>>, [k \in 1..size |-> "junk"]}
  /\ lenDir = Len(dir) /\ lenFile = Len(file) /\ joining = "alloc"

Room == IF size = 0 THEN JoinMax ELSE size

Allocate ==
  /\ joining = "alloc"
  /\ size' = Room
  /\ dst' = IF dst = <<>> THEN [k \in 1..Room |-> Nul] ELSE dst
  /\ joining' = "cut"
  /\ UNCHANGED <<dir, file, lenDir, lenFile>>

\* malloc_clear fails: NULL is returned where GlobalAlloc is Windows' own, while that
\* of kernel32.c writes through the pointer that malloc did not give it.
JoinNoMemory ==
  /\ joining = "alloc" /\ dst = <<>>
  /\ joining' \in {"done", "crash"}
  /\ UNCHANGED <<dir, file, dst, size, lenDir, lenFile>>

\* Mutant: room for the terminator is not kept.
FitsBare == lenFile + lenDir <= size
Fits     == lenFile + lenDir < size

\* Mutant: a name that does not fit is left out.
FileDropped(d, n) == 0
FileLeft(d, n)    == IF n > d THEN n - d - 1 ELSE 0
DirLeft(d, n)     == IF n > d THEN d ELSE n - 1

Truncate ==
  /\ joining = "cut"
  /\ IF Fits THEN UNCHANGED <<lenDir, lenFile>>
     ELSE lenDir' = DirLeft(lenDir, size) /\ lenFile' = FileLeft(lenDir, size)
  /\ joining' = "copy"
  /\ UNCHANGED <<dir, file, dst, size>>

Concatenate ==
  /\ joining = "copy"
  /\ LET text == SubSeq(dir, 1, lenDir) \o SubSeq(file, 1, lenFile) \o <<Nul>>
     IN  dst' = text \o SubSeq(dst, Len(text) + 1, Len(dst))
  /\ joining' = "done"
  /\ UNCHANGED <<dir, file, size, lenDir, lenFile>>

JoinNext == Allocate \/ JoinNoMemory \/ Truncate \/ Concatenate

JoinSpec == JoinInit /\ [][JoinNext]_joinVars

-----------------------------------------------------------------------------
(* Properties.                                                             *)

\* Nothing is written behind the buffer, nothing read behind the paths
\* (depfile_build.c:39-55).
JoinTypeOK ==
  /\ joining \in {"alloc", "cut", "copy", "done", "crash"}
  /\ lenDir \in 0..Len(dir) /\ lenFile \in 0..Len(file)
  /\ joining # "alloc" /\ dst # <<>> => Len(dst) = size

\* What is returned is the directory and the name behind each other, or as much of
\* the beginning of that as there is room for: a long name loses its end before the
\* directory does (depfile_build.c:41-50).
Joined ==
  joining = "done" /\ dst # <<>> =>
    LET whole == dir \o file
        n     == IF Len(whole) < size THEN Len(whole) ELSE size - 1
    IN  SubSeq(dst, 1, n + 1) = SubSeq(whole, 1, n) \o <<Nul>>

=============================================================================
