----------------------------- MODULE LoadString -----------------------------
(***************************************************************************)
(* LoadStringA of dlls/user32.c on the table pe_rsrc_strings, in which the *)
(* dump of an executable keeps its string resources: blocks of counted     *)
(* strings of 16-bit units, by number.                                     *)
(***************************************************************************)
EXTENDS Integers, Sequences, SequencesExt

CONSTANTS
  Resources,  \* the string resources: functions from identifiers to texts
  PerBlock,   \* strings in a block (16 in the code)
  Byte,       \* what a unit is cut to when it is copied (256 in the code)
  Sizes       \* the buffers' sizes

ASSUME LoadAssumption ==
  /\ PerBlock \in Nat \ {0} /\ Byte \in Nat \ {0} /\ Sizes \subseteq Nat
  /\ \A f \in Resources : DOMAIN f \subseteq Nat /\ \A i \in DOMAIN f : f[i] \in Seq(Nat)

\* NULL, what LoadLibraryA returns, the address of the executable, another one.
Instances == {"null", "hack", "exe", "other"}

\* A block has all its strings, the missing ones empty.
Text(f, id)   == IF id \in DOMAIN f THEN f[id] ELSE <<>>
BlocksOf(f)   == {id \div PerBlock + 1 : id \in DOMAIN f}
Counted(f, b) == FlattenSeq([k \in 1..PerBlock |->
                   LET t == Text(f, (b - 1) * PerBlock + k - 1) IN <<Len(t)>> \o t])

VARIABLES
  step,     \* "find", "skip", "done"; "exit" after DIE, "fault" after a store
          \* that is outside the buffer
  given,  \* the resources, the instance, the string asked for, the buffer's size
  data,   \* the block found
  str,    \* the position in it
  c,      \* how many strings are still to be skipped
  res,    \* what is returned
  dst     \* what is in the buffer

loadVars == <<step, given, data, str, c, res, dst>>

LoadInit ==
  /\ given \in [strings : Resources, from : Instances, uID : 0..(PerBlock * 3), max : Sizes]
  /\ step = IF given.from = "other" THEN "exit" ELSE "find"
  /\ data = <<>> /\ str = 1 /\ c = 0 /\ res = 0 /\ dst = <<>>

\* Mutant: blocks are numbered from 0.
BlockOfZero == given.uID \div PerBlock
BlockOf     == given.uID \div PerBlock + 1

\* Mutant: strings are numbered from 1.
SkipsOne == (given.uID % PerBlock) + 1
Skips    == given.uID % PerBlock

\* The walk through the table ends at the block or at the entry 0.
Find ==
  /\ step = "find"
  /\ IF BlockOf \in BlocksOf(given.strings)
     THEN data' = Counted(given.strings, BlockOf) /\ c' = Skips /\ step' = "skip"
     ELSE step' = "done" /\ UNCHANGED <<data, c>>
  /\ UNCHANGED <<given, str, res, dst>>

Skip ==
  /\ step = "skip" /\ c > 0
  /\ str' = str + data[str] + 1
  /\ c' = c - 1
  /\ UNCHANGED <<step, given, data, res, dst>>

\* Mutant: no room is left for the terminator.
CutFull(n) == IF given.max < n THEN given.max ELSE n
\* The size, truncated: with a buffer of 0 it is -1, and the loop that counts it
\* down to 0 never ends.
Cut(n) == IF given.max - 1 < n THEN given.max - 1 ELSE n

Copy ==
  /\ step = "skip" /\ c = 0
  /\ res' = Cut(data[str])
  /\ dst' = Append([k \in 1..res' |-> data[str + k] % Byte], 0)
  /\ step' = IF res' < 0 \/ res' + 1 > given.max THEN "fault" ELSE "done"
  /\ UNCHANGED <<given, data, str, c>>

LoadNext == Find \/ Skip \/ Copy
LoadSpec == LoadInit /\ [][LoadNext]_loadVars

-----------------------------------------------------------------------------
(* Properties.                                                             *)

\* str is always at the length of a string of the block that was found, and that
\* string is in the block with all it has (user32.c:39).  No store is outside a buffer
\* that has room for a terminator; one of 0 is run over by every string that is found
\* (user32.c:43-47).
LoadTypeOK ==
  /\ step \in {"find", "skip", "done", "exit", "fault"}
  /\ c \in Nat /\ res \in Int /\ dst \in Seq(0..(Byte - 1))
  /\ step = "skip" => str \in DOMAIN data /\ str + data[str] <= Len(data)
  /\ step = "fault" => given.max = 0

Wanted == Text(given.strings, given.uID)

\* What is returned is the string of the identifier, as much of it as fits, and a
\* terminator; nothing when its block is not there (user32.c:26-48).
IsTheString ==
  step = "done" =>
    IF given.uID \div PerBlock + 1 \in BlocksOf(given.strings)
    THEN /\ res = IF Len(Wanted) < given.max THEN Len(Wanted) ELSE given.max - 1
         /\ dst = Append([k \in 1..res |-> Wanted[k] % Byte], 0)
    ELSE res = 0 /\ dst = <<>>

=============================================================================
