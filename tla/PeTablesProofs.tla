--------------------------- MODULE PeTablesProofs ---------------------------
(***************************************************************************)
(* Proofs about the tables of an executable.  LoadString: the string asked *)
(* for is returned, for every block size, buffer and set of strings.       *)
(* PeTables: exports, imports and string resources are the loader's, for   *)
(* every file.  And both with the headers in front of them (PeTablesMC).   *)
(***************************************************************************)
EXTENDS PeTablesMC, SeqFacts

-----------------------------------------------------------------------------
(* Strings are loaded.                                                     *)

\* The strings of a block, each with its length in front.
Strings(f, b) == [k \in 1..PerBlock |->
                    LET t == Text(f, (b - 1) * PerBlock + k - 1) IN <<Len(t)>> \o t]

LoadTypes ==
  /\ step \in {"find", "skip", "done", "exit", "fault"}
  /\ given \in [strings : Resources, from : Instances, uID : 0..(PerBlock * 3), max : Sizes]
  /\ c \in Nat /\ res \in Int /\ dst \in Seq(0..(Byte - 1))

\* Nothing has been found so far.
NotFound == step = "find" => str = 1 /\ res = 0 /\ dst = <<>>

\* The position is that of a string's length, with as many still to be skipped.
AtLength ==
  step = "skip" =>
    /\ BlockOf \in BlocksOf(given.strings)
    /\ data = Counted(given.strings, BlockOf)
    /\ c \in 0..Skips
    /\ str = Len(UpTo(Strings(given.strings, BlockOf), Skips - c)) + 1

LoadInv == /\ LoadTypes /\ NotFound /\ AtLength /\ IsTheString
           /\ step = "fault" => given.max = 0

-----------------------------------------------------------------------------
(* Blocks.                                                                 *)

\* A block's number and a string's place in it, from the identifier.
LEMMA Places ==
  ASSUME given.uID \in Nat
  PROVE  /\ Skips \in 0..(PerBlock - 1) /\ BlockOf \in Nat
         /\ (BlockOf - 1) * PerBlock + Skips = given.uID
<1>1. PICK p \in Nat \ {0} : p = PerBlock
  BY LoadAssumption
<1>2. PICK u \in Nat : u = given.uID
  OBVIOUS
<1>3. u \div p \in Nat /\ u % p \in 0..(p - 1) /\ u = p * (u \div p) + (u % p)
  OBVIOUS
<1>4. PICK q \in Nat : q = u \div p
  BY <1>3
<1>5. BlockOf = q + 1 /\ Skips = u % p /\ BlockOf - 1 = q
  BY <1>1, <1>2, <1>4 DEF BlockOf, Skips
<1>6. PICK v \in Int : v = q * p
  OBVIOUS
<1>7. p * q = q * p
  OBVIOUS
<1>8. v + (u % p) = u
  <2>1. u = p * q + (u % p)
    BY <1>3, <1>4
  <2>2. u = v + (u % p)
    BY <1>6, <1>7, <2>1
  <2>3. QED BY <2>2
<1>9. (BlockOf - 1) * PerBlock + Skips = given.uID
  <2>1. (BlockOf - 1) * PerBlock = q * p
    BY <1>1, <1>5, Zenon
  <2>2. QED BY <1>2, <1>5, <1>6, <1>8, <2>1, Zenon
<1>10. Skips \in 0..(PerBlock - 1) /\ BlockOf \in Nat
  BY <1>1, <1>3, <1>5
<1>11. QED BY <1>9, <1>10

\* Every text is a sequence of units, also one that is missing.
LEMMA TextTyped == ASSUME NEW f \in Resources, NEW j PROVE Text(f, j) \in Seq(Nat)
<1>1. <<>> \in Seq(Nat)
  OBVIOUS
<1>2. QED BY <1>1, LoadAssumption DEF Text

\* A block has as many strings as blocks have, with their lengths.
LEMMA StringsTyped ==
  ASSUME NEW f \in Resources, NEW b \in Nat
  PROVE  Strings(f, b) \in Seq(Seq(Nat)) /\ Len(Strings(f, b)) = PerBlock
<1>1. ASSUME NEW k \in 1..PerBlock
      PROVE  <<Len(Text(f, (b - 1) * PerBlock + k - 1))>> \o Text(f, (b - 1) * PerBlock + k - 1) \in Seq(Nat)
  <2>1. PICK t \in Seq(Nat) : t = Text(f, (b - 1) * PerBlock + k - 1)
    BY TextTyped
  <2>2. Len(t) \in Nat
    BY LenProperties
  <2>3. <<Len(t)>> \in Seq(Nat)
    BY <2>2, Single
  <2>4. <<Len(t)>> \o t \in Seq(Nat)
    BY <2>3, ConcatProperties
  <2>5. QED BY <2>1, <2>4
<1>2. PICK s : s = Strings(f, b)
  OBVIOUS
<1>3. s \in [1..PerBlock -> Seq(Nat)]
  BY <1>1, <1>2 DEF Strings
<1>4. s \in Seq(Seq(Nat)) /\ Len(s) = PerBlock
  BY <1>3, LoadAssumption
<1>5. QED BY <1>2, <1>4

\* What there is to say of a block d behind its first j strings: there is the next
\* one's length, and the next one.
IsNext(d, s, j, t) ==
  LET l == Len(UpTo(s, j)) IN
  /\ d \in Seq(Nat) /\ l \in Nat
  /\ l + 1 \in 1..Len(d) /\ d[l + 1] = Len(t) /\ l + 1 + Len(t) <= Len(d)
  /\ \A k \in 1..Len(t) : d[l + 1 + k] = t[k]
  /\ Len(UpTo(s, j + 1)) = l + Len(t) + 1

\* Behind the first j strings of a block is the next one, with its length.
LEMMA NextString ==
  ASSUME NEW f \in Resources, NEW b \in Nat, NEW j \in 0..(PerBlock - 1)
  PROVE  IsNext(Counted(f, b), Strings(f, b), j, Text(f, (b - 1) * PerBlock + j))
<1>1. PICK n \in Nat \ {0} : n = PerBlock
  BY LoadAssumption
<1>2. PICK s \in Seq(Seq(Nat)) : s = Strings(f, b) /\ Len(s) = n
  BY <1>1, StringsTyped
<1>3. j \in 0..n /\ j + 1 \in 1..n /\ (j + 1) - 1 = j
  BY <1>1
<1>4. PICK t \in Seq(Nat) : t = Text(f, (b - 1) * PerBlock + j)
  BY TextTyped
<1>5. s[j + 1] = <<Len(t)>> \o t
  <2>1. (b - 1) * PerBlock + (j + 1) - 1 = (b - 1) * PerBlock + j
    <3>1. PICK v \in Int : v = (b - 1) * n
      OBVIOUS
    <3>2. QED BY <1>1, <1>3, <3>1
  <2>2. QED BY <1>1, <1>2, <1>3, <1>4, <2>1 DEF Strings
<1>6. PICK p \in Seq(Nat) : p = UpTo(s, j)
  BY <1>2, <1>3, UpToFacts
<1>7. PICK r \in Seq(Nat) : r = Beyond(s, j + 1)
  BY <1>2, <1>3, UpToFacts
<1>8. PICK m \in Nat : m = Len(t)
  BY LenProperties
<1>9. PICK l \in Nat : l = Len(p)
  BY LenProperties
<1>10. PICK h \in Seq(Nat) : h = <<m>> /\ Len(h) = 1 /\ h[1] = m
  <2>1. <<m>> \in Seq(Nat)
    BY Single
  <2>2. QED BY <2>1
<1>11. PICK u \in Seq(Nat) : u = h \o t
  BY ConcatProperties
<1>12. Len(u) = 1 + m /\ u[1] = m /\ \A k \in 1..m : u[1 + k] = t[k]
  <2>1. InOrder(Nat, h \o t, h, 1, t, m)
    BY <1>8, <1>10, Elements
  <2>2. Len(u) = 1 + m /\ \A k \in 1..(1 + m) : u[k] = IF k <= 1 THEN h[k] ELSE t[k - 1]
    BY <1>11, <2>1 DEF InOrder
  <2>3. u[1] = m
    <3>1. 1 \in 1..(1 + m)
      OBVIOUS
    <3>2. QED BY <1>10, <2>2, <3>1
  <2>4. ASSUME NEW k \in 1..m PROVE u[1 + k] = t[k]
    <3>1. 1 + k \in 1..(1 + m) /\ ~(1 + k <= 1) /\ (1 + k) - 1 = k
      OBVIOUS
    <3>2. u[1 + k] = IF 1 + k <= 1 THEN h[1 + k] ELSE t[(1 + k) - 1]
      BY <2>2, <3>1, Zenon
    <3>3. QED BY <3>1, <3>2
  <2>5. QED BY <2>2, <2>3, <2>4
<1>13. s[j + 1] = u
  BY <1>5, <1>8, <1>10, <1>11
<1>14. PICK d : d = FlattenSeq(s)
  OBVIOUS
<1>15. d = p \o (u \o r)
  <2>1. FlattenSeq(s) = UpTo(s, j) \o Beyond(s, j)
    BY <1>2, <1>3, UpToBeyond
  <2>2. Beyond(s, j) = s[j + 1] \o Beyond(s, j + 1)
    BY <1>2, <1>3, UpToStep
  <2>3. QED BY <1>6, <1>7, <1>13, <1>14, <2>1, <2>2
<1>16. Middle(Nat, d, p, u, r)
  BY <1>15, InMiddle
<1>17. /\ d \in Seq(Nat) /\ Len(d) = l + (1 + m) + Len(r)
       /\ \A k \in 1..(1 + m) : d[l + k] = u[k]
  BY <1>9, <1>12, <1>16 DEF Middle
<1>18. d[l + 1] = m
  <2>1. 1 \in 1..(1 + m)
    OBVIOUS
  <2>2. QED BY <1>12, <1>17, <2>1
<1>19. ASSUME NEW k \in 1..m PROVE d[l + 1 + k] = t[k]
  <2>1. 1 + k \in 1..(1 + m) /\ l + (1 + k) = l + 1 + k
    OBVIOUS
  <2>2. QED BY <1>12, <1>17, <2>1
<1>20. l + 1 \in 1..Len(d) /\ l + 1 + m <= Len(d)
  <2>1. PICK o \in Nat : o = Len(r)
    BY LenProperties
  <2>2. QED BY <1>17, <2>1
<1>21. Len(UpTo(s, j + 1)) = l + m + 1
  <2>1. UpTo(s, j + 1) = UpTo(s, j) \o s[j + 1]
    BY <1>2, <1>3, UpToStep
  <2>2. Len(p \o u) = Len(p) + Len(u)
    BY ConcatProperties
  <2>3. QED BY <1>6, <1>9, <1>12, <1>13, <2>1, <2>2
<1>22. IsNext(d, s, j, t)
  BY <1>6, <1>8, <1>9, <1>17, <1>18, <1>19, <1>20, <1>21 DEF IsNext
<1>23. d = Counted(f, b)
  BY <1>2, <1>14 DEF Counted, Strings
<1>24. QED BY <1>2, <1>4, <1>22, <1>23

-----------------------------------------------------------------------------
(* The steps.                                                              *)

\* Every call that LoadString can begin with keeps it.
LEMMA InitLoadInv == LoadInit => LoadInv
<1> SUFFICES ASSUME LoadInit PROVE LoadInv
  OBVIOUS
<1>1. step # "skip" /\ step # "done" /\ step # "fault" /\ step \in {"find", "exit"}
  BY DEF LoadInit
<1>2. LoadTypes
  <2>1. <<>> \in Seq(0..(Byte - 1))
    OBVIOUS
  <2>2. QED BY <1>1, <2>1 DEF LoadInit, LoadTypes
<1>3. QED BY <1>1, <1>2 DEF LoadInit, LoadInv, NotFound, AtLength, IsTheString

\* What is known of the call, with the types that the steps need.
LEMMA GivenTyped ==
  ASSUME LoadTypes
  PROVE  /\ given.strings \in Resources /\ given.uID \in Nat /\ given.max \in Nat
<1>1. 0..(PerBlock * 3) \subseteq Nat
  OBVIOUS
<1>2. QED BY <1>1, LoadAssumption DEF LoadTypes

\* The string that is at a position where a length is: that of the block which as many
\* strings are in front of as were skipped.
LEMMA StringHere ==
  ASSUME LoadTypes, AtLength, step = "skip", NEW j, j = Skips - c
  PROVE  /\ j \in 0..(PerBlock - 1)
         /\ IsNext(data, Strings(given.strings, BlockOf), j,
                   Text(given.strings, (BlockOf - 1) * PerBlock + j))
         /\ str = Len(UpTo(Strings(given.strings, BlockOf), j)) + 1
<1>1. given.strings \in Resources /\ given.uID \in Nat
  BY GivenTyped
<1>2. Skips \in 0..(PerBlock - 1) /\ BlockOf \in Nat
  BY <1>1, Places
<1>3. j \in 0..(PerBlock - 1)
  BY <1>2, LoadAssumption DEF AtLength
<1>4. IsNext(Counted(given.strings, BlockOf), Strings(given.strings, BlockOf), j,
             Text(given.strings, (BlockOf - 1) * PerBlock + j))
  BY <1>1, <1>2, <1>3, NextString
<1>5. QED BY <1>3, <1>4 DEF AtLength

\* Find keeps it.
LEMMA FindKeeps == ASSUME LoadInv, Find PROVE LoadInv'
<1>1. step = "find" /\ UNCHANGED <<given, str, res, dst>> /\ LoadTypes /\ NotFound
  BY DEF Find, LoadInv
<1>2. given.strings \in Resources /\ given.uID \in Nat
  BY <1>1, GivenTyped
<1>3. Skips \in 0..(PerBlock - 1) /\ BlockOf \in Nat
  BY <1>2, Places
<1>4. Skips' = Skips /\ BlockOf' = BlockOf
  BY <1>1 DEF Skips, BlockOf
<1>5. CASE BlockOf \in BlocksOf(given.strings)
  <2>1. data' = Counted(given.strings, BlockOf) /\ c' = Skips /\ step' = "skip"
    BY <1>5 DEF Find
  <2>2. LoadTypes'
    BY <1>1, <1>3, <2>1 DEF LoadTypes
  <2>3. Len(UpTo(Strings(given.strings, BlockOf), 0)) = 0
    <3>1. PICK s \in Seq(Seq(Nat)) : s = Strings(given.strings, BlockOf)
      BY <1>2, <1>3, StringsTyped
    <3>2. UpTo(s, 0) = <<>>
      <4>1. PICK n \in Nat : n = Len(s)
        BY <3>1, LenProperties
      <4>2. QED BY <3>1, <4>1, UpToFacts
    <3>3. QED BY <3>1, <3>2
  <2>4. Skips - c' = 0 /\ c' \in 0..Skips
    BY <1>3, <2>1
  <2>5. AtLength'
    <3>1. str' = 1
      BY <1>1 DEF NotFound
    <3>2. str' = Len(UpTo(Strings(given'.strings, BlockOf'), Skips' - c')) + 1
      BY <1>1, <1>4, <2>3, <2>4, <3>1
    <3>3. QED BY <1>1, <1>4, <1>5, <2>1, <2>4, <3>2 DEF AtLength
  <2>6. QED BY <2>1, <2>2, <2>5 DEF LoadInv, NotFound, IsTheString
<1>6. CASE BlockOf \notin BlocksOf(given.strings)
  <2>1. step' = "done" /\ c' = c
    BY <1>6 DEF Find
  <2>2. LoadTypes'
    BY <1>1, <2>1 DEF LoadTypes
  <2>3. IsTheString'
    BY <1>1, <1>6, <2>1 DEF NotFound, IsTheString, BlockOf
  <2>4. QED BY <2>1, <2>2, <2>3 DEF LoadInv, NotFound, AtLength
<1>7. QED BY <1>5, <1>6

\* Skip keeps it.
LEMMA SkipKeeps == ASSUME LoadInv, Skip PROVE LoadInv'
<1>1. /\ step = "skip" /\ step' = "skip" /\ c > 0 /\ str' = str + data[str] + 1 /\ c' = c - 1
      /\ UNCHANGED <<given, data, res, dst>> /\ LoadTypes /\ AtLength
  BY DEF Skip, LoadInv
<1>2. PICK j : j = Skips - c
  OBVIOUS
<1>3. PICK t : t = Text(given.strings, (BlockOf - 1) * PerBlock + j)
  OBVIOUS
<1>4. PICK s : s = Strings(given.strings, BlockOf)
  OBVIOUS
<1>5. j \in 0..(PerBlock - 1) /\ IsNext(data, s, j, t) /\ str = Len(UpTo(s, j)) + 1
  BY <1>1, <1>2, <1>3, <1>4, StringHere
<1>6. PICK l : l = Len(UpTo(s, j))
  OBVIOUS
<1>7. /\ l \in Nat /\ l + 1 \in 1..Len(data) /\ data \in Seq(Nat) /\ data[l + 1] = Len(t)
      /\ Len(UpTo(s, j + 1)) = l + Len(t) + 1
  BY <1>5, <1>6 DEF IsNext
<1>8. Len(t) \in Nat
  BY <1>7
<1>9. str' = Len(UpTo(s, j + 1)) + 1
  <2>1. str = l + 1 /\ data[str] = Len(t)
    BY <1>5, <1>6, <1>7
  <2>2. PICK n \in Nat : n = Len(t)
    BY <1>8
  <2>3. str' = l + 1 + n + 1
    BY <1>1, <2>1, <2>2
  <2>4. Len(UpTo(s, j + 1)) = l + n + 1
    BY <1>7, <2>2
  <2>5. l + 1 + n + 1 = (l + n + 1) + 1
    BY <1>7, <2>2
  <2>6. QED BY <2>3, <2>4, <2>5
<1>10. given.uID \in Nat
  BY <1>1, GivenTyped
<1>11. Skips \in Nat /\ Skips - c' = j + 1 /\ c' \in 0..Skips
  <2>1. Skips \in 0..(PerBlock - 1)
    BY <1>10, Places
  <2>2. PICK k \in Nat : k = Skips
    BY <2>1
  <2>3. c \in 0..k
    BY <1>1, <2>2 DEF AtLength
  <2>4. QED BY <1>1, <1>2, <2>2, <2>3
<1>12. Skips' = Skips /\ BlockOf' = BlockOf
  BY <1>1 DEF Skips, BlockOf
<1>13. AtLength'
  BY <1>1, <1>4, <1>9, <1>11, <1>12 DEF AtLength
<1>14. LoadTypes'
  BY <1>1, <1>11 DEF LoadTypes
<1>15. QED BY <1>1, <1>13, <1>14 DEF LoadInv, NotFound, IsTheString

\* What Copy finds: all of the string that is wanted.
LEMMA WantedHere ==
  ASSUME LoadTypes, AtLength, step = "skip", c = 0
  PROVE  /\ Wanted \in Seq(Nat) /\ data \in Seq(Nat) /\ str \in Nat
         /\ str \in 1..Len(data) /\ data[str] = Len(Wanted) /\ str + Len(Wanted) <= Len(data)
         /\ \A k \in 1..Len(Wanted) : data[str + k] = Wanted[k]
<1>1. given.strings \in Resources /\ given.uID \in Nat
  BY GivenTyped
<1>2. Skips \in Nat /\ (BlockOf - 1) * PerBlock + Skips = given.uID
  BY <1>1, Places
<1>3. PICK j : j = Skips - c
  OBVIOUS
<1>4. j = Skips
  BY <1>2, <1>3
<1>5. Wanted = Text(given.strings, (BlockOf - 1) * PerBlock + j)
  BY <1>2, <1>4 DEF Wanted
<1>6. PICK s : s = Strings(given.strings, BlockOf)
  OBVIOUS
<1>7. IsNext(data, s, j, Wanted) /\ str = Len(UpTo(s, j)) + 1
  BY <1>3, <1>5, <1>6, StringHere
<1>8. Wanted \in Seq(Nat)
  BY <1>1, TextTyped DEF Wanted
<1>9. PICK l : l = Len(UpTo(s, j))
  OBVIOUS
<1>10. str = l + 1
  BY <1>7, <1>9
<1>11. QED BY <1>7, <1>8, <1>9, <1>10 DEF IsNext

\* A function on the numbers from 1 is a sequence, also where there are none.
LEMMA Finite ==
  ASSUME NEW S, NEW n \in Int, NEW s \in [1..n -> S]
  PROVE  s \in Seq(S)
<1>1. CASE n \in Nat
  BY <1>1
<1>2. CASE n \notin Nat
  <2>1. 1..n = 1..0
    BY <1>2
  <2>2. s \in [1..0 -> S]
    BY <2>1
  <2>3. QED BY <2>2
<1>3. QED BY <1>1, <1>2

\* Copy keeps it.
LEMMA CopyKeeps == ASSUME LoadInv, Copy PROVE LoadInv'
<1>1. /\ step = "skip" /\ c = 0 /\ res' = Cut(data[str])
      /\ dst' = Append([k \in 1..res' |-> data[str + k] % Byte], 0)
      /\ step' = IF res' < 0 \/ res' + 1 > given.max THEN "fault" ELSE "done"
      /\ UNCHANGED <<given, data, str, c>> /\ LoadTypes /\ AtLength
  BY DEF Copy, LoadInv
<1>2. /\ Wanted \in Seq(Nat) /\ data \in Seq(Nat) /\ str \in Nat
      /\ data[str] = Len(Wanted) /\ str + Len(Wanted) <= Len(data)
      /\ \A k \in 1..Len(Wanted) : data[str + k] = Wanted[k]
  BY <1>1, WantedHere
<1>3. PICK n \in Nat : n = Len(Wanted)
  BY <1>2, LenProperties
<1>4. given.max \in Nat
  BY <1>1, GivenTyped
<1>5. PICK m \in Nat : m = given.max
  BY <1>4
<1>6. res' = IF m - 1 < n THEN m - 1 ELSE n
  BY <1>1, <1>2, <1>3, <1>5 DEF Cut
<1>7. res' \in Int /\ res' <= n
  BY <1>6
<1>8. \A k \in 1..res' : data[str + k] = Wanted[k]
  BY <1>2, <1>3, <1>7
<1>9. dst' = Append([k \in 1..res' |-> Wanted[k] % Byte], 0)
  BY <1>1, <1>8
<1>10. dst' \in Seq(0..(Byte - 1))
  <2>1. ASSUME NEW k \in 1..res' PROVE Wanted[k] % Byte \in 0..(Byte - 1)
    <3>1. Wanted[k] \in Nat
      <4>1. PICK w \in Seq(Nat) : w = Wanted
        BY <1>2
      <4>2. k \in 1..Len(w)
        BY <1>3, <1>7, <4>1
      <4>3. w[k] \in Nat
        BY <4>2
      <4>4. QED BY <4>1, <4>3
    <3>2. QED BY <3>1, LoadAssumption
  <2>2. PICK r : r = res'
    OBVIOUS
  <2>3. [k \in 1..r |-> Wanted[k] % Byte] \in Seq(0..(Byte - 1))
    <3>1. [k \in 1..r |-> Wanted[k] % Byte] \in [1..r -> 0..(Byte - 1)]
      BY <2>1, <2>2
    <3>2. r \in Int
      BY <1>7, <2>2
    <3>3. QED BY <3>1, <3>2, Finite
  <2>4. 0 \in 0..(Byte - 1)
    BY LoadAssumption
  <2>5. Append([k \in 1..r |-> Wanted[k] % Byte], 0) \in Seq(0..(Byte - 1))
    BY <2>3, <2>4, AppendProperties
  <2>6. QED BY <1>9, <2>2, <2>5
<1>11. LoadTypes'
  <2>1. step' \in {"fault", "done"}
    BY <1>1
  <2>2. QED BY <1>1, <1>7, <1>10, <2>1 DEF LoadTypes
<1>12. step' = "fault" => given'.max = 0
  BY <1>1, <1>5, <1>6
<1>13. IsTheString'
  <2>1. BlockOf \in BlocksOf(given.strings)
    BY <1>1 DEF AtLength
  <2>2. Wanted' = Wanted
    BY <1>1 DEF Wanted
  <2>3. given'.uID \div PerBlock + 1 \in BlocksOf(given'.strings)
    BY <1>1, <2>1 DEF BlockOf
  <2>4. res' = IF Len(Wanted') < given'.max THEN Len(Wanted') ELSE given'.max - 1
    BY <1>1, <1>3, <1>5, <1>6, <2>2
  <2>5. QED BY <1>9, <2>2, <2>3, <2>4 DEF IsTheString
<1>14. QED BY <1>1, <1>11, <1>12, <1>13 DEF LoadInv, NotFound, AtLength

\* Every step of the call keeps it.
LEMMA StepLoadInv == LoadInv /\ [LoadNext]_loadVars => LoadInv'
<1> SUFFICES ASSUME LoadInv, [LoadNext]_loadVars PROVE LoadInv'
  OBVIOUS
<1>1. CASE Find
  BY <1>1, FindKeeps
<1>2. CASE Skip
  BY <1>2, SkipKeeps
<1>3. CASE Copy
  BY <1>3, CopyKeeps
<1>4. CASE UNCHANGED loadVars
  <2>1. UNCHANGED <<step, given, data, str, c, res, dst>>
    BY <1>4 DEF loadVars
  <2>2. BlockOf' = BlockOf /\ Skips' = Skips /\ Wanted' = Wanted
    BY <2>1 DEF BlockOf, Skips, Wanted
  <2>3. QED BY <2>1, <2>2 DEF LoadInv, LoadTypes, NotFound, AtLength, IsTheString
<1>5. QED BY <1>1, <1>2, <1>3, <1>4 DEF LoadNext

\* What is known of the call gives its types and bounds.
LEMMA LoadBounds == LoadInv => LoadTypeOK
<1> SUFFICES ASSUME LoadInv PROVE LoadTypeOK
  OBVIOUS
<1>1. LoadTypes /\ AtLength
  BY DEF LoadInv
<1>2. ASSUME step = "skip" PROVE str \in DOMAIN data /\ str + data[str] <= Len(data)
  <2>1. PICK j : j = Skips - c
    OBVIOUS
  <2>2. PICK t : t = Text(given.strings, (BlockOf - 1) * PerBlock + j)
    OBVIOUS
  <2>3. PICK s : s = Strings(given.strings, BlockOf)
    OBVIOUS
  <2>4. IsNext(data, s, j, t) /\ str = Len(UpTo(s, j)) + 1
    BY <1>1, <1>2, <2>1, <2>2, <2>3, StringHere
  <2>5. PICK l : l = Len(UpTo(s, j))
    OBVIOUS
  <2>6. QED BY <2>4, <2>5 DEF IsNext
<1>3. QED BY <1>1, <1>2 DEF LoadInv, LoadTypes, LoadTypeOK

\* The strengthening of the two properties is inductive (LoadStringA, user32.c:26-48).
THEOREM LoadInvariance == LoadSpec => []LoadInv
<1>1. QED BY InitLoadInv, StepLoadInv, PTL DEF LoadSpec

\* LoadStringA reads lengths and strings only where the block has them, and overruns
\* only a buffer of size 0 (user32.c:39-47).
THEOREM LoadTyped == LoadSpec => []LoadTypeOK
<1>1. QED BY LoadBounds, LoadInvariance, PTL

\* Whatever the resources, the block size and the buffer: what is returned is the string
\* asked for (user32.c:26-48).
THEOREM StringLoaded == LoadSpec => []IsTheString
<1>1. LoadInv => IsTheString
  BY DEF LoadInv
<1>2. QED BY <1>1, LoadInvariance, PTL

-----------------------------------------------------------------------------
(* The tables are read.                                                    *)

\* Where each reader is: what it has found out before, and what is still empty.
TablesReached ==
  /\ WellFormed(file)
  /\ pc \in {"exports", "imports"} => names = <<>> /\ slots = <<>> /\ desc = 0
  /\ pc \in {"descriptor", "names", "slots"} => ImportsReadable /\ hdr = DirOff(2)
  /\ pc \in {"names", "slots"} => HasDesc /\ BothMapped
  /\ pc \notin {"entry", "done", "error"} => strs = <<>>
  /\ pc = "entry" => HasDir(3) /\ StringsThere /\ dir = Root + EntryOff(file, StringsAt)

TablesInv == TypeOK /\ TablesReached

-----------------------------------------------------------------------------
(* Words of a file.                                                        *)

\* A word that is in the file is a number.
LEMMA WordTyped ==
  \A f : WellFormed(f) => \A p \in Int : 0 <= p /\ p < Len(f.words) => Word(f, p) \in Nat
<1> SUFFICES ASSUME NEW f, WellFormed(f), NEW p \in Int, 0 <= p, p < Len(f.words)
             PROVE  Word(f, p) \in Nat
  OBVIOUS
<1>1. f.words \in Seq(Nat)
  BY DEF WellFormed
<1>2. PICK w \in Seq(Nat) : w = f.words
  BY <1>1
<1>3. p + 1 \in 1..Len(w)
  BY <1>2
<1>4. w[p + 1] \in Nat
  BY <1>3
<1>5. QED BY <1>2, <1>4 DEF Word

\* So are all that were read.
LEMMA WordsRead ==
  \A f : WellFormed(f) => \A p \in Int : \A n \in Nat :
    Has(f, p, n) => /\ p \in Nat /\ n # 0 /\ p + n <= Len(f.words)
                    /\ \A k \in 0..(n - 1) : Word(f, p + k) \in Nat
<1> SUFFICES ASSUME NEW f, WellFormed(f), NEW p \in Int, NEW n \in Nat, Has(f, p, n)
             PROVE  /\ p \in Nat /\ n # 0 /\ p + n <= Len(f.words)
                    /\ \A k \in 0..(n - 1) : Word(f, p + k) \in Nat
  OBVIOUS
<1>1. n > 0 /\ p >= 0 /\ p + n <= Len(f.words)
  BY DEF Has
<1>2. Len(f.words) \in Nat
  BY DEF WellFormed
<1>3. ASSUME NEW k \in 0..(n - 1) PROVE Word(f, p + k) \in Nat
  <2>1. p + k \in Int /\ 0 <= p + k /\ p + k < Len(f.words)
    BY <1>1, <1>2
  <2>2. QED BY <2>1, WordTyped
<1>4. QED BY <1>1, <1>3

\* An address that a section covers is at an offset.
LEMMA OffsetTyped ==
  \A f : WellFormed(f) => \A a \in Nat : Mapped(f, a) => OffsetOf(f, a) \in Nat
<1> SUFFICES ASSUME NEW f, WellFormed(f), NEW a \in Nat, Mapped(f, a)
             PROVE  OffsetOf(f, a) \in Nat
  OBVIOUS
<1>1. PICK S : S = Covers(f, a)
  OBVIOUS
<1>2. S # {} /\ S \subseteq Nat
  BY <1>1 DEF Mapped, Covers, WellFormed
<1>3. \E s \in S : \A t \in S : s <= t
  BY <1>2, Smallest
<1>4. PICK s : s = CHOOSE r \in S : \A t \in S : r <= t
  OBVIOUS
<1>5. s \in S
  BY <1>3, <1>4, Zenon
<1>6. f.sections[s].addr <= a /\ f.sections[s].addr \in Nat /\ f.sections[s].offset \in Nat
  BY <1>1, <1>5 DEF Covers, WellFormed
<1>7. OffsetOf(f, a) = a - f.sections[s].addr + f.sections[s].offset
  BY <1>1, <1>4, Zenon DEF OffsetOf
<1>8. QED BY <1>6, <1>7

-----------------------------------------------------------------------------
(* The file does not change.                                               *)

\* What the headers say of the file stays.
LEMMA SameFile ==
  ASSUME UNCHANGED file
  PROVE  /\ ImportsReadable' <=> ImportsReadable
         /\ \A k : DirOff(k)' = DirOff(k)
         /\ \A k : HasDir(k)' <=> HasDir(k)
         /\ \A k : NoTable(k)' <=> NoTable(k)
         /\ Root' = Root /\ StringsAt' = StringsAt
         /\ StringsThere' <=> StringsThere
<1>1. file' = file
  OBVIOUS
<1>2. \A k : DirOff(k)' = DirOff(k) /\ (HasDir(k)' <=> HasDir(k)) /\ (NoTable(k)' <=> NoTable(k))
  BY <1>1 DEF DirOff, DirAddr, HasDir, NoTable
<1>3. ImportsReadable' <=> ImportsReadable
  BY <1>1 DEF ImportsReadable, DirOff, DirAddr, HasDir
<1>4. Root' = Root
  BY <1>1 DEF Root, DirOff, DirAddr
<1>5. StringDirs' = StringDirs
  BY <1>1, <1>4 DEF StringDirs
<1>6. StringsAt' = StringsAt
  BY <1>1, <1>4, <1>5 DEF StringsAt
<1>7. StringsThere' <=> StringsThere
  BY <1>1, <1>4, <1>5, <1>6 DEF StringsThere, RootReadable, DirAddr
<1>8. QED BY <1>2, <1>3, <1>4, <1>6, <1>7

\* The descriptor stays while nothing is read behind it.
LEMMA SameDescriptor ==
  ASSUME UNCHANGED <<file, hdr, desc>>
  PROVE  /\ Origs' = Origs /\ DName' = DName /\ Thunk' = Thunk
         /\ (HasDesc' <=> HasDesc) /\ (BothMapped' <=> BothMapped)
<1>1. file' = file /\ hdr' = hdr /\ desc' = desc
  OBVIOUS
<1>2. Origs' = Origs /\ DName' = DName /\ Thunk' = Thunk
  BY <1>1 DEF Origs, DName, Thunk
<1>3. QED BY <1>1, <1>2 DEF HasDesc, BothMapped

-----------------------------------------------------------------------------
(* What was read is made of numbers.                                       *)

\* Numbers below a bound that have a property have a last one with it.
LEMMA LastIndex ==
  ASSUME NEW n \in Nat, NEW S, S \subseteq 0..(n - 1), S # {}
  PROVE  \E j \in S : \A i \in S : i <= j
<1> DEFINE T == {n - i : i \in S}
<1>1. T \subseteq Nat /\ T # {}
  <2>1. \A i \in S : n - i \in Nat
    OBVIOUS
  <2>2. QED BY <2>1
<1>2. PICK d \in T : \A k \in T : d <= k
  BY <1>1, Smallest
<1>3. PICK j \in S : d = n - j
  OBVIOUS
<1>4. ASSUME NEW i \in S PROVE i <= j
  <2>1. n - i \in T
    OBVIOUS
  <2>2. n - j <= n - i
    BY <1>2, <1>3, <2>1
  <2>3. i \in Int /\ j \in Int
    OBVIOUS
  <2>4. QED BY <2>2, <2>3
<1>5. QED BY <1>4

\* The name that is kept for a function.
LastName(k) == CHOOSE j \in NamesOf(k) : \A i \in NamesOf(k) : i <= j

\* The export directory and its three tables.
LEMMA ExportWords ==
  ASSUME WellFormed(file), HasDir(1), ExportsReadable
  PROVE  /\ Field(1) \in Nat /\ Field(2) \in Nat
         /\ TableAt(3) \in Nat /\ TableAt(4) \in Nat /\ TableAt(5) \in Nat
         /\ \A k \in 0..(Field(1) - 1) : Word(file, TableAt(3) + k) \in Nat
         /\ \A k \in 0..(Field(2) - 1) : /\ Word(file, TableAt(4) + k) \in Nat
                                         /\ OrdinalAt(file, TableAt(5), k) \in Nat
<1>1. DirAddr(1) \in Nat
  BY DEF WellFormed, HasDir, DirAddr
<1>2. DirOff(1) \in Nat
  BY <1>1, OffsetTyped DEF ExportsReadable, DirOff
<1>3. \A k \in 0..5 : Field(k) \in Nat
  <2>1. Has(file, DirOff(1), 6) /\ 6 \in Nat /\ DirOff(1) \in Int
    BY <1>2 DEF ExportsReadable, ExportSize
  <2>2. \A k \in 0..(6 - 1) : Word(file, DirOff(1) + k) \in Nat
    BY <2>1, WordsRead
  <2>3. QED BY <2>2 DEF Field
<1>4. TableAt(3) \in Int /\ TableAt(4) \in Int /\ TableAt(5) \in Int
  BY <1>1, <1>2, <1>3 DEF TableAt
<1>5. Field(1) \in Nat /\ Field(2) \in Nat
  BY <1>3
<1>6. /\ Has(file, TableAt(3), Field(1)) /\ Has(file, TableAt(4), Field(2))
      /\ Has(file, TableAt(5), Field(2))
  BY DEF ExportsReadable
<1>7. TableAt(3) \in Nat /\ \A k \in 0..(Field(1) - 1) : Word(file, TableAt(3) + k) \in Nat
  BY <1>4, <1>5, <1>6, WordsRead
<1>8. TableAt(4) \in Nat /\ \A k \in 0..(Field(2) - 1) : Word(file, TableAt(4) + k) \in Nat
  BY <1>4, <1>5, <1>6, WordsRead
<1>9. TableAt(5) \in Nat /\ \A k \in 0..(Field(2) - 1) : Word(file, TableAt(5) + k) \in Nat
  BY <1>4, <1>5, <1>6, WordsRead
<1>10. ASSUME NEW k \in 0..(Field(2) - 1) PROVE OrdinalAt(file, TableAt(5), k) \in Nat
  <2>1. k \div 2 \in 0..(Field(2) - 1)
    BY <1>5
  <2>2. PICK w \in Nat : w = Word(file, TableAt(5) + k \div 2)
    BY <1>9, <2>1
  <2>3. CASE k % 2 = 0
    <3>1. OrdinalAt(file, TableAt(5), k) = (w \div 1) % 16
      BY <2>2, <2>3 DEF OrdinalAt, Ordinals
    <3>2. QED BY <3>1
  <2>4. CASE k % 2 # 0
    <3>1. OrdinalAt(file, TableAt(5), k) = (w \div 16) % 16
      BY <2>2, <2>4 DEF OrdinalAt, Ordinals
    <3>2. QED BY <3>1
  <2>5. QED BY <2>3, <2>4
<1>11. QED BY <1>5, <1>7, <1>8, <1>9, <1>10

\* The last name of a function that has one is one of the table's.
LEMMA LastNameIs ==
  ASSUME Field(2) \in Nat, NEW k, NamesOf(k) # {}
  PROVE  LastName(k) \in 0..(Field(2) - 1) /\ LastName(k) \in NamesOf(k)
<1>1. PICK S : S = NamesOf(k)
  OBVIOUS
<1>2. S \subseteq 0..(Field(2) - 1) /\ S # {}
  BY <1>1 DEF NamesOf
<1>3. \E j \in S : \A i \in S : i <= j
  BY <1>2, LastIndex
<1>4. PICK l : l = CHOOSE j \in S : \A i \in S : i <= j
  OBVIOUS
<1>5. l \in S
  BY <1>3, <1>4, Zenon
<1>6. LastName(k) = l
  BY <1>1, <1>4, Zenon DEF LastName
<1>7. QED BY <1>1, <1>2, <1>5, <1>6

\* What ReadExports stores, function by function.
LEMMA ExportsStored ==
  ASSUME ReadExports, WellFormed(file)
  PROVE  /\ Field(1) \in Nat /\ DOMAIN funcs' = 1..Field(1) /\ DOMAIN fnames' = 1..Field(1)
         /\ funcs' \in Seq(Nat) /\ fnames' \in Seq(Nat) /\ Len(funcs') = Len(fnames')
         /\ \A k \in 0..(Field(1) - 1) :
              /\ k + 1 \in 1..Field(1)
              /\ funcs'[k + 1] = Word(file, TableAt(3) + k)
              /\ fnames'[k + 1] = IF NamesOf(k) = {} THEN 0
                                  ELSE Word(file, TableAt(4) + LastName(k))
<1>1. HasDir(1) /\ ExportsReadable
  BY DEF ReadExports
<1>2. /\ Field(1) \in Nat /\ Field(2) \in Nat /\ TableAt(3) \in Nat
      /\ \A k \in 0..(Field(1) - 1) : Word(file, TableAt(3) + k) \in Nat
      /\ \A k \in 0..(Field(2) - 1) : Word(file, TableAt(4) + k) \in Nat
  BY <1>1, ExportWords
<1>3. PICK n \in Nat : n = Field(1)
  BY <1>2
<1>4. PICK a \in Nat : a = TableAt(3)
  BY <1>2
<1>5. funcs' = [k \in 1..n |-> Word(file, a + k - 1)]
  BY <1>3, <1>4 DEF ReadExports
<1>6. fnames' = [k \in 1..n |-> IF NamesOf(k - 1) = {} THEN 0
                                ELSE Word(file, TableAt(4) + LastName(k - 1))]
  BY <1>3 DEF ReadExports, LastName
<1>7. ASSUME NEW k \in 1..n PROVE Word(file, a + k - 1) \in Nat
  <2>1. k - 1 \in 0..(n - 1) /\ a + (k - 1) = a + k - 1
    OBVIOUS
  <2>2. QED BY <1>2, <1>3, <1>4, <2>1
<1>8. funcs' \in [1..n -> Nat]
  BY <1>5, <1>7
<1>9. fnames' \in [1..n -> Nat]
  <2>1. ASSUME NEW k, NamesOf(k) # {} PROVE Word(file, TableAt(4) + LastName(k)) \in Nat
    BY <1>2, <2>1, LastNameIs
  <2>2. QED BY <1>6, <2>1
<1>10. ASSUME NEW k \in 0..(n - 1)
       PROVE  /\ k + 1 \in 1..n
              /\ funcs'[k + 1] = Word(file, a + k)
              /\ fnames'[k + 1] = IF NamesOf(k) = {} THEN 0
                                  ELSE Word(file, TableAt(4) + LastName(k))
  <2>1. k + 1 \in 1..n /\ (k + 1) - 1 = k /\ a + (k + 1) - 1 = a + k
    OBVIOUS
  <2>2. funcs'[k + 1] = Word(file, a + (k + 1) - 1)
    BY <1>5, <2>1
  <2>3. fnames'[k + 1] = IF NamesOf((k + 1) - 1) = {} THEN 0
                         ELSE Word(file, TableAt(4) + LastName((k + 1) - 1))
    BY <1>6, <2>1
  <2>4. QED BY <2>1, <2>2, <2>3
<1>11. funcs' \in Seq(Nat) /\ Len(funcs') = n /\ DOMAIN funcs' = 1..n
  BY <1>8
<1>12. fnames' \in Seq(Nat) /\ Len(fnames') = n /\ DOMAIN fnames' = 1..n
  BY <1>9
<1>13. QED BY <1>3, <1>4, <1>10, <1>11, <1>12

-----------------------------------------------------------------------------
(* Types.                                                                  *)

\* ReadExports keeps the types.
LEMMA ReadExportsTyped == ASSUME TablesInv, ReadExports PROVE TablesInv'
<1>1. WellFormed(file) /\ UNCHANGED file
  BY DEF TablesInv, TablesReached, ReadExports
<1>2. funcs' \in Seq(Nat) /\ fnames' \in Seq(Nat) /\ Len(funcs') = Len(fnames')
  BY <1>1, ExportsStored
<1>3. at' \in Nat
  <2>1. HasDir(1) /\ ExportsReadable
    BY DEF ReadExports
  <2>2. TableAt(4) \in Nat /\ Field(2) \in Nat
    BY <1>1, <2>1, ExportWords
  <2>3. QED BY <2>2 DEF ReadExports
<1>4. TypeOK'
  BY <1>2, <1>3 DEF ReadExports, TablesInv, TypeOK, HasDir
<1>5. TablesReached'
  BY <1>1 DEF ReadExports, TablesInv, TablesReached
<1>6. QED BY <1>4, <1>5 DEF TablesInv

\* The readers' steps that only go on, or fail.
LEMMA OthersTyped ==
  ASSUME TablesInv,
         NoExports \/ ExportsFail \/ ImportsFail \/ EndImports \/ DescriptorFails
           \/ NoStrings \/ EndStrings \/ StringsFail
  PROVE  TablesInv'
<1>1. /\ pc' \in {"imports", "strings", "done", "error"}
      /\ pc' = "imports" => pc = "exports"
      /\ pc' = "strings" => pc = "descriptor"
      /\ UNCHANGED <<file, at, funcs, fnames, hdr, desc, x, names, slots, dir, strs>>
  BY DEF NoExports, ExportsFail, ImportsFail, EndImports, DescriptorFails, NoStrings,
         EndStrings, StringsFail
<1>2. TypeOK'
  BY <1>1 DEF TablesInv, TypeOK, HasDir
<1>3. TablesReached'
  BY <1>1 DEF TablesInv, TablesReached
<1>4. QED BY <1>2, <1>3 DEF TablesInv

\* The table of imports, and where its descriptors are.
LEMMA ImportWords ==
  ASSUME WellFormed(file), ImportsReadable
  PROVE  /\ HasDir(2) /\ DirOff(2) \in Nat /\ file.dirs[2].size \in Nat
         /\ DirOff(2) + file.dirs[2].size <= Len(file.words)
         /\ \A k \in 0..(file.dirs[2].size - 1) : Word(file, DirOff(2) + k) \in Nat
<1>1. HasDir(2) /\ DirAddr(2) \in Nat /\ file.dirs[2].size \in Nat
  BY DEF WellFormed, ImportsReadable, HasDir, DirAddr
<1>2. DirOff(2) \in Nat
  BY <1>1, OffsetTyped DEF ImportsReadable, DirOff
<1>3. Has(file, DirOff(2), file.dirs[2].size) /\ DirOff(2) \in Int
  BY <1>2 DEF ImportsReadable
<1>4. QED BY <1>1, <1>2, <1>3, WordsRead

\* ReadDescriptors keeps the types.
LEMMA ReadDescriptorsTyped == ASSUME TablesInv, ReadDescriptors PROVE TablesInv'
<1>1. WellFormed(file) /\ UNCHANGED file /\ ImportsReadable
  BY DEF TablesInv, TablesReached, ReadDescriptors
<1>2. DirOff(2) \in Nat /\ file.dirs[2].size \in Nat
  BY <1>1, ImportWords
<1>3. ImportsReadable' /\ DirOff(2)' = DirOff(2)
  BY <1>1, SameFile
<1>4. hdr' = DirOff(2) /\ at' = DirOff(2) + file.dirs[2].size
  BY DEF ReadDescriptors
<1>5. hdr' \in Nat /\ at' \in Nat
  BY <1>2, <1>4
<1>6. TypeOK'
  BY <1>5 DEF ReadDescriptors, TablesInv, TypeOK, HasDir
<1>7. TablesReached'
  BY <1>1, <1>3, <1>4 DEF ReadDescriptors, TablesInv, TablesReached
<1>8. QED BY <1>6, <1>7 DEF TablesInv

\* The descriptor looked at.
LEMMA DescriptorWords ==
  ASSUME WellFormed(file), ImportsReadable, hdr = DirOff(2), desc \in Nat, HasDesc
  PROVE  Origs \in Nat /\ DName \in Nat /\ Thunk \in Nat
<1>1. PICK n \in Nat : n = file.dirs[2].size
  BY ImportWords
<1>2. PICK h \in Nat : h = hdr
  BY ImportWords
<1>3. \A k \in 0..(n - 1) : Word(file, h + k) \in Nat
  BY <1>1, <1>2, ImportWords
<1>4. n >= desc + 3
  BY <1>1 DEF HasDesc, DescSize
<1>5. desc \in 0..(n - 1) /\ desc + 1 \in 0..(n - 1) /\ desc + 2 \in 0..(n - 1)
  BY <1>4
<1>6. h + desc + 1 = h + (desc + 1) /\ h + desc + 2 = h + (desc + 2)
  OBVIOUS
<1>7. Word(file, h + desc) \in Nat /\ Word(file, h + desc + 1) \in Nat /\ Word(file, h + desc + 2) \in Nat
  BY <1>3, <1>5, <1>6
<1>8. QED BY <1>2, <1>7 DEF Origs, DName, Thunk

\* BeginNames keeps the types.
LEMMA BeginNamesTyped == ASSUME TablesInv, BeginNames PROVE TablesInv'
<1>1. /\ WellFormed(file) /\ UNCHANGED <<file, hdr, desc>> /\ ImportsReadable /\ hdr = DirOff(2)
      /\ HasDesc /\ BothMapped /\ desc \in Nat
  BY DEF TablesInv, TypeOK, TablesReached, BeginNames
<1>2. Origs \in Nat
  BY <1>1, DescriptorWords
<1>3. OffsetOf(file, Origs) \in Nat
  BY <1>1, <1>2, OffsetTyped DEF BothMapped
<1>4. TypeOK'
  BY <1>3 DEF BeginNames, TablesInv, TypeOK, HasDir
<1>5. ImportsReadable' /\ DirOff(2)' = DirOff(2) /\ HasDesc' /\ BothMapped'
  BY <1>1, SameFile, SameDescriptor
<1>6. TablesReached'
  BY <1>1, <1>5 DEF BeginNames, TablesInv, TablesReached
<1>7. QED BY <1>4, <1>6 DEF TablesInv

\* The word at the position.
LEMMA WordHere ==
  ASSUME WellFormed(file), at \in Nat, Has(file, at, 1)
  PROVE  Word(file, at) \in Nat
<1>1. at + 1 <= Len(file.words)
  BY DEF Has
<1>2. Len(file.words) \in Nat
  BY DEF WellFormed
<1>3. at \in Int /\ 0 <= at /\ at < Len(file.words)
  BY <1>1, <1>2
<1>4. QED BY <1>3, WordTyped

\* ReadName keeps the types.
LEMMA ReadNameTyped == ASSUME TablesInv, ReadName PROVE TablesInv'
<1>1. /\ WellFormed(file) /\ UNCHANGED <<pc, file, hdr, desc>> /\ ImportsReadable /\ hdr = DirOff(2)
      /\ HasDesc /\ BothMapped /\ at \in Nat /\ pc = "names"
  BY DEF TablesInv, TypeOK, TablesReached, ReadName
<1>2. Word(file, at) \in Nat
  BY <1>1, WordHere DEF ReadName
<1>3. NameAddr(Word(file, at)) \in Nat
  BY <1>2, PeAssumption DEF NameAddr
<1>4. names' \in Seq(Nat) /\ at' \in Nat
  BY <1>1, <1>3 DEF ReadName, TablesInv, TypeOK
<1>5. TypeOK'
  BY <1>4 DEF ReadName, TablesInv, TypeOK, HasDir
<1>6. ImportsReadable' /\ DirOff(2)' = DirOff(2) /\ HasDesc' /\ BothMapped'
  BY <1>1, SameFile, SameDescriptor
<1>7. TablesReached'
  BY <1>1, <1>6 DEF ReadName, TablesInv, TablesReached
<1>8. QED BY <1>5, <1>7 DEF TablesInv

\* BeginSlots keeps the types.
LEMMA BeginSlotsTyped == ASSUME TablesInv, BeginSlots PROVE TablesInv'
<1>1. /\ WellFormed(file) /\ UNCHANGED <<file, hdr, desc>> /\ ImportsReadable /\ hdr = DirOff(2)
      /\ HasDesc /\ BothMapped /\ desc \in Nat
  BY DEF TablesInv, TypeOK, TablesReached, BeginSlots
<1>2. Thunk \in Nat
  BY <1>1, DescriptorWords
<1>3. OffsetOf(file, Thunk) \in Nat
  BY <1>1, <1>2, OffsetTyped DEF BothMapped
<1>4. TypeOK'
  BY <1>2, <1>3 DEF BeginSlots, TablesInv, TypeOK, HasDir
<1>5. ImportsReadable' /\ DirOff(2)' = DirOff(2) /\ HasDesc' /\ BothMapped'
  BY <1>1, SameFile, SameDescriptor
<1>6. TablesReached'
  BY <1>1, <1>5 DEF BeginSlots, TablesInv, TablesReached
<1>7. QED BY <1>4, <1>6 DEF TablesInv

\* ReadSlot keeps the types.
LEMMA ReadSlotTyped == ASSUME TablesInv, ReadSlot PROVE TablesInv'
<1>1. /\ WellFormed(file) /\ UNCHANGED <<pc, file, hdr, desc>> /\ ImportsReadable /\ hdr = DirOff(2)
      /\ HasDesc /\ BothMapped /\ at \in Nat /\ x \in Nat /\ desc \in Nat /\ pc = "slots"
      /\ slots \in Seq([addr : Nat, dll : Nat])
  BY DEF TablesInv, TypeOK, TablesReached, ReadSlot
<1>2. DName \in Nat
  BY <1>1, DescriptorWords
<1>3. [addr |-> x, dll |-> DName] \in [addr : Nat, dll : Nat]
  BY <1>1, <1>2
<1>4. slots' \in Seq([addr : Nat, dll : Nat]) /\ x' \in Nat /\ at' \in Nat
  BY <1>1, <1>3, AppendProperties DEF ReadSlot
<1>5. TypeOK'
  BY <1>4 DEF ReadSlot, TablesInv, TypeOK, HasDir
<1>6. ImportsReadable' /\ DirOff(2)' = DirOff(2) /\ HasDesc' /\ BothMapped'
  BY <1>1, SameFile, SameDescriptor
<1>7. TablesReached'
  BY <1>1, <1>6 DEF ReadSlot, TablesInv, TablesReached
<1>8. QED BY <1>5, <1>7 DEF TablesInv

\* EndSlots keeps the types.
LEMMA EndSlotsTyped == ASSUME TablesInv, EndSlots PROVE TablesInv'
<1>1. /\ WellFormed(file) /\ UNCHANGED <<file, hdr>> /\ ImportsReadable /\ hdr = DirOff(2)
      /\ HasDesc /\ at \in Nat /\ desc \in Nat
  BY DEF TablesInv, TypeOK, TablesReached, EndSlots
<1>2. desc' \in Nat /\ at' \in Nat /\ desc' <= file.dirs[2].size
  <2>1. file.dirs[2].size \in Nat /\ file.dirs[2].size >= desc + 3
    BY <1>1, ImportWords DEF HasDesc, DescSize
  <2>2. QED BY <1>1, <2>1 DEF EndSlots, DescSize
<1>3. TypeOK'
  BY <1>2 DEF EndSlots, TablesInv, TypeOK, HasDir
<1>4. ImportsReadable' /\ DirOff(2)' = DirOff(2)
  BY <1>1, SameFile
<1>5. TablesReached'
  BY <1>1, <1>4 DEF EndSlots, TablesInv, TablesReached
<1>6. QED BY <1>3, <1>5 DEF TablesInv

-----------------------------------------------------------------------------
(* String resources.                                                       *)

\* Two words that can be read.
LEMMA TwoWords ==
  ASSUME WellFormed(file), NEW p \in Int, Has(file, p, 2)
  PROVE  p \in Nat /\ Word(file, p) \in Nat /\ Word(file, p + 1) \in Nat
<1>1. 2 \in Nat /\ 0 \in 0..(2 - 1) /\ 1 \in 0..(2 - 1) /\ p + 0 = p
  OBVIOUS
<1>2. p \in Nat /\ \A k \in 0..(2 - 1) : Word(file, p + k) \in Nat
  BY <1>1, WordsRead
<1>3. QED BY <1>1, <1>2

\* An entry that can be read is called something and leads somewhere.
LEMMA EntryTyped ==
  ASSUME WellFormed(file), NEW p \in Int, Has(file, p, 2)
  PROVE  EntryId(file, p) \in Nat /\ EntryOff(file, p) \in Nat
<1>1. PICK w \in Nat : w = Word(file, p + 1)
  BY TwoWords
<1>2. w % HighBit \in Nat
  BY PeAssumption
<1>3. QED BY <1>1, <1>2, TwoWords DEF EntryId, EntryOff

\* The root of the resources.
LEMMA RootTyped ==
  ASSUME WellFormed(file), HasDir(3), RootReadable
  PROVE  Root \in Nat /\ NumName(file, Root) \in Nat /\ NumId(file, Root) \in Nat
<1>1. DirAddr(3) \in Nat
  BY DEF WellFormed, HasDir, DirAddr
<1>2. Root \in Nat
  BY <1>1, OffsetTyped DEF RootReadable, Root, DirOff
<1>3. QED BY <1>2, TwoWords DEF RootReadable, NumName, NumId

\* The entry that the search of the root ends at.
LEMMA StringsAtIs ==
  ASSUME WellFormed(file), HasDir(3), RootReadable, StringDirs # {}
  PROVE  /\ StringsAt \in Int /\ Has(file, StringsAt, 2)
         /\ StringsAt \in Numbered(Root) /\ EntryId(file, StringsAt) = StringDir
<1>1. Root \in Nat /\ NumName(file, Root) \in Nat /\ NumId(file, Root) \in Nat
  BY RootTyped
<1>2. PICK S : S = StringDirs
  OBVIOUS
<1>3. S \subseteq Nat /\ S # {}
  BY <1>2 DEF StringDirs
<1>4. \E k \in S : \A j \in S : k <= j
  BY <1>3, Smallest
<1>5. PICK m : m = CHOOSE k \in S : \A j \in S : k <= j
  OBVIOUS
<1>6. m \in S
  BY <1>4, <1>5, Zenon
<1>7. StringsAt = IdEntry(file, Root, m)
  BY <1>2, <1>5, Zenon DEF StringsAt
<1>8. /\ m \in 0..(NumId(file, Root) - 1) /\ Has(file, IdEntry(file, Root, m), 2)
      /\ EntryId(file, IdEntry(file, Root, m)) = StringDir
  BY <1>2, <1>6 DEF StringDirs
<1>9. IdEntry(file, Root, m) \in Int
  BY <1>1, <1>8 DEF IdEntry
<1>10. QED BY <1>7, <1>8, <1>9 DEF Numbered

\* The directory of strings.
LEMMA DirTyped ==
  ASSUME WellFormed(file), HasDir(3), StringsThere, NEW d, d = Root + EntryOff(file, StringsAt)
  PROVE  d \in Nat /\ Root \in Nat /\ NumName(file, d) \in Nat /\ NumId(file, d) \in Nat
<1>1. RootReadable /\ StringDirs # {} /\ Has(file, d, 2)
  BY DEF StringsThere
<1>2. Root \in Nat
  BY <1>1, RootTyped
<1>3. EntryOff(file, StringsAt) \in Nat
  BY <1>1, StringsAtIs, EntryTyped
<1>4. d \in Nat
  BY <1>2, <1>3
<1>5. QED BY <1>1, <1>2, <1>4, TwoWords DEF NumName, NumId

\* FindStrings keeps the types.
LEMMA FindStringsTyped == ASSUME TablesInv, FindStrings PROVE TablesInv'
<1>1. WellFormed(file) /\ UNCHANGED file /\ HasDir(3) /\ StringsThere
  BY DEF TablesInv, TablesReached, FindStrings
<1>2. PICK d : d = Root + EntryOff(file, StringsAt)
  OBVIOUS
<1>3. d \in Nat
  BY <1>1, <1>2, DirTyped
<1>4. dir' = d /\ at' = d + 2
  BY <1>2 DEF FindStrings
<1>5. dir' \in Nat /\ at' \in Nat
  BY <1>3, <1>4
<1>6. TypeOK'
  BY <1>5 DEF FindStrings, TablesInv, TypeOK, HasDir
<1>7. HasDir(3)' /\ StringsThere' /\ Root' = Root /\ StringsAt' = StringsAt
  BY <1>1, SameFile
<1>8. dir' = (Root + EntryOff(file, StringsAt))'
  BY <1>1, <1>2, <1>4, <1>7 DEF EntryOff, Word
<1>9. TablesReached'
  BY <1>1, <1>7, <1>8 DEF FindStrings, TablesInv, TablesReached
<1>10. QED BY <1>6, <1>9 DEF TablesInv

\* The k-th entry for strings, its directory of languages, and the data.
EntryOf(k) == IdEntry(file, dir, k)
SubOf(k)   == Root + EntryOff(file, EntryOf(k))
DataOf(k)  == Root + EntryOff(file, SubOf(k) + 2)

\* What is kept of it.
BlockAt(k) == [id |-> EntryId(file, EntryOf(k)), addr |-> Word(file, DataOf(k)),
               size |-> Word(file, DataOf(k) + 1)]

\* The blocks so far are those of the first entries, and each has one language.
StringsSoFar ==
  pc = "entry" =>
    /\ Len(strs) <= NumId(file, dir)
    /\ \A k \in 0..(Len(strs) - 1) :
         /\ SubOf(k) \in Nat /\ NumName(file, SubOf(k)) = 0 /\ NumId(file, SubOf(k)) = 1
         /\ strs[k + 1] = BlockAt(k)

\* The block that is read next.
LEMMA NextBlock ==
  ASSUME TablesInv, ReadString, NEW n, n = Len(strs)
  PROVE  /\ n \in Nat /\ BlockAt(n) \in [id : Nat, addr : Nat, size : Nat]
         /\ strs' = Append(strs, BlockAt(n)) /\ at' = DataOf(n) + 2 /\ DataOf(n) \in Nat
         /\ SubOf(n) \in Nat /\ NumName(file, SubOf(n)) = 0 /\ NumId(file, SubOf(n)) = 1
         /\ n < NumId(file, dir) /\ dir \in Nat /\ NumId(file, dir) \in Nat
<1>1. /\ WellFormed(file) /\ HasDir(3) /\ StringsThere /\ dir = Root + EntryOff(file, StringsAt)
      /\ strs \in Seq([id : Nat, addr : Nat, size : Nat])
  BY DEF TablesInv, TablesReached, TypeOK, ReadString
<1>2. dir \in Nat /\ Root \in Nat /\ NumName(file, dir) \in Nat /\ NumId(file, dir) \in Nat
  BY <1>1, DirTyped
<1>3. n \in Nat
  BY <1>1, LenProperties
<1>4. EntryOf(n) \in Int
  BY <1>2, <1>3 DEF EntryOf, IdEntry
<1>5. Entry = EntryOf(n) /\ Sub = SubOf(n) /\ Data = DataOf(n)
  BY DEF Entry, Sub, Data, EntryOf, SubOf, DataOf
<1>6. /\ Has(file, EntryOf(n), 2) /\ NumName(file, SubOf(n)) = 0 /\ NumId(file, SubOf(n)) = 1
      /\ Has(file, SubOf(n), 2) /\ Has(file, SubOf(n) + 2, 2) /\ Has(file, DataOf(n), 2)
  BY <1>5 DEF ReadString, Expected
<1>7. EntryId(file, EntryOf(n)) \in Nat /\ SubOf(n) \in Nat
  BY <1>1, <1>2, <1>4, <1>6, EntryTyped DEF SubOf
<1>8. SubOf(n) + 2 \in Int
  BY <1>7
<1>9. DataOf(n) \in Nat
  BY <1>1, <1>2, <1>6, <1>8, EntryTyped DEF DataOf
<1>10. Word(file, DataOf(n)) \in Nat /\ Word(file, DataOf(n) + 1) \in Nat
  BY <1>1, <1>6, <1>9, TwoWords
<1>11. BlockAt(n) \in [id : Nat, addr : Nat, size : Nat]
  BY <1>7, <1>10 DEF BlockAt
<1>12. strs' = Append(strs, BlockAt(n)) /\ at' = DataOf(n) + 2 /\ n < NumId(file, dir)
  BY <1>5 DEF ReadString, BlockAt
<1>13. QED BY <1>2, <1>3, <1>6, <1>7, <1>9, <1>11, <1>12

\* ReadString keeps the types.
LEMMA ReadStringTyped == ASSUME TablesInv, ReadString PROVE TablesInv'
<1>1. PICK n : n = Len(strs)
  OBVIOUS
<1>2. /\ BlockAt(n) \in [id : Nat, addr : Nat, size : Nat]
      /\ strs' = Append(strs, BlockAt(n)) /\ at' = DataOf(n) + 2 /\ DataOf(n) \in Nat
  BY <1>1, NextBlock
<1>3. strs \in Seq([id : Nat, addr : Nat, size : Nat])
  BY DEF TablesInv, TypeOK
<1>4. strs' \in Seq([id : Nat, addr : Nat, size : Nat]) /\ at' \in Nat
  BY <1>2, <1>3, AppendProperties
<1>5. TypeOK'
  BY <1>4 DEF ReadString, TablesInv, TypeOK, HasDir
<1>6. UNCHANGED file /\ HasDir(3) /\ StringsThere /\ pc = "entry"
  BY DEF TablesInv, TablesReached, ReadString
<1>7. HasDir(3)' /\ StringsThere' /\ Root' = Root /\ StringsAt' = StringsAt
  BY <1>6, SameFile
<1>8. (Root + EntryOff(file, StringsAt))' = Root + EntryOff(file, StringsAt)
  BY <1>6, <1>7 DEF EntryOff, Word
<1>9. TablesReached'
  BY <1>6, <1>7, <1>8 DEF ReadString, TablesInv, TablesReached
<1>10. QED BY <1>5, <1>9 DEF TablesInv

\* Every step keeps the types.
LEMMA StepTables == TablesInv /\ [Next]_vars => TablesInv'
<1> SUFFICES ASSUME TablesInv, [Next]_vars PROVE TablesInv'
  OBVIOUS
<1>1. CASE ReadExports
  BY <1>1, ReadExportsTyped
<1>2. CASE \/ NoExports \/ ExportsFail \/ ImportsFail \/ EndImports \/ DescriptorFails
           \/ NoStrings \/ EndStrings \/ StringsFail
  BY <1>2, OthersTyped
<1>3. CASE ReadDescriptors
  BY <1>3, ReadDescriptorsTyped
<1>4. CASE BeginNames
  BY <1>4, BeginNamesTyped
<1>5. CASE ReadName
  BY <1>5, ReadNameTyped
<1>6. CASE BeginSlots
  BY <1>6, BeginSlotsTyped
<1>7. CASE ReadSlot
  BY <1>7, ReadSlotTyped
<1>8. CASE EndSlots
  BY <1>8, EndSlotsTyped
<1>9. CASE FindStrings
  BY <1>9, FindStringsTyped
<1>10. CASE ReadString
  BY <1>10, ReadStringTyped
<1>11. CASE UNCHANGED vars
  <2>1. UNCHANGED <<pc, file, at, funcs, fnames, hdr, desc, x, names, slots, dir, strs>>
    BY <1>11 DEF vars
  <2>2. /\ ImportsReadable' <=> ImportsReadable
        /\ DirOff(2)' = DirOff(2) /\ Root' = Root /\ StringsAt' = StringsAt
        /\ (HasDir(3)' <=> HasDir(3)) /\ (StringsThere' <=> StringsThere)
        /\ (HasDesc' <=> HasDesc) /\ (BothMapped' <=> BothMapped)
    BY <2>1, SameFile, SameDescriptor
  <2>3. (Root + EntryOff(file, StringsAt))' = Root + EntryOff(file, StringsAt)
    BY <2>1, <2>2 DEF EntryOff, Word
  <2>4. TypeOK'
    BY <2>1 DEF TablesInv, TypeOK, HasDir
  <2>5. TablesReached'
    BY <2>1, <2>2, <2>3 DEF TablesInv, TablesReached
  <2>6. QED BY <2>4, <2>5 DEF TablesInv
<1>12. QED BY <1>1, <1>2, <1>3, <1>4, <1>5, <1>6, <1>7, <1>8, <1>9, <1>10, <1>11 DEF Next

\* What there is in the file, and what the loader makes of it, stays.
LEMMA SameBlocks ==
  ASSUME UNCHANGED file
  PROVE  (OneForStrings' <=> OneForStrings) /\ Blocks' = Blocks
<1>1. file' = file /\ Root' = Root
  BY SameFile
<1>2. QED BY <1>1 DEF OneForStrings, Blocks, Numbered, Languages, Under, EntryId, EntryOff, NumName,
             NumId, IdEntry, Word

\* What the types and the strings together say of a file whose blocks were all read.
LEMMA AllBlocks ==
  ASSUME TablesInv, StringsSoFar, EndStrings, OneForStrings
  PROVE  {strs[k] : k \in DOMAIN strs} = Blocks
<1>1. /\ WellFormed(file) /\ HasDir(3) /\ StringsThere /\ dir = Root + EntryOff(file, StringsAt)
      /\ strs \in Seq([id : Nat, addr : Nat, size : Nat])
  BY DEF TablesInv, TablesReached, TypeOK, EndStrings
<1>2. dir \in Nat /\ Root \in Nat /\ NumId(file, dir) \in Nat
  BY <1>1, DirTyped
<1>3. PICK n \in Nat : n = NumId(file, dir)
  BY <1>2
<1>4. Len(strs) = n /\ DOMAIN strs = 1..n
  <2>1. PICK l \in Nat : l = Len(strs) /\ DOMAIN strs = 1..l
    BY <1>1
  <2>2. l <= n /\ l >= n
    BY <1>3, <2>1 DEF StringsSoFar, EndStrings
  <2>3. l = n
    BY <2>2
  <2>4. QED BY <2>1, <2>3
<1>5. \A k \in 0..(n - 1) : /\ SubOf(k) \in Nat /\ NumName(file, SubOf(k)) = 0 /\ NumId(file, SubOf(k)) = 1
                            /\ strs[k + 1] = BlockAt(k)
  BY <1>4 DEF StringsSoFar, EndStrings
<1>6. {e \in Numbered(Root) : EntryId(file, e) = StringDir} = {StringsAt}
  <2>1. StringsAt \in Numbered(Root) /\ EntryId(file, StringsAt) = StringDir
    BY <1>1, StringsAtIs DEF StringsThere
  <2>2. QED BY <2>1 DEF OneForStrings
<1>7. Under(StringsAt) = dir
  BY <1>1 DEF Under
<1>8. Numbered(dir) = {EntryOf(k) : k \in 0..(n - 1)}
  BY <1>3 DEF Numbered, EntryOf
<1>9. ASSUME NEW k \in 0..(n - 1)
      PROVE  /\ Under(EntryOf(k)) = SubOf(k)
             /\ Languages(SubOf(k)) = {SubOf(k) + 2} /\ Under(SubOf(k) + 2) = DataOf(k)
  <2>1. NumName(file, SubOf(k)) + NumId(file, SubOf(k)) - 1 = 0
    BY <1>5
  <2>2. Languages(SubOf(k)) = {SubOf(k) + 2 + 2 * i : i \in 0..0}
    BY <2>1 DEF Languages
  <2>3. SubOf(k) \in Nat
    BY <1>5
  <2>4. SubOf(k) + 2 + 2 * 0 = SubOf(k) + 2
    BY <2>3
  <2>5. Languages(SubOf(k)) = {SubOf(k) + 2}
    <3>1. 0..0 = {0}
      OBVIOUS
    <3>2. QED BY <2>2, <2>4, <3>1
  <2>6. QED BY <2>5 DEF Under, SubOf, DataOf
<1>10. PICK found : found = {BlockAt(k) : k \in 0..(n - 1)}
  OBVIOUS
<1>11. Blocks \subseteq found
  <2> SUFFICES ASSUME NEW r \in Blocks PROVE r \in found
    OBVIOUS
  <2>1. PICK e \in {i \in Numbered(Root) : EntryId(file, i) = StringDir} :
          \E b \in Numbered(Under(e)) : \E l \in Languages(Under(b)) :
            r = [id |-> EntryId(file, b), addr |-> Word(file, Under(l)), size |-> Word(file, Under(l) + 1)]
    BY DEF Blocks
  <2>2. e = StringsAt
    BY <1>6, <2>1
  <2>3. PICK b \in Numbered(dir) : \E l \in Languages(Under(b)) :
            r = [id |-> EntryId(file, b), addr |-> Word(file, Under(l)), size |-> Word(file, Under(l) + 1)]
    BY <1>7, <2>1, <2>2
  <2>4. PICK k \in 0..(n - 1) : b = EntryOf(k)
    BY <1>8, <2>3
  <2>5. PICK l \in Languages(SubOf(k)) :
            r = [id |-> EntryId(file, b), addr |-> Word(file, Under(l)), size |-> Word(file, Under(l) + 1)]
    BY <1>9, <2>3, <2>4
  <2>6. Under(l) = DataOf(k)
    BY <1>9, <2>5
  <2>7. r = BlockAt(k)
    BY <2>4, <2>5, <2>6 DEF BlockAt
  <2>8. QED BY <1>10, <2>7
<1>12. found \subseteq Blocks
  <2> SUFFICES ASSUME NEW k \in 0..(n - 1) PROVE BlockAt(k) \in Blocks
    BY <1>10
  <2>1. PICK b : b = EntryOf(k)
    OBVIOUS
  <2>2. PICK l : l = SubOf(k) + 2
    OBVIOUS
  <2>3. b \in Numbered(Under(StringsAt)) /\ l \in Languages(Under(b)) /\ Under(l) = DataOf(k)
    BY <1>7, <1>8, <1>9, <2>1, <2>2
  <2>4. BlockAt(k) = [id |-> EntryId(file, b), addr |-> Word(file, Under(l)), size |-> Word(file, Under(l) + 1)]
    BY <2>1, <2>3 DEF BlockAt
  <2>5. StringsAt \in {i \in Numbered(Root) : EntryId(file, i) = StringDir}
    BY <1>6
  <2>6. BlockAt(k) \in {[id |-> EntryId(file, b), addr |-> Word(file, Under(i)), size |-> Word(file, Under(i) + 1)] :
                          i \in Languages(Under(b))}
    BY <2>3, <2>4
  <2>7. BlockAt(k) \in UNION {{[id |-> EntryId(file, g), addr |-> Word(file, Under(i)), size |-> Word(file, Under(i) + 1)] :
                          i \in Languages(Under(g))} : g \in Numbered(Under(StringsAt))}
    BY <2>3, <2>6
  <2>8. QED BY <2>5, <2>7 DEF Blocks
<1>13. {strs[k] : k \in DOMAIN strs} = found
  <2>1. ASSUME NEW k \in 0..(n - 1) PROVE BlockAt(k) \in {strs[i] : i \in DOMAIN strs}
    <3>1. k + 1 \in DOMAIN strs /\ strs[k + 1] = BlockAt(k)
      BY <1>4, <1>5
    <3>2. QED BY <3>1
  <2>2. ASSUME NEW k \in DOMAIN strs PROVE strs[k] \in found
    <3>1. k - 1 \in 0..(n - 1) /\ (k - 1) + 1 = k
      BY <1>4
    <3>2. strs[(k - 1) + 1] = BlockAt(k - 1)
      BY <1>5, <3>1
    <3>3. strs[k] = BlockAt(k - 1)
      BY <3>1, <3>2
    <3>4. QED BY <1>10, <3>1, <3>3
  <2>3. QED BY <1>10, <2>1, <2>2
<1>14. QED BY <1>11, <1>12, <1>13

\* ReadString keeps it.
LEMMA ReadStringKeeps ==
  ASSUME TablesInv, StringsSoFar, ReadString
  PROVE  StringsSoFar'
<1>1. PICK n : n = Len(strs)
  OBVIOUS
<1>2. /\ n \in Nat /\ BlockAt(n) \in [id : Nat, addr : Nat, size : Nat]
      /\ strs' = Append(strs, BlockAt(n)) /\ SubOf(n) \in Nat
      /\ NumName(file, SubOf(n)) = 0 /\ NumId(file, SubOf(n)) = 1
      /\ n < NumId(file, dir) /\ NumId(file, dir) \in Nat
  BY <1>1, NextBlock
<1>3. strs \in Seq([id : Nat, addr : Nat, size : Nat])
  BY DEF TablesInv, TypeOK
<1>4. Len(strs') = n + 1 /\ strs'[n + 1] = BlockAt(n) /\ \A k \in 1..n : strs'[k] = strs[k]
  BY <1>1, <1>2, <1>3, AppendProperties
<1>5. UNCHANGED <<pc, file, dir>> /\ pc = "entry"
  BY DEF ReadString
<1>6. Root' = Root
  BY <1>5, SameFile
<1>7. \A k : /\ SubOf(k)' = SubOf(k) /\ BlockAt(k)' = BlockAt(k)
             /\ (NumName(file, SubOf(k)))' = NumName(file, SubOf(k))
             /\ (NumId(file, SubOf(k)))' = NumId(file, SubOf(k))
  BY <1>5, <1>6 DEF SubOf, DataOf, BlockAt, EntryOf, IdEntry, EntryOff, EntryId, NumName, NumId, Word
<1>8. NumId(file, dir)' = NumId(file, dir)
  BY <1>5 DEF NumId, Word
<1>9. Len(strs') <= NumId(file, dir)
  BY <1>2, <1>4
<1>10. ASSUME NEW k \in 0..n
       PROVE  /\ SubOf(k) \in Nat /\ NumName(file, SubOf(k)) = 0 /\ NumId(file, SubOf(k)) = 1
              /\ strs'[k + 1] = BlockAt(k)
  <2>1. CASE k = n
    BY <1>2, <1>4, <2>1
  <2>2. CASE k # n
    <3>1. k \in 0..(n - 1) /\ k + 1 \in 1..n
      BY <1>2, <2>2
    <3>2. QED BY <1>1, <1>4, <1>5, <3>1 DEF StringsSoFar
  <2>3. QED BY <2>1, <2>2
<1>11. 0..(Len(strs') - 1) = 0..n
  BY <1>2, <1>4
<1>12. QED BY <1>7, <1>8, <1>9, <1>10, <1>11 DEF StringsSoFar

\* The strings are as they should be, and so is what comes of them.
StringsInv == StringsSoFar /\ StringsComplete

\* Every step keeps the strings.
LEMMA StepStrings == TablesInv /\ StringsInv /\ [Next]_vars => StringsInv'
<1> SUFFICES ASSUME TablesInv, StringsInv, [Next]_vars PROVE StringsInv'
  OBVIOUS
<1>1. CASE ReadString
  <2>1. pc' # "done"
    BY <1>1 DEF ReadString
  <2>2. QED BY <1>1, <2>1, ReadStringKeeps DEF StringsInv, StringsComplete
<1>2. CASE FindStrings
  <2>1. pc' = "entry" /\ strs' = <<>> /\ UNCHANGED file
    BY <1>2 DEF FindStrings, TablesInv, TablesReached
  <2>2. PICK d : d = Root + EntryOff(file, StringsAt)
    OBVIOUS
  <2>3. dir' = d /\ NumId(file, d) \in Nat
    BY <1>2, <2>2, DirTyped DEF FindStrings, TablesInv, TablesReached
  <2>4. NumId(file, dir)' \in Nat
    BY <2>1, <2>3 DEF NumId, Word
  <2>5. Len(strs') = 0 /\ 0..(0 - 1) = {}
    BY <2>1
  <2>6. StringsSoFar'
    BY <2>4, <2>5 DEF StringsSoFar
  <2>7. QED BY <2>1, <2>6 DEF StringsInv, StringsComplete
<1>3. CASE EndStrings
  <2>1. pc' = "done" /\ UNCHANGED <<file, strs>>
    BY <1>3 DEF EndStrings
  <2>2. OneForStrings => {strs[k] : k \in DOMAIN strs} = Blocks
    BY <1>3, AllBlocks DEF StringsInv
  <2>3. (OneForStrings' <=> OneForStrings) /\ Blocks' = Blocks
    BY <2>1, SameBlocks
  <2>4. QED BY <2>1, <2>2, <2>3 DEF StringsInv, StringsSoFar, StringsComplete
<1>4. CASE NoStrings
  <2>1. pc' = "done" /\ UNCHANGED <<file, strs>> /\ strs = <<>>
    BY <1>4 DEF NoStrings, TablesInv, TablesReached
  <2>2. (NoTable(3)' <=> NoTable(3)) /\ Blocks' = Blocks
    BY <2>1, SameBlocks, SameFile
  <2>3. CASE NoTable(3)
    BY <2>1, <2>2, <2>3 DEF StringsInv, StringsSoFar, StringsComplete
  <2>4. CASE NoneThere
    <3>1. {i \in Numbered(Root) : EntryId(file, i) = StringDir} = {}
      BY <2>4 DEF NoneThere, StringDirs, AllRead, Numbered
    <3>2. Blocks = {}
      BY <3>1 DEF Blocks
    <3>3. {strs'[k] : k \in DOMAIN strs'} = {}
      BY <2>1
    <3>4. QED BY <2>1, <2>2, <3>2, <3>3 DEF StringsInv, StringsSoFar, StringsComplete
  <2>5. QED BY <1>4, <2>3, <2>4 DEF NoStrings
<1>5. CASE \/ ReadExports \/ NoExports \/ ExportsFail \/ ReadDescriptors \/ ImportsFail
           \/ BeginNames \/ ReadName \/ BeginSlots \/ ReadSlot \/ EndSlots
           \/ EndImports \/ DescriptorFails \/ StringsFail
  <2>1. pc' # "entry" /\ pc' # "done"
    BY <1>5 DEF ReadExports, NoExports, ExportsFail, ReadDescriptors, ImportsFail, BeginNames,
         ReadName, BeginSlots, ReadSlot, EndSlots, EndImports, DescriptorFails, StringsFail
  <2>2. QED BY <2>1 DEF StringsInv, StringsSoFar, StringsComplete
<1>6. CASE UNCHANGED vars
  <2>1. UNCHANGED <<pc, file, dir, strs>>
    BY <1>6 DEF vars
  <2>2. /\ (OneForStrings' <=> OneForStrings) /\ Blocks' = Blocks
        /\ (NoTable(3)' <=> NoTable(3)) /\ Root' = Root
    BY <2>1, SameBlocks, SameFile
  <2>3. \A k : /\ SubOf(k)' = SubOf(k) /\ BlockAt(k)' = BlockAt(k)
               /\ (NumName(file, SubOf(k)))' = NumName(file, SubOf(k))
               /\ (NumId(file, SubOf(k)))' = NumId(file, SubOf(k))
    BY <2>1, <2>2 DEF SubOf, DataOf, BlockAt, EntryOf, IdEntry, EntryOff, EntryId, NumName, NumId, Word
  <2>4. NumId(file, dir)' = NumId(file, dir)
    BY <2>1 DEF NumId, Word
  <2>5. StringsSoFar'
    BY <2>1, <2>3, <2>4 DEF StringsInv, StringsSoFar
  <2>6. StringsComplete'
    BY <2>1, <2>2 DEF StringsInv, StringsComplete
  <2>7. QED BY <2>5, <2>6 DEF StringsInv
<1>7. QED BY <1>1, <1>2, <1>3, <1>4, <1>5, <1>6 DEF Next

-----------------------------------------------------------------------------
(* Exports.                                                                *)

\* What the loader makes of the exports stays.
LEMMA SameExports ==
  ASSUME UNCHANGED file
  PROVE  (NamesThere' <=> NamesThere) /\ Resolves' = Resolves /\ (NoTable(1)' <=> NoTable(1))
<1>1. file' = file
  OBVIOUS
<1>2. \A k : Field(k)' = Field(k) /\ TableAt(k)' = TableAt(k)
  BY <1>1 DEF Field, TableAt, DirOff, DirAddr
<1>3. (NamesThere' <=> NamesThere) /\ Resolves' = Resolves
  BY <1>1, <1>2 DEF NamesThere, Resolves, OrdinalAt, Word
<1>4. QED BY <1>3, SameFile

\* Once the exports are read, each function has a name that leads to it, if one does.
LEMMA ExportsRead ==
  ASSUME WellFormed(file), ReadExports, NamesThere
  PROVE  /\ \A k \in DOMAIN fnames' : fnames'[k] # 0 => <<fnames'[k], funcs'[k]>> \in Resolves
         /\ \A r \in Resolves : \E k \in DOMAIN funcs' : funcs'[k] = r[2] /\ fnames'[k] # 0
<1>1. HasDir(1) /\ ExportsReadable
  BY DEF ReadExports
<1>2. /\ Field(1) \in Nat /\ Field(2) \in Nat
      /\ \A j \in 0..(Field(2) - 1) : OrdinalAt(file, TableAt(5), j) \in Nat
  BY <1>1, ExportWords
<1>3. PICK n \in Nat : n = Field(1)
  BY <1>2
<1>4. /\ DOMAIN funcs' = 1..n /\ DOMAIN fnames' = 1..n
      /\ \A k \in 0..(n - 1) :
              /\ k + 1 \in 1..n
              /\ funcs'[k + 1] = Word(file, TableAt(3) + k)
              /\ fnames'[k + 1] = IF NamesOf(k) = {} THEN 0
                                  ELSE Word(file, TableAt(4) + LastName(k))
  BY <1>3, ExportsStored
<1>5. ASSUME NEW k \in 0..(n - 1), NamesOf(k) # {}
      PROVE  /\ LastName(k) \in 0..(Field(2) - 1)
             /\ OrdinalAt(file, TableAt(5), LastName(k)) = k
             /\ Word(file, TableAt(4) + LastName(k)) # 0
  <2>1. LastName(k) \in 0..(Field(2) - 1) /\ LastName(k) \in NamesOf(k)
    BY <1>2, <1>5, LastNameIs
  <2>2. OrdinalAt(file, TableAt(5), LastName(k)) = k
    BY <2>1 DEF NamesOf
  <2>3. QED BY <2>1, <2>2 DEF NamesThere
<1>6. ASSUME NEW k \in 0..(n - 1), fnames'[k + 1] # 0
      PROVE  <<fnames'[k + 1], funcs'[k + 1]>> \in Resolves
  <2>1. NamesOf(k) # {}
    BY <1>4, <1>6
  <2>2. PICK j : j = LastName(k)
    OBVIOUS
  <2>3. /\ j \in {i \in 0..(Field(2) - 1) : OrdinalAt(file, TableAt(5), i) < Field(1)}
        /\ OrdinalAt(file, TableAt(5), j) = k
    BY <1>3, <1>5, <2>1, <2>2
  <2>4. fnames'[k + 1] = Word(file, TableAt(4) + j) /\ funcs'[k + 1] = Word(file, TableAt(3) + OrdinalAt(file, TableAt(5), j))
    BY <1>4, <2>1, <2>2, <2>3
  <2>5. QED BY <2>3, <2>4 DEF Resolves
<1>7. ASSUME NEW k \in DOMAIN fnames', fnames'[k] # 0
      PROVE  <<fnames'[k], funcs'[k]>> \in Resolves
  <2>1. k - 1 \in 0..(n - 1) /\ (k - 1) + 1 = k
    BY <1>4
  <2>2. fnames'[(k - 1) + 1] # 0 => <<fnames'[(k - 1) + 1], funcs'[(k - 1) + 1]>> \in Resolves
    BY <1>6, <2>1
  <2>3. QED BY <1>7, <2>1, <2>2
<1>8. ASSUME NEW r \in Resolves
      PROVE  \E k \in DOMAIN funcs' : funcs'[k] = r[2] /\ fnames'[k] # 0
  <2>1. PICK j \in {i \in 0..(Field(2) - 1) : OrdinalAt(file, TableAt(5), i) < Field(1)} :
          r = <<Word(file, TableAt(4) + j), Word(file, TableAt(3) + OrdinalAt(file, TableAt(5), j))>>
    BY DEF Resolves
  <2>2. PICK o : o = OrdinalAt(file, TableAt(5), j)
    OBVIOUS
  <2>3. o \in Nat /\ o < n
    BY <1>2, <1>3, <2>1, <2>2
  <2>4. o \in 0..(n - 1)
    BY <2>3
  <2>5. NamesOf(o) # {}
    BY <2>1, <2>2 DEF NamesOf
  <2>6. fnames'[o + 1] = Word(file, TableAt(4) + LastName(o)) /\ Word(file, TableAt(4) + LastName(o)) # 0
    BY <1>4, <1>5, <2>4, <2>5
  <2>7. o + 1 \in DOMAIN funcs' /\ funcs'[o + 1] = r[2]
    BY <1>4, <2>1, <2>2, <2>4
  <2>8. QED BY <2>6, <2>7
<1>9. QED BY <1>7, <1>8

\* Every step keeps the exports.
LEMMA StepExports == TablesInv /\ ExportsAsLoaded /\ [Next]_vars => ExportsAsLoaded'
<1> SUFFICES ASSUME TablesInv, ExportsAsLoaded, [Next]_vars PROVE ExportsAsLoaded'
  OBVIOUS
<1>1. UNCHANGED file
  BY DEF Next, vars, ReadExports, NoExports, ExportsFail, ReadDescriptors, ImportsFail, BeginNames,
         ReadName, BeginSlots, ReadSlot, EndSlots, EndImports, DescriptorFails, FindStrings, NoStrings,
         ReadString, EndStrings, StringsFail
<1>2. (NamesThere' <=> NamesThere) /\ Resolves' = Resolves /\ (NoTable(1)' <=> NoTable(1))
  BY <1>1, SameExports
<1>3. CASE ReadExports
  <2>1. WellFormed(file)
    BY DEF TablesInv, TablesReached
  <2>2. NamesThere =>
         /\ \A k \in DOMAIN fnames' : fnames'[k] # 0 => <<fnames'[k], funcs'[k]>> \in Resolves
         /\ \A r \in Resolves : \E k \in DOMAIN funcs' : funcs'[k] = r[2] /\ fnames'[k] # 0
    BY <1>3, <2>1, ExportsRead
  <2>3. QED BY <1>2, <2>2 DEF ExportsAsLoaded
<1>4. CASE NoExports
  BY <1>2, <1>4 DEF NoExports, ExportsAsLoaded
<1>5. CASE ExportsFail \/ ImportsFail \/ DescriptorFails \/ StringsFail
  BY <1>5 DEF ExportsFail, ImportsFail, DescriptorFails, StringsFail, ExportsAsLoaded, Past
<1>6. CASE \/ ReadDescriptors \/ BeginNames \/ ReadName \/ BeginSlots \/ ReadSlot \/ EndSlots
           \/ EndImports \/ FindStrings \/ NoStrings \/ ReadString \/ EndStrings \/ UNCHANGED vars
  <2>1. UNCHANGED <<funcs, fnames>> /\ (Past({"exports"})' => Past({"exports"}))
    BY <1>6 DEF Past, vars, ReadDescriptors, BeginNames, ReadName, BeginSlots, ReadSlot, EndSlots,
         EndImports, FindStrings, NoStrings, ReadString, EndStrings
  <2>2. QED BY <1>2, <2>1 DEF ExportsAsLoaded
<1>7. QED BY <1>3, <1>4, <1>5, <1>6 DEF Next

-----------------------------------------------------------------------------
(* Imports.                                                                *)

\* What the loader binds for the k-th descriptor, and for those in front of the q-th.
BindingsOf(k) == {<<LoadedField(k, 2) + i, LoadedField(k, 1),
                    NameAddr(Word(file, OffsetOf(file, LoadedField(k, 0)) + i))>> :
                    i \in Items(LoadedField(k, 0))}
BindingsTo(q) == UNION {BindingsOf(k) : k \in 0..(q - 1)}

\* The first n pairs of what was read.
PairsTo(n) == {<<slots[k].addr, slots[k].dll, names[k]>> : k \in 1..n}

\* A table has n items, and maybe more.
ItemsTo(a, n) ==
  \A j \in 0..(n - 1) : /\ OffsetOf(file, a) + j < Len(file.words)
                        /\ Word(file, OffsetOf(file, a) + j) # 0

\* In front of the q-th descriptor there are m pairs.
PairedTo(q, m) ==
  /\ desc = 3 * q /\ \A k \in 0..(q - 1) : LoadedField(k, 2) # 0
  /\ PairsTo(m) = BindingsTo(q)

\* Behind m names there are those of n items.
NamesFrom(m, n) ==
  /\ Len(names) = m + n
  /\ \A i \in 0..(n - 1) : names[m + 1 + i] = NameAddr(Word(file, OffsetOf(file, Origs) + i))

\* Behind m slots there are l of the descriptor.
SlotsFrom(m, l) ==
  /\ Len(slots) = m + l
  /\ \A i \in 0..(l - 1) : slots[m + 1 + i] = [addr |-> Thunk + i, dll |-> DName]

AtDescriptor(q, m) == PairedTo(q, m) /\ Len(slots) = m /\ Len(names) = m
InNames(q, m, n) ==
  /\ PairedTo(q, m) /\ Len(slots) = m /\ NamesFrom(m, n)
  /\ at = OffsetOf(file, Origs) + n /\ ItemsTo(Origs, n)
InSlots(q, m, n, l) ==
  /\ PairedTo(q, m) /\ NamesFrom(m, n) /\ SlotsFrom(m, l) /\ Items(Origs) = 0..(n - 1)
  /\ x = Thunk + l /\ at = OffsetOf(file, Thunk) + l /\ ItemsTo(Thunk, l)

\* Names and slots are read in step, as long as the tables in the file are.
Pairing ==
  SlotsAsNames =>
    /\ pc = "descriptor" => \E q, m \in Nat : AtDescriptor(q, m)
    /\ pc = "names" => \E q, m, n \in Nat : InNames(q, m, n)
    /\ pc = "slots" => \E q, m, n, l \in Nat : InSlots(q, m, n, l)

ImportsInv == Pairing /\ ImportsPaired

\* What the loader makes of the imports stays.
LEMMA SameImports ==
  ASSUME UNCHANGED file
  PROVE  /\ (SlotsAsNames' <=> SlotsAsNames) /\ Bindings' = Bindings
         /\ \A k, i : LoadedField(k, i)' = LoadedField(k, i)
         /\ \A k : BindingsTo(k)' = BindingsTo(k)
         /\ \A a : Items(a)' = Items(a)
         /\ \A a, n : ItemsTo(a, n)' <=> ItemsTo(a, n)
<1>1. file' = file /\ DirOff(2)' = DirOff(2)
  BY SameFile
<1>2. \A k, i : LoadedField(k, i)' = LoadedField(k, i)
  BY <1>1 DEF LoadedField, Word
<1>3. \A a : Items(a)' = Items(a)
  BY <1>1 DEF Items, OffsetOf, Covers, Word
<1>4. LoadedDescs' = LoadedDescs
  BY <1>1, <1>2 DEF LoadedDescs
<1>5. SlotsAsNames' <=> SlotsAsNames
  BY <1>2, <1>3, <1>4 DEF SlotsAsNames
<1>6. ASSUME NEW k PROVE BindingsOf(k)' = BindingsOf(k)
  <2>1. \A a : OffsetOf(file, a)' = OffsetOf(file, a)
    BY <1>1 DEF OffsetOf, Covers
  <2>2. PICK a : a = LoadedField(k, 0) /\ a = LoadedField(k, 0)'
    BY <1>2
  <2>3. PICK o : o = OffsetOf(file, a) /\ o = OffsetOf(file, a)'
    BY <2>1
  <2>4. PICK d : d = LoadedField(k, 1) /\ d = LoadedField(k, 1)'
    BY <1>2
  <2>5. PICK t : t = LoadedField(k, 2) /\ t = LoadedField(k, 2)'
    BY <1>2
  <2>6. BindingsOf(k) = {<<t + i, d, NameAddr(Word(file, o + i))>> : i \in Items(a)}
    BY <2>2, <2>3, <2>4, <2>5 DEF BindingsOf
  <2>7. BindingsOf(k)' = {<<t + i, d, NameAddr(Word(file', o + i))>> : i \in Items(a)'}
    BY <2>2, <2>3, <2>4, <2>5 DEF BindingsOf, Word
  <2>8. Items(a)' = Items(a) /\ file' = file
    BY <1>1, <1>3
  <2>9. QED BY <2>6, <2>7, <2>8
<1>7. \A k : BindingsTo(k)' = BindingsTo(k)
  BY <1>6 DEF BindingsTo
<1>8. Bindings' = Bindings
  <2>1. Bindings = UNION {BindingsOf(k) : k \in LoadedDescs}
    BY DEF Bindings, BindingsOf
  <2>2. Bindings' = UNION {BindingsOf(k)' : k \in LoadedDescs'}
    BY DEF Bindings, BindingsOf
  <2>3. QED BY <1>4, <1>6, <2>1, <2>2
<1>9. \A a, n : ItemsTo(a, n)' <=> ItemsTo(a, n)
  BY <1>1 DEF ItemsTo, OffsetOf, Covers, Word
<1>10. QED BY <1>2, <1>3, <1>5, <1>7, <1>8, <1>9

\* A table that has n items and then 0 has no more.
LEMMA ItemsEnd ==
  ASSUME WellFormed(file), NEW a, OffsetOf(file, a) \in Nat, NEW n \in Nat, ItemsTo(a, n),
         Has(file, OffsetOf(file, a) + n, 1), Word(file, OffsetOf(file, a) + n) = 0
  PROVE  Items(a) = 0..(n - 1)
<1>1. PICK o \in Nat : o = OffsetOf(file, a)
  OBVIOUS
<1>2. PICK len \in Nat : len = Len(file.words)
  BY LenProperties DEF WellFormed
<1>3. \A j \in 0..(n - 1) : o + j < len /\ Word(file, o + j) # 0
  BY <1>1, <1>2 DEF ItemsTo
<1>4. Items(a) = {i \in 0..len : \A j \in 0..i : o + j < len /\ Word(file, o + j) # 0}
  BY <1>1, <1>2 DEF Items
<1>5. ASSUME NEW i \in 0..(n - 1) PROVE i \in Items(a)
  <2>1. i \in 0..len
    BY <1>3
  <2>2. \A j \in 0..i : j \in 0..(n - 1)
    OBVIOUS
  <2>3. QED BY <1>3, <1>4, <2>1, <2>2
<1>6. ASSUME NEW i \in Items(a) PROVE i \in 0..(n - 1)
  <2>1. i \in Nat /\ \A j \in 0..i : Word(file, o + j) # 0
    BY <1>4
  <2>2. n \notin 0..i
    BY <1>1, <2>1
  <2>3. QED BY <2>1, <2>2
<1>7. QED BY <1>5, <1>6

\* The descriptor looked at is the loader's.
LEMMA FieldsHere ==
  ASSUME hdr \in Nat, hdr = DirOff(2), NEW q \in Nat, desc = 3 * q
  PROVE  LoadedField(q, 0) = Origs /\ LoadedField(q, 1) = DName /\ LoadedField(q, 2) = Thunk
<1>1. PICK d \in Nat : d = 3 * q
  OBVIOUS
<1>2. hdr + d + 0 = hdr + d
  OBVIOUS
<1>3. QED BY <1>1, <1>2 DEF LoadedField, Origs, DName, Thunk, DescSize

\* The pairs stay when names or slots are put behind them.
LEMMA PairsStay ==
  ASSUME NEW n \in Nat, \A k \in 1..n : names'[k] = names[k] /\ slots'[k] = slots[k]
  PROVE  PairsTo(n)' = PairsTo(n)
<1>1. QED BY DEF PairsTo

\* What holds when a reader is at a descriptor or in one of its tables.
LEMMA HereTyped ==
  ASSUME TablesInv, pc \in {"descriptor", "names", "slots"}
  PROVE  /\ WellFormed(file) /\ ImportsReadable /\ hdr = DirOff(2) /\ hdr \in Nat /\ desc \in Nat
         /\ at \in Nat /\ names \in Seq(Nat) /\ slots \in Seq([addr : Nat, dll : Nat])
         /\ HasDir(2) /\ file.dirs[2].size \in Nat /\ desc <= file.dirs[2].size
         /\ HasDesc /\ BothMapped =>
              Thunk \in Nat /\ OffsetOf(file, Origs) \in Nat /\ OffsetOf(file, Thunk) \in Nat
<1>1. /\ WellFormed(file) /\ ImportsReadable /\ hdr = DirOff(2) /\ hdr \in Nat /\ desc \in Nat
      /\ at \in Nat /\ names \in Seq(Nat) /\ slots \in Seq([addr : Nat, dll : Nat])
  BY DEF TablesInv, TablesReached, TypeOK
<1>2. HasDir(2) /\ file.dirs[2].size \in Nat
  BY <1>1, ImportWords
<1>3. desc <= file.dirs[2].size
  BY <1>2 DEF TablesInv, TypeOK
<1>4. ASSUME HasDesc, BothMapped
      PROVE  Thunk \in Nat /\ OffsetOf(file, Origs) \in Nat /\ OffsetOf(file, Thunk) \in Nat
  <2>1. Origs \in Nat /\ Thunk \in Nat
    BY <1>1, <1>4, DescriptorWords
  <2>2. QED BY <1>1, <1>4, <2>1, OffsetTyped DEF BothMapped
<1>5. QED BY <1>1, <1>2, <1>3, <1>4

\* The pairs of the descriptors that are behind stay.
LEMMA PairedStay ==
  ASSUME UNCHANGED <<file, desc>>, NEW q, NEW m \in Nat, PairedTo(q, m),
         \A k \in 1..m : names'[k] = names[k] /\ slots'[k] = slots[k]
  PROVE  PairedTo(q, m)'
<1>1. desc' = 3 * q
  BY DEF PairedTo
<1>2. \A k \in 0..(q - 1) : LoadedField(k, 2)' # 0
  BY SameImports DEF PairedTo
<1>3. PairsTo(m)' = PairsTo(m)
  BY PairsStay
<1>4. BindingsTo(q)' = BindingsTo(q)
  BY SameImports
<1>5. QED BY <1>1, <1>2, <1>3, <1>4 DEF PairedTo

\* The offsets of a descriptor's tables stay.
LEMMA SameOffsets ==
  ASSUME UNCHANGED <<file, hdr, desc>>
  PROVE  /\ OffsetOf(file, Origs)' = OffsetOf(file, Origs)
         /\ OffsetOf(file, Thunk)' = OffsetOf(file, Thunk)
         /\ \A p : NameAddr(Word(file, p))' = NameAddr(Word(file, p))
<1>1. file' = file /\ Origs' = Origs /\ Thunk' = Thunk
  BY SameDescriptor
<1>2. QED BY <1>1 DEF OffsetOf, Covers, NameAddr, Word

\* Names that were read stay where they are while others are put behind them.
LEMMA NamesStay ==
  ASSUME UNCHANGED <<file, hdr, desc, names>>, NEW m, NEW n, NamesFrom(m, n)
  PROVE  NamesFrom(m, n)'
<1>1. PICK o : o = OffsetOf(file, Origs) /\ o = OffsetOf(file, Origs)'
  BY SameOffsets
<1>2. \A i \in 0..(n - 1) : names'[m + 1 + i] = NameAddr(Word(file, o + i))'
  BY <1>1, SameOffsets DEF NamesFrom
<1>3. QED BY <1>1, <1>2 DEF NamesFrom

\* BeginNames keeps it.
LEMMA BeginNamesKeeps ==
  ASSUME TablesInv, BeginNames, NEW q \in Nat, NEW m \in Nat, AtDescriptor(q, m)
  PROVE  InNames(q, m, 0)'
<1>1. UNCHANGED <<file, hdr, desc, names, slots>> /\ at' = OffsetOf(file, Origs) /\ at' \in Nat
  BY BeginNamesTyped DEF BeginNames, TablesInv, TypeOK
<1>2. PairedTo(q, m)'
  BY <1>1, PairedStay DEF AtDescriptor
<1>3. at' = OffsetOf(file, Origs)' + 0
  BY <1>1, SameOffsets
<1>4. 0..(0 - 1) = {} /\ m + 0 = m
  OBVIOUS
<1>5. NamesFrom(m, 0)' /\ ItemsTo(Origs, 0)' /\ Len(slots') = m
  BY <1>1, <1>4 DEF AtDescriptor, NamesFrom, ItemsTo
<1>6. QED BY <1>2, <1>3, <1>5 DEF InNames

\* The word that is there, and not 0, is the table's next item.
LEMMA OneMore ==
  ASSUME NEW a, OffsetOf(file, a) \in Nat, NEW n \in Nat, ItemsTo(a, n), WellFormed(file),
         at = OffsetOf(file, a) + n, Has(file, at, 1), Word(file, at) # 0
  PROVE  ItemsTo(a, n + 1)
<1>1. PICK o \in Nat : o = OffsetOf(file, a)
  OBVIOUS
<1>2. PICK len \in Nat : len = Len(file.words)
  BY LenProperties DEF WellFormed
<1>3. o + n + 1 <= len
  BY <1>1, <1>2 DEF Has
<1>4. ASSUME NEW j \in 0..((n + 1) - 1) PROVE o + j < len /\ Word(file, o + j) # 0
  <2>1. CASE j = n
    BY <1>1, <1>3, <2>1
  <2>2. CASE j # n
    <3>1. j \in 0..(n - 1)
      BY <2>2
    <3>2. QED BY <1>1, <1>2, <3>1 DEF ItemsTo
  <2>3. QED BY <2>1, <2>2
<1>5. QED BY <1>1, <1>2, <1>4 DEF ItemsTo

\* ReadName keeps it.
LEMMA ReadNameKeeps ==
  ASSUME TablesInv, ReadName, NEW q \in Nat, NEW m \in Nat, NEW n \in Nat, InNames(q, m, n)
  PROVE  InNames(q, m, n + 1)'
<1>1. /\ UNCHANGED <<file, hdr, desc, slots>> /\ at' = at + 1
      /\ names' = Append(names, NameAddr(Word(file, at)))
      /\ Has(file, at, 1) /\ Word(file, at) # 0 /\ pc = "names"
  BY DEF ReadName
<1>2. /\ WellFormed(file) /\ names \in Seq(Nat) /\ OffsetOf(file, Origs) \in Nat /\ at \in Nat
      /\ slots \in Seq([addr : Nat, dll : Nat])
  <2>1. HasDesc /\ BothMapped
    BY <1>1 DEF TablesInv, TablesReached
  <2>2. QED BY <1>1, <2>1, HereTyped
<1>3. PICK o \in Nat : o = OffsetOf(file, Origs) /\ o = OffsetOf(file, Origs)'
  BY <1>1, <1>2, SameOffsets
<1>4. /\ Len(slots) = m /\ Len(names) = m + n /\ at = o + n
      /\ \A i \in 0..(n - 1) : names[m + 1 + i] = NameAddr(Word(file, o + i))
  BY <1>3 DEF InNames, NamesFrom
<1>5. NameAddr(Word(file, at)) \in Nat
  BY <1>1, <1>2, WordHere, PeAssumption DEF NameAddr
<1>6. /\ Len(names') = m + n + 1 /\ names'[m + n + 1] = NameAddr(Word(file, at))
      /\ \A k \in 1..(m + n) : names'[k] = names[k]
  <2>1. PICK e \in Nat : e = NameAddr(Word(file, at))
    BY <1>5
  <2>2. PICK s \in Seq(Nat) : s = names
    BY <1>2
  <2>3. names' = Append(s, e)
    BY <1>1, <2>1, <2>2
  <2>4. PICK l \in Nat : l = m + n
    OBVIOUS
  <2>5. Len(s) = l
    BY <1>4, <2>2, <2>4
  <2>6. /\ Len(Append(s, e)) = l + 1 /\ Append(s, e)[l + 1] = e
        /\ \A k \in 1..l : Append(s, e)[k] = s[k]
    BY <2>5, AppendProperties
  <2>7. QED BY <2>1, <2>2, <2>3, <2>4, <2>6
<1>7. PairedTo(q, m)'
  <2>1. \A k \in 1..m : names'[k] = names[k] /\ slots'[k] = slots[k]
    BY <1>1, <1>6
  <2>2. QED BY <1>1, <2>1, PairedStay DEF InNames
<1>8. ASSUME NEW i \in 0..((n + 1) - 1)
      PROVE  names'[m + 1 + i] = NameAddr(Word(file, o + i))
  <2>1. CASE i = n
    <3>1. m + 1 + i = m + n + 1 /\ o + i = at
      BY <1>4, <2>1
    <3>2. QED BY <1>6, <3>1
  <2>2. CASE i # n
    <3>1. i \in 0..(n - 1) /\ m + 1 + i \in 1..(m + n)
      BY <2>2
    <3>2. QED BY <1>4, <1>6, <3>1
  <2>3. QED BY <2>1, <2>2
<1>9. NamesFrom(m, n + 1)'
  <2>1. \A i \in 0..((n + 1) - 1) : names'[m + 1 + i] = NameAddr(Word(file, o + i))'
    BY <1>1, <1>8, SameOffsets
  <2>2. m + n + 1 = m + (n + 1)
    OBVIOUS
  <2>3. QED BY <1>3, <1>6, <2>1, <2>2 DEF NamesFrom
<1>10. ItemsTo(Origs, n + 1)
  BY <1>1, <1>2, OneMore DEF InNames
<1>11. ItemsTo(Origs, n + 1)'
  <2>1. PICK a : a = Origs /\ a = Origs'
    BY <1>1, SameDescriptor
  <2>2. ItemsTo(a, n + 1)' <=> ItemsTo(a, n + 1)
    BY <1>1, SameImports
  <2>3. QED BY <1>10, <2>1, <2>2 DEF ItemsTo
<1>12. at' = o + (n + 1)
  BY <1>1, <1>4
<1>13. QED BY <1>1, <1>3, <1>4, <1>7, <1>9, <1>11, <1>12 DEF InNames

\* BeginSlots keeps it.
LEMMA BeginSlotsKeeps ==
  ASSUME TablesInv, BeginSlots, NEW q \in Nat, NEW m \in Nat, NEW n \in Nat, InNames(q, m, n)
  PROVE  InSlots(q, m, n, 0)'
<1>1. /\ UNCHANGED <<file, hdr, desc, names, slots>> /\ at' = OffsetOf(file, Thunk) /\ x' = Thunk
      /\ Has(file, at, 1) /\ Word(file, at) = 0 /\ pc = "names"
  BY DEF BeginSlots
<1>2. /\ WellFormed(file) /\ OffsetOf(file, Origs) \in Nat /\ OffsetOf(file, Thunk) \in Nat
      /\ Thunk \in Nat
  <2>1. HasDesc /\ BothMapped
    BY <1>1 DEF TablesInv, TablesReached
  <2>2. QED BY <1>1, <2>1, HereTyped
<1>3. PairedTo(q, m)'
  BY <1>1, PairedStay DEF InNames
<1>4. Items(Origs) = 0..(n - 1)
  BY <1>1, <1>2, ItemsEnd DEF InNames
<1>5. Items(Origs)' = Items(Origs)
  <2>1. PICK a : a = Origs /\ a = Origs'
    BY <1>1, SameDescriptor
  <2>2. Items(a)' = Items(a)
    BY <1>1, SameImports
  <2>3. QED BY <2>1, <2>2 DEF Items
<1>6. at' = OffsetOf(file, Thunk)' + 0 /\ x' = Thunk' + 0
  BY <1>1, <1>2, SameOffsets, SameDescriptor
<1>7. 0..(0 - 1) = {} /\ m + 0 = m
  OBVIOUS
<1>8. SlotsFrom(m, 0)' /\ ItemsTo(Thunk, 0)'
  BY <1>1, <1>7 DEF InNames, SlotsFrom, ItemsTo
<1>9. NamesFrom(m, n)'
  BY <1>1, NamesStay DEF InNames
<1>10. QED BY <1>3, <1>4, <1>5, <1>6, <1>8, <1>9 DEF InSlots

\* ReadSlot keeps it.
LEMMA ReadSlotKeeps ==
  ASSUME TablesInv, ReadSlot, NEW q \in Nat, NEW m \in Nat, NEW n \in Nat, NEW l \in Nat,
         InSlots(q, m, n, l)
  PROVE  InSlots(q, m, n, l + 1)'
<1>1. /\ UNCHANGED <<file, hdr, desc, names>> /\ at' = at + 1 /\ x' = x + 1
      /\ slots' = Append(slots, [addr |-> x, dll |-> DName])
      /\ Has(file, at, 1) /\ Word(file, at) # 0 /\ pc = "slots"
  BY DEF ReadSlot
<1>2. /\ WellFormed(file) /\ OffsetOf(file, Thunk) \in Nat /\ Thunk \in Nat
      /\ slots \in Seq([addr : Nat, dll : Nat]) /\ DName \in Nat /\ x \in Nat
  <2>1. HasDesc /\ BothMapped /\ x \in Nat
    BY <1>1 DEF TablesInv, TablesReached, TypeOK
  <2>2. QED BY <1>1, <2>1, HereTyped, DescriptorWords
<1>3. PICK o \in Nat : o = OffsetOf(file, Thunk) /\ o = OffsetOf(file, Thunk)'
  BY <1>1, <1>2, SameOffsets
<1>4. PICK t \in Nat : t = Thunk /\ t = Thunk'
  BY <1>1, <1>2, SameDescriptor
<1>5. PICK d \in Nat : d = DName /\ d = DName'
  BY <1>1, <1>2, SameDescriptor
<1>6. /\ Len(slots) = m + l /\ at = o + l /\ x = t + l
      /\ \A i \in 0..(l - 1) : slots[m + 1 + i] = [addr |-> t + i, dll |-> d]
  BY <1>3, <1>4, <1>5 DEF InSlots, SlotsFrom
<1>7. [addr |-> x, dll |-> d] \in [addr : Nat, dll : Nat]
  BY <1>2
<1>8. /\ Len(slots') = m + l + 1 /\ slots'[m + l + 1] = [addr |-> x, dll |-> d]
      /\ \A k \in 1..(m + l) : slots'[k] = slots[k]
  BY <1>1, <1>2, <1>5, <1>6, <1>7, AppendProperties
<1>9. PairedTo(q, m)'
  <2>1. \A k \in 1..m : names'[k] = names[k] /\ slots'[k] = slots[k]
    BY <1>1, <1>8
  <2>2. QED BY <1>1, <2>1, PairedStay DEF InSlots
<1>10. ASSUME NEW i \in 0..((l + 1) - 1)
       PROVE  slots'[m + 1 + i] = [addr |-> t + i, dll |-> d]
  <2>1. CASE i = l
    <3>1. m + 1 + i = m + l + 1 /\ t + i = x
      BY <1>6, <2>1
    <3>2. QED BY <1>8, <3>1
  <2>2. CASE i # l
    <3>1. i \in 0..(l - 1) /\ m + 1 + i \in 1..(m + l)
      BY <2>2
    <3>2. QED BY <1>6, <1>8, <3>1
  <2>3. QED BY <2>1, <2>2
<1>11. SlotsFrom(m, l + 1)'
  <2>1. m + l + 1 = m + (l + 1)
    OBVIOUS
  <2>2. QED BY <1>4, <1>5, <1>8, <1>10, <2>1 DEF SlotsFrom
<1>12. ItemsTo(Thunk, l + 1)
  BY <1>1, <1>2, OneMore DEF InSlots
<1>13. ItemsTo(Thunk, l + 1)'
  <2>1. ItemsTo(t, l + 1)' <=> ItemsTo(t, l + 1)
    BY <1>1, SameImports
  <2>2. QED BY <1>4, <1>12, <2>1 DEF ItemsTo
<1>14. Items(Origs)' = 0..(n - 1)
  <2>1. PICK a : a = Origs /\ a = Origs'
    BY <1>1, SameDescriptor
  <2>2. Items(a)' = Items(a)
    BY <1>1, SameImports
  <2>3. QED BY <2>1, <2>2 DEF Items, InSlots
<1>15. NamesFrom(m, n)'
  BY <1>1, NamesStay DEF InSlots
<1>16. at' = o + (l + 1) /\ x' = t + (l + 1)
  BY <1>1, <1>6
<1>17. QED BY <1>3, <1>4, <1>9, <1>11, <1>13, <1>14, <1>15, <1>16 DEF InSlots

\* As many as there are of one, there are of the other.
LEMMA SameNumber ==
  ASSUME NEW n \in Nat, NEW l \in Nat, 0..(n - 1) = 0..(l - 1)
  PROVE  n = l
<1>1. CASE n < l
  <2>1. n \in 0..(l - 1) /\ n \notin 0..(n - 1)
    BY <1>1
  <2>2. QED BY <2>1
<1>2. CASE l < n
  <2>1. l \in 0..(n - 1) /\ l \notin 0..(l - 1)
    BY <1>2
  <2>2. QED BY <2>1
<1>3. QED BY <1>1, <1>2

\* A descriptor that is taken is one of the loader's.
LEMMA Taken ==
  ASSUME TablesInv, pc \in {"descriptor", "slots"}, NEW q \in Nat, NEW m, PairedTo(q, m),
         file.dirs[2].size >= desc + DescSize, Thunk # 0
  PROVE  q \in LoadedDescs
<1>1. /\ hdr \in Nat /\ hdr = DirOff(2) /\ file.dirs[2].size \in Nat /\ desc = 3 * q
      /\ \A k \in 0..(q - 1) : LoadedField(k, 2) # 0
  BY HereTyped DEF PairedTo
<1>2. LoadedField(q, 2) # 0
  BY <1>1, FieldsHere
<1>3. q \in 0..(file.dirs[2].size \div 3 - 1)
  <2>1. PICK w \in Nat : w = file.dirs[2].size
    BY <1>1
  <2>2. w >= 3 * q + 3
    BY <1>1, <2>1 DEF DescSize
  <2>3. w \div 3 >= q + 1
    BY <2>2
  <2>4. QED BY <2>1, <2>3
<1>4. \A k \in 0..q : LoadedField(k, 2) # 0
  <2> TAKE k \in 0..q
  <2>1. k = q \/ k \in 0..(q - 1)
    OBVIOUS
  <2>2. QED BY <1>1, <1>2, <2>1
<1>5. QED BY <1>3, <1>4 DEF LoadedDescs, DescSize

\* A descriptor more.
LEMMA BindingsStep ==
  ASSUME NEW q \in Nat PROVE BindingsTo(q + 1) = BindingsTo(q) \cup BindingsOf(q)
<1>1. 0..((q + 1) - 1) = (0..(q - 1)) \cup {q}
  OBVIOUS
<1>2. QED BY <1>1 DEF BindingsTo

\* EndSlots keeps it.
LEMMA EndSlotsKeeps ==
  ASSUME TablesInv, SlotsAsNames, EndSlots, NEW q \in Nat, NEW m \in Nat, NEW n \in Nat, NEW l \in Nat,
         InSlots(q, m, n, l)
  PROVE  AtDescriptor(q + 1, m + n)'
<1>1. /\ UNCHANGED <<file, hdr, names, slots>> /\ desc' = desc + DescSize
      /\ Has(file, at, 1) /\ Word(file, at) = 0 /\ pc = "slots"
  BY DEF EndSlots
<1>2. HasDesc /\ BothMapped
  BY <1>1 DEF TablesInv, TablesReached
<1>3. /\ WellFormed(file) /\ OffsetOf(file, Thunk) \in Nat /\ hdr \in Nat /\ hdr = DirOff(2)
  BY <1>1, <1>2, HereTyped
<1>4. PairedTo(q, m) /\ NamesFrom(m, n) /\ SlotsFrom(m, l) /\ Items(Origs) = 0..(n - 1)
  BY DEF InSlots
<1>5. Items(Thunk) = 0..(l - 1)
  BY <1>1, <1>3, ItemsEnd DEF InSlots
<1>6. LoadedField(q, 0) = Origs /\ LoadedField(q, 1) = DName /\ LoadedField(q, 2) = Thunk
  BY <1>3, <1>4, FieldsHere DEF PairedTo
<1>7. q \in LoadedDescs
  BY <1>1, <1>2, <1>4, Taken DEF HasDesc
<1>8. n = l
  <2>1. 0..(n - 1) = 0..(l - 1)
    BY <1>4, <1>5, <1>6, <1>7 DEF SlotsAsNames
  <2>2. QED BY <2>1, SameNumber
<1>9. PICK o : o = OffsetOf(file, Origs)
  OBVIOUS
<1>10. PICK t : t = Thunk
  OBVIOUS
<1>11. PICK d : d = DName
  OBVIOUS
<1>12. BindingsOf(q) = {<<t + i, d, NameAddr(Word(file, o + i))>> : i \in 0..(n - 1)}
  BY <1>4, <1>6, <1>9, <1>10, <1>11 DEF BindingsOf
<1>13. ASSUME NEW i \in 0..(n - 1)
       PROVE  <<slots[m + 1 + i].addr, slots[m + 1 + i].dll, names[m + 1 + i]>>
                = <<t + i, d, NameAddr(Word(file, o + i))>>
  <2>1. names[m + 1 + i] = NameAddr(Word(file, o + i))
    BY <1>4, <1>9 DEF NamesFrom
  <2>2. slots[m + 1 + i] = [addr |-> t + i, dll |-> d]
    BY <1>4, <1>8, <1>10, <1>11 DEF SlotsFrom
  <2>3. slots[m + 1 + i].addr = t + i /\ slots[m + 1 + i].dll = d
    BY <2>2
  <2>4. QED BY <2>1, <2>3
<1>14. PairsTo(m + n) = PairsTo(m) \cup BindingsOf(q)
  <2>1. ASSUME NEW k \in 1..(m + n)
        PROVE  <<slots[k].addr, slots[k].dll, names[k]>> \in PairsTo(m) \cup BindingsOf(q)
    <3>1. CASE k \in 1..m
      BY <3>1 DEF PairsTo
    <3>2. CASE k \notin 1..m
      <4>1. PICK i \in 0..(n - 1) : k = m + 1 + i
        <5>1. k - m - 1 \in 0..(n - 1) /\ k = m + 1 + (k - m - 1)
          BY <3>2
        <5>2. QED BY <5>1
      <4>2. QED BY <1>12, <1>13, <4>1
    <3>3. QED BY <3>1, <3>2
  <2>2. ASSUME NEW k \in 1..m
        PROVE  <<slots[k].addr, slots[k].dll, names[k]>> \in PairsTo(m + n)
    <3>1. k \in 1..(m + n)
      OBVIOUS
    <3>2. QED BY <3>1 DEF PairsTo
  <2>3. ASSUME NEW i \in 0..(n - 1)
        PROVE  <<t + i, d, NameAddr(Word(file, o + i))>> \in PairsTo(m + n)
    <3>1. PICK k \in 1..(m + n) : k = m + 1 + i
      <4>1. m + 1 + i \in 1..(m + n)
        OBVIOUS
      <4>2. QED BY <4>1
    <3>2. <<slots[k].addr, slots[k].dll, names[k]>> = <<t + i, d, NameAddr(Word(file, o + i))>>
      BY <1>13, <3>1
    <3>3. <<slots[k].addr, slots[k].dll, names[k]>> \in PairsTo(m + n)
      BY DEF PairsTo
    <3>4. QED BY <3>2, <3>3
  <2>4. PairsTo(m + n) \subseteq PairsTo(m) \cup BindingsOf(q)
    BY <2>1 DEF PairsTo
  <2>5. PairsTo(m) \subseteq PairsTo(m + n)
    BY <2>2 DEF PairsTo
  <2>6. BindingsOf(q) \subseteq PairsTo(m + n)
    BY <1>12, <2>3
  <2>7. QED BY <2>4, <2>5, <2>6
<1>15. PairsTo(m + n) = BindingsTo(q + 1)
  BY <1>4, <1>14, BindingsStep DEF PairedTo
<1>16. PairsTo(m + n)' = PairsTo(m + n) /\ BindingsTo(q + 1)' = BindingsTo(q + 1)
  BY <1>1, SameImports DEF PairsTo
<1>17. desc' = 3 * (q + 1)
  BY <1>1, <1>4 DEF PairedTo, DescSize
<1>18. \A k \in 0..((q + 1) - 1) : LoadedField(k, 2)' # 0
  <2> TAKE k \in 0..((q + 1) - 1)
  <2>1. k = q \/ k \in 0..(q - 1)
    OBVIOUS
  <2>2. LoadedField(k, 2) # 0
    BY <1>2, <1>4, <1>6, <2>1 DEF PairedTo, HasDesc
  <2>3. QED BY <1>1, <2>2, SameImports
<1>19. Len(names') = m + n /\ Len(slots') = m + n
  BY <1>1, <1>4, <1>8 DEF NamesFrom, SlotsFrom
<1>20. PairedTo(q + 1, m + n)'
  BY <1>15, <1>16, <1>17, <1>18 DEF PairedTo
<1>21. QED BY <1>19, <1>20 DEF AtDescriptor

\* At the end there are the loader's descriptors behind, all of them.
LEMMA AllBound ==
  ASSUME TablesInv, SlotsAsNames, EndImports, NEW q \in Nat, NEW m \in Nat, AtDescriptor(q, m)
  PROVE  /\ Len(slots) = Len(names)
         /\ {<<slots[k].addr, slots[k].dll, names[k]>> : k \in DOMAIN slots} = Bindings
<1>1. pc = "descriptor" /\ ~HasDesc
  BY DEF EndImports
<1>2. /\ hdr \in Nat /\ hdr = DirOff(2) /\ desc = 3 * q /\ desc <= file.dirs[2].size
      /\ file.dirs[2].size \in Nat /\ slots \in Seq([addr : Nat, dll : Nat])
      /\ Len(slots) = m /\ Len(names) = m
  BY <1>1, HereTyped DEF AtDescriptor, PairedTo
<1>3. PICK w \in Nat : w = file.dirs[2].size
  BY <1>2
<1>4. LoadedDescs = {k \in 0..(w \div 3 - 1) : \A j \in 0..k : LoadedField(j, 2) # 0}
  BY <1>3 DEF LoadedDescs, DescSize
<1>5. q <= w \div 3
  <2>1. 3 * q <= w
    BY <1>2, <1>3
  <2>2. QED BY <2>1
<1>6. ASSUME NEW k \in 0..(q - 1) PROVE k \in LoadedDescs
  <2>1. k \in 0..(w \div 3 - 1)
    BY <1>5
  <2>2. \A j \in 0..k : j \in 0..(q - 1)
    OBVIOUS
  <2>3. QED BY <1>4, <2>1, <2>2 DEF AtDescriptor, PairedTo
<1>7. ASSUME NEW k \in LoadedDescs PROVE k \in 0..(q - 1)
  <2>1. k \in 0..(w \div 3 - 1) /\ \A j \in 0..k : LoadedField(j, 2) # 0
    BY <1>4
  <2>2. CASE k < q
    BY <2>1, <2>2
  <2>3. CASE ~(k < q)
    <3>1. q \in 0..k /\ q <= w \div 3 - 1
      BY <2>1, <2>3
    <3>2. w >= 3 * q + 3
      BY <3>1
    <3>3. file.dirs[2].size >= desc + DescSize
      BY <1>2, <1>3, <3>2 DEF DescSize
    <3>4. LoadedField(q, 0) = Origs /\ LoadedField(q, 2) = Thunk
      BY <1>2, FieldsHere
    <3>5. Thunk # 0
      BY <2>1, <3>1, <3>4
    <3>6. Origs = 0
      BY <1>1, <3>3, <3>5 DEF HasDesc
    <3>7. q \in LoadedDescs
      BY <1>1, <3>3, <3>5, Taken DEF AtDescriptor
    <3>8. QED BY <3>4, <3>6, <3>7 DEF SlotsAsNames
  <2>4. QED BY <2>2, <2>3
<1>8. LoadedDescs = 0..(q - 1)
  BY <1>6, <1>7
<1>9. Bindings = BindingsTo(q)
  BY <1>8 DEF Bindings, BindingsTo, BindingsOf
<1>10. DOMAIN slots = 1..m
  BY <1>2
<1>11. QED BY <1>2, <1>9, <1>10 DEF AtDescriptor, PairedTo, PairsTo

\* While nothing is read nothing changes.
LEMMA Resting ==
  ASSUME ImportsInv, UNCHANGED vars
  PROVE  ImportsInv'
<1>1. UNCHANGED <<pc, file, at, hdr, desc, x, names, slots>>
  BY DEF vars
<1>2. (SlotsAsNames' <=> SlotsAsNames) /\ Bindings' = Bindings
  BY <1>1, SameImports
<1>3. ASSUME NEW q \in Nat, NEW m \in Nat, PairedTo(q, m) PROVE PairedTo(q, m)'
  BY <1>1, <1>3, PairedStay
<1>4. ASSUME NEW q \in Nat, NEW m \in Nat, AtDescriptor(q, m) PROVE AtDescriptor(q, m)'
  BY <1>1, <1>3, <1>4 DEF AtDescriptor
<1>5. PICK a : a = Origs /\ a = Origs'
  BY <1>1, SameDescriptor
<1>6. PICK t : t = Thunk /\ t = Thunk'
  BY <1>1, SameDescriptor
<1>7. OffsetOf(file, a)' = OffsetOf(file, a) /\ OffsetOf(file, t)' = OffsetOf(file, t)
  BY <1>1 DEF OffsetOf, Covers
<1>8. Items(a)' = Items(a) /\ \A n : ItemsTo(a, n)' <=> ItemsTo(a, n)
  BY <1>1, SameImports
<1>9. \A n : ItemsTo(t, n)' <=> ItemsTo(t, n)
  BY <1>1, SameImports
<1>10. ASSUME NEW q \in Nat, NEW m \in Nat, NEW n \in Nat, InNames(q, m, n) PROVE InNames(q, m, n)'
  <2>1. PairedTo(q, m)' /\ NamesFrom(m, n)'
    BY <1>1, <1>3, <1>10, NamesStay DEF InNames
  <2>2. ItemsTo(Origs, n)'
    BY <1>5, <1>8, <1>10 DEF InNames, ItemsTo
  <2>3. at' = OffsetOf(file, Origs)' + n
    BY <1>1, <1>10, SameOffsets DEF InNames
  <2>4. QED BY <1>1, <1>10, <2>1, <2>2, <2>3 DEF InNames
<1>11. ASSUME NEW q \in Nat, NEW m \in Nat, NEW n \in Nat, NEW l \in Nat, InSlots(q, m, n, l)
       PROVE  InSlots(q, m, n, l)'
  <2>1. PairedTo(q, m)' /\ NamesFrom(m, n)'
    BY <1>1, <1>3, <1>11, NamesStay DEF InSlots
  <2>2. ItemsTo(Thunk, l)'
    BY <1>6, <1>9, <1>11 DEF InSlots, ItemsTo
  <2>3. Items(Origs)' = 0..(n - 1)
    BY <1>5, <1>8, <1>11 DEF InSlots, Items
  <2>4. at' = OffsetOf(file, Thunk)' + l /\ x' = Thunk' + l
    BY <1>1, <1>11, SameOffsets, SameDescriptor DEF InSlots
  <2>5. SlotsFrom(m, l)'
    BY <1>1, <1>11, SameDescriptor DEF InSlots, SlotsFrom
  <2>6. QED BY <2>1, <2>2, <2>3, <2>4, <2>5 DEF InSlots
<1>12. Pairing'
  <2>1. ASSUME SlotsAsNames, pc = "descriptor" PROVE \E q, m \in Nat : AtDescriptor(q, m)'
    <3>1. PICK q, m \in Nat : AtDescriptor(q, m)
      BY <2>1 DEF ImportsInv, Pairing
    <3>2. QED BY <1>4, <3>1
  <2>2. ASSUME SlotsAsNames, pc = "names" PROVE \E q, m, n \in Nat : InNames(q, m, n)'
    <3>1. PICK q, m, n \in Nat : InNames(q, m, n)
      BY <2>2 DEF ImportsInv, Pairing
    <3>2. QED BY <1>10, <3>1
  <2>3. ASSUME SlotsAsNames, pc = "slots" PROVE \E q, m, n, l \in Nat : InSlots(q, m, n, l)'
    <3>1. PICK q, m, n, l \in Nat : InSlots(q, m, n, l)
      BY <2>3 DEF ImportsInv, Pairing
    <3>2. QED BY <1>11, <3>1
  <2>4. QED BY <1>1, <1>2, <2>1, <2>2, <2>3 DEF Pairing
<1>13. ImportsPaired'
  BY <1>1, <1>2 DEF ImportsInv, ImportsPaired, Past
<1>14. QED BY <1>12, <1>13 DEF ImportsInv

\* Every step keeps the imports.
LEMMA StepImports == TablesInv /\ ImportsInv /\ [Next]_vars => ImportsInv'
<1> SUFFICES ASSUME TablesInv, ImportsInv, [Next]_vars PROVE ImportsInv'
  OBVIOUS
<1>1. UNCHANGED file
  BY DEF Next, vars, ReadExports, NoExports, ExportsFail, ReadDescriptors, ImportsFail, BeginNames,
         ReadName, BeginSlots, ReadSlot, EndSlots, EndImports, DescriptorFails, FindStrings, NoStrings,
         ReadString, EndStrings, StringsFail
<1>2. (SlotsAsNames' <=> SlotsAsNames) /\ Bindings' = Bindings
  BY <1>1, SameImports
<1>3. CASE ReadDescriptors
  <2>1. pc' = "descriptor" /\ names' = <<>> /\ slots' = <<>> /\ desc' = 0
    BY <1>3 DEF ReadDescriptors, TablesInv, TablesReached
  <2>2. PairsTo(0)' = {} /\ BindingsTo(0)' = {}
    <3>1. 1..0 = {} /\ 0..(0 - 1) = {}
      OBVIOUS
    <3>2. QED BY <3>1 DEF PairsTo, BindingsTo
  <2>3. desc' = 3 * 0 /\ 0..(0 - 1) = {}
    BY <2>1
  <2>4. AtDescriptor(0, 0)'
    BY <2>1, <2>2, <2>3 DEF AtDescriptor, PairedTo
  <2>5. QED BY <2>1, <2>4 DEF ImportsInv, Pairing, ImportsPaired, Past
<1>4. CASE BeginNames
  <2>1. pc = "descriptor" /\ pc' = "names"
    BY <1>4 DEF BeginNames
  <2>2. ASSUME SlotsAsNames PROVE \E q, m, n \in Nat : InNames(q, m, n)'
    <3>1. PICK q, m \in Nat : AtDescriptor(q, m)
      BY <2>1, <2>2 DEF ImportsInv, Pairing
    <3>2. QED BY <1>4, <3>1, BeginNamesKeeps
  <2>3. QED BY <1>2, <2>1, <2>2 DEF ImportsInv, Pairing, ImportsPaired, Past
<1>5. CASE ReadName
  <2>1. pc = "names" /\ pc' = "names"
    BY <1>5 DEF ReadName
  <2>2. ASSUME SlotsAsNames PROVE \E q, m, n \in Nat : InNames(q, m, n)'
    <3>1. PICK q, m, n \in Nat : InNames(q, m, n)
      BY <2>1, <2>2 DEF ImportsInv, Pairing
    <3>2. n + 1 \in Nat /\ InNames(q, m, n + 1)'
      BY <1>5, <3>1, ReadNameKeeps
    <3>3. QED BY <3>2
  <2>3. QED BY <1>2, <2>1, <2>2 DEF ImportsInv, Pairing, ImportsPaired, Past
<1>6. CASE BeginSlots
  <2>1. pc = "names" /\ pc' = "slots"
    BY <1>6 DEF BeginSlots
  <2>2. ASSUME SlotsAsNames PROVE \E q, m, n, l \in Nat : InSlots(q, m, n, l)'
    <3>1. PICK q, m, n \in Nat : InNames(q, m, n)
      BY <2>1, <2>2 DEF ImportsInv, Pairing
    <3>2. InSlots(q, m, n, 0)'
      BY <1>6, <3>1, BeginSlotsKeeps
    <3>3. QED BY <3>2
  <2>3. QED BY <1>2, <2>1, <2>2 DEF ImportsInv, Pairing, ImportsPaired, Past
<1>7. CASE ReadSlot
  <2>1. pc = "slots" /\ pc' = "slots"
    BY <1>7 DEF ReadSlot
  <2>2. ASSUME SlotsAsNames PROVE \E q, m, n, l \in Nat : InSlots(q, m, n, l)'
    <3>1. PICK q, m, n, l \in Nat : InSlots(q, m, n, l)
      BY <2>1, <2>2 DEF ImportsInv, Pairing
    <3>2. l + 1 \in Nat /\ InSlots(q, m, n, l + 1)'
      BY <1>7, <3>1, ReadSlotKeeps
    <3>3. QED BY <3>2
  <2>3. QED BY <1>2, <2>1, <2>2 DEF ImportsInv, Pairing, ImportsPaired, Past
<1>8. CASE EndSlots
  <2>1. pc = "slots" /\ pc' = "descriptor"
    BY <1>8 DEF EndSlots
  <2>2. ASSUME SlotsAsNames PROVE \E q, m \in Nat : AtDescriptor(q, m)'
    <3>1. PICK q, m, n, l \in Nat : InSlots(q, m, n, l)
      BY <2>1, <2>2 DEF ImportsInv, Pairing
    <3>2. q + 1 \in Nat /\ m + n \in Nat /\ AtDescriptor(q + 1, m + n)'
      BY <1>8, <2>2, <3>1, EndSlotsKeeps
    <3>3. QED BY <3>2
  <2>3. QED BY <1>2, <2>1, <2>2 DEF ImportsInv, Pairing, ImportsPaired, Past
<1>9. CASE EndImports
  <2>1. pc = "descriptor" /\ pc' = "strings" /\ UNCHANGED <<names, slots>>
    BY <1>9 DEF EndImports
  <2>2. ASSUME SlotsAsNames
        PROVE  /\ Len(slots) = Len(names)
               /\ {<<slots[k].addr, slots[k].dll, names[k]>> : k \in DOMAIN slots} = Bindings
    <3>1. PICK q, m \in Nat : AtDescriptor(q, m)
      BY <2>1, <2>2 DEF ImportsInv, Pairing
    <3>2. QED BY <1>9, <2>2, <3>1, AllBound
  <2>3. QED BY <1>2, <2>1, <2>2 DEF ImportsInv, Pairing, ImportsPaired
<1>10. CASE ReadExports \/ NoExports \/ ExportsFail \/ ImportsFail \/ DescriptorFails \/ StringsFail
  <2>1. pc' \in {"imports", "error"}
    BY <1>10 DEF ReadExports, NoExports, ExportsFail, ImportsFail, DescriptorFails, StringsFail
  <2>2. QED BY <2>1 DEF ImportsInv, Pairing, ImportsPaired, Past
<1>11. CASE FindStrings \/ NoStrings \/ ReadString \/ EndStrings
  <2>1. /\ pc' \in {"entry", "done"} /\ pc \in {"strings", "entry"} /\ UNCHANGED <<names, slots>>
    BY <1>11 DEF FindStrings, NoStrings, ReadString, EndStrings
  <2>2. QED BY <1>2, <2>1 DEF ImportsInv, Pairing, ImportsPaired, Past
<1>12. CASE UNCHANGED vars
  BY <1>2, <1>12, Resting
<1>13. QED BY <1>3, <1>4, <1>5, <1>6, <1>7, <1>8, <1>9, <1>10, <1>11, <1>12 DEF Next

-----------------------------------------------------------------------------
(* All of it.                                                              *)

TablesSound == TablesInv /\ ExportsAsLoaded /\ ImportsInv /\ StringsInv

\* Nothing has been read.
Fresh ==
  /\ pc = "exports" /\ at = 0 /\ funcs = <<>> /\ fnames = <<>> /\ hdr = 0 /\ desc = 0 /\ x = 0
  /\ names = <<>> /\ slots = <<>> /\ dir = 0 /\ strs = <<>>

\* That is sound for any file with tables made of numbers.
LEMMA FreshSound == WellFormed(file) /\ Fresh => TablesSound
<1> SUFFICES ASSUME WellFormed(file), Fresh PROVE TablesSound
  OBVIOUS
<1>1. TypeOK
  <2>1. HasDir(2) => 0 <= file.dirs[2].size
    BY DEF WellFormed, HasDir
  <2>2. /\ <<>> \in Seq(Nat) /\ <<>> \in Seq([addr : Nat, dll : Nat])
        /\ <<>> \in Seq([id : Nat, addr : Nat, size : Nat])
    OBVIOUS
  <2>3. QED BY <2>1, <2>2 DEF Fresh, TypeOK
<1>2. TablesInv
  BY <1>1 DEF Fresh, TablesInv, TablesReached
<1>3. pc = "exports"
  BY DEF Fresh
<1>4. QED BY <1>2, <1>3 DEF TablesSound, ExportsAsLoaded, ImportsInv, Pairing, ImportsPaired, Past,
            StringsInv, StringsSoFar, StringsComplete

\* Every file that PeTables can begin with is sound.
LEMMA InitSound == Init => TablesSound
<1>1. Init => WellFormed(file) /\ Fresh
  BY PeAssumption DEF Init, Fresh
<1>2. QED BY <1>1, FreshSound

\* Every step keeps all of it.
LEMMA StepSound == TablesSound /\ [Next]_vars => TablesSound'
<1>1. QED BY StepTables, StepExports, StepImports, StepStrings DEF TablesSound

\* The strengthening of all that is claimed of the tables is inductive (dump.c:226-482).
THEOREM TablesInvariance == Spec => []TablesSound
<1>1. QED BY InitSound, StepSound, PTL DEF Spec

\* The readers keep what they put together in step, and read within the file's tables.
THEOREM TablesTyped == Spec => []TypeOK
<1>1. TablesSound => TypeOK
  BY DEF TablesSound, TablesInv
<1>2. QED BY <1>1, TablesInvariance, PTL

\* In every file whose names have addresses, a name is dumped with the function that it
\* leads to, and a function that can be found by name is dumped with one (dump.c:257-261).
THEOREM ExportsFound == Spec => []ExportsAsLoaded
<1>1. TablesSound => ExportsAsLoaded
  BY DEF TablesSound
<1>2. QED BY <1>1, TablesInvariance, PTL

\* In every file whose tables of names and slots are of the same length the pairs that are
\* dumped are the loader's, though two loops read them through one FILE (dump.c:314-339).
THEOREM ImportsBound == Spec => []ImportsPaired
<1>1. TablesSound => ImportsPaired
  BY DEF TablesSound, ImportsInv
<1>2. QED BY <1>1, TablesInvariance, PTL

\* A dump that succeeds has every block of strings of the file (dump.c:473-482).
THEOREM StringsFound == Spec => []StringsComplete
<1>1. TablesSound => StringsComplete
  BY DEF TablesSound, StringsInv
<1>2. QED BY <1>1, TablesInvariance, PTL

-----------------------------------------------------------------------------
(* The headers are read.                                                   *)

OpenInv == exe \in Executables /\ OpenTypeOK

\* What can be read of the file is made of numbers.
LEMMA AtTyped ==
  ASSUME exe \in Executables
  PROVE  \A p \in Int : \A n \in Nat : There(p, n) =>
           p \in Nat /\ n # 0 /\ \A k \in 0..(n - 1) : At(p + k) \in Nat
<1> SUFFICES ASSUME NEW p \in Int, NEW n \in Nat, There(p, n)
             PROVE  p \in Nat /\ n # 0 /\ \A k \in 0..(n - 1) : At(p + k) \in Nat
  OBVIOUS
<1>1. PICK w \in Seq(Nat) : w = exe.words
  BY OpenAssumption
<1>2. n > 0 /\ p >= 0 /\ p + n <= Len(w)
  BY <1>1 DEF There
<1>3. ASSUME NEW k \in 0..(n - 1) PROVE At(p + k) \in Nat
  <2>1. p + k + 1 \in 1..Len(w)
    BY <1>2
  <2>2. w[p + k + 1] \in Nat
    BY <2>1
  <2>3. QED BY <1>1, <2>2 DEF At
<1>4. QED BY <1>2, <1>3

\* Every executable begins with it.
LEMMA InitOpen == OpenInit => OpenInv
BY DEF OpenInit, OpenInv, OpenTypeOK

\* Every step of the opening keeps it.
LEMMA StepOpen == OpenInv /\ [OpenNext]_openVars => OpenInv'
<1> SUFFICES ASSUME OpenInv, [OpenNext]_openVars PROVE OpenInv'
  OBVIOUS
<1>1. /\ exe \in Executables /\ opening \in {"offset", "header", "optional", "open", "failed"}
      /\ header_off \in Nat /\ datadir_off \in Nat /\ sections_off \in Nat /\ sections_num \in Nat
      /\ entrypoint \in Nat /\ base_addr \in Nat /\ datadir_num \in Nat
  BY DEF OpenInv, OpenTypeOK
<1>2. CASE ReadOffset
  <2>1. There(OffsetAt, 1) /\ OffsetAt \in Int /\ 0 \in 0..(1 - 1) /\ OffsetAt + 0 = OffsetAt
    BY <1>2, OpenAssumption DEF ReadOffset
  <2>2. At(OffsetAt + 0) \in Nat
    BY <1>1, <2>1, AtTyped
  <2>3. header_off' \in Nat
    BY <1>2, <2>1, <2>2 DEF ReadOffset
  <2>4. QED BY <1>1, <1>2, <2>3 DEF ReadOffset, OpenInv, OpenTypeOK
<1>3. CASE ReadHeader
  <2>1. There(header_off, 6)
    BY <1>3 DEF ReadHeader, IsHeader, HeaderSize
  <2>2. 5 \in 0..(6 - 1) /\ 1 \in 0..(6 - 1) /\ 6 \in Nat
    OBVIOUS
  <2>3. At(header_off + 5) \in Nat /\ At(header_off + 1) \in Nat
    BY <1>1, <2>1, <2>2, AtTyped
  <2>4. Low(At(header_off + 5)) \in Nat /\ High(At(header_off + 1)) \in Nat
    <3>1. PICK w \in Nat : w = At(header_off + 5)
      BY <2>3
    <3>2. PICK v \in Nat : v = At(header_off + 1)
      BY <2>3
    <3>3. w % Half \in Nat /\ v \div Half \in Nat
      BY OpenAssumption
    <3>4. QED BY <3>1, <3>2, <3>3 DEF Low, High
  <2>5. PICK g \in Nat : g = Low(At(header_off + 5))
    BY <2>4
  <2>6. PICK r \in Nat : r = g % OptSizes
    BY OpenAssumption
  <2>7. AfterHeader(g) \in Nat
    <3>1. AfterHeader(g) = header_off + 6 + r
      BY <2>6 DEF AfterHeader, HeaderSize
    <3>2. QED BY <1>1, <3>1
  <2>8. sections_off' = AfterHeader(g)
    BY <1>3, <2>5, Zenon DEF ReadHeader
  <2>9. sections_num' \in Nat /\ datadir_off' \in Nat
    BY <1>1, <1>3, <2>4 DEF ReadHeader, HeaderSize, DirsIn
  <2>10. QED BY <1>1, <1>3, <2>7, <2>8, <2>9 DEF ReadHeader, OpenInv, OpenTypeOK
<1>4. CASE ReadOptional
  <2>1. PICK p \in Nat : p = Optional
    BY <1>1 DEF Optional, HeaderSize
  <2>2. There(p, 30)
    BY <1>4, <2>1 DEF ReadOptional, IsOptional, OptSize
  <2>3. 4 \in 0..(30 - 1) /\ 7 \in 0..(30 - 1) /\ 23 \in 0..(30 - 1) /\ 30 \in Nat
    OBVIOUS
  <2>4. At(p + 4) \in Nat /\ At(p + 7) \in Nat /\ At(p + 23) \in Nat
    BY <1>1, <2>2, <2>3, AtTyped
  <2>5. entrypoint' \in Nat /\ base_addr' \in Nat /\ datadir_num' \in Nat
    BY <1>4, <2>1, <2>4 DEF ReadOptional
  <2>6. QED BY <1>1, <1>4, <2>5 DEF ReadOptional, OpenInv, OpenTypeOK
<1>5. CASE OpenFails
  BY <1>1, <1>5 DEF OpenFails, OpenInv, OpenTypeOK
<1>6. CASE UNCHANGED openVars
  BY <1>1, <1>6 DEF openVars, OpenInv, OpenTypeOK
<1>7. QED BY <1>2, <1>3, <1>4, <1>5, <1>6 DEF OpenNext

-----------------------------------------------------------------------------
(* From the headers to the strings.                                        *)

\* Until the tables are begun nothing of them is read; the file then is the one whose
\* headers were read.
AllInv ==
  /\ OpenInv /\ TablesSound /\ LoadInv
  /\ ~begun => Fresh

\* And so is the next state, when it is such a one.
LEMMA FreshAgain == (WellFormed(file) /\ Fresh)' => TablesSound'
<1>1. WellFormed(file) /\ Fresh => TablesSound
  BY FreshSound
<1>2. QED BY <1>1, PTL

\* A directory that the headers have, and a section, are made of numbers.
LEMMA DatadirTyped ==
  ASSUME OpenInv, NEW k \in 1..3, HasDatadir(k - 1)
  PROVE  Datadir(k - 1).addr \in Nat /\ Datadir(k - 1).size \in Nat
<1>1. PICK p \in Int : p = datadir_off + 2 * (k - 1)
  BY DEF OpenInv, OpenTypeOK
<1>2. There(p, 2) /\ 2 \in Nat /\ 0 \in 0..(2 - 1) /\ 1 \in 0..(2 - 1) /\ p + 0 = p
  BY <1>1 DEF HasDatadir
<1>3. At(p + 0) \in Nat /\ At(p + 1) \in Nat
  BY <1>2, AtTyped DEF OpenInv
<1>4. Datadir(k - 1) = [addr |-> At(p), size |-> At(p + 1)]
  BY <1>1 DEF Datadir
<1>5. QED BY <1>2, <1>3, <1>4

\* A section header that can be read is made of numbers.
LEMMA SectionTyped ==
  ASSUME OpenInv, SectionsThere, NEW k \in 1..sections_num
  PROVE  /\ Section(k - 1).addr \in Nat /\ Section(k - 1).dsize \in Nat
         /\ Section(k - 1).offset \in Nat
<1>1. sections_off \in Nat /\ sections_num \in Nat /\ exe \in Executables
  BY DEF OpenInv, OpenTypeOK
<1>2. PICK n \in Nat : n = 10 * sections_num
  BY <1>1
<1>3. There(sections_off, n)
  BY <1>2 DEF SectionsThere, SectionSize
<1>4. \A j \in 0..(n - 1) : At(sections_off + j) \in Nat
  BY <1>1, <1>3, AtTyped
<1>5. PICK o \in Nat : o = sections_off
  BY <1>1
<1>6. PICK i \in Nat : i = 10 * (k - 1) /\ i + 10 <= n
  BY <1>1, <1>2
<1>7. i + 3 \in 0..(n - 1) /\ i + 4 \in 0..(n - 1) /\ i + 5 \in 0..(n - 1)
  BY <1>6
<1>8. At(o + (i + 3)) \in Nat /\ At(o + (i + 4)) \in Nat /\ At(o + (i + 5)) \in Nat
  BY <1>4, <1>5, <1>7
<1>9. o + (i + 3) = o + i + 3 /\ o + (i + 4) = o + i + 4 /\ o + (i + 5) = o + i + 5
  OBVIOUS
<1>10. Section(k - 1) = [addr |-> At(o + i + 3), dsize |-> At(o + i + 4), offset |-> At(o + i + 5)]
  BY <1>5, <1>6 DEF Section, SectionSize
<1>11. QED BY <1>8, <1>9, <1>10

\* What the headers say makes a file with tables of numbers.
LEMMA BeginKeeps ==
  ASSUME AllInv, Begin, UNCHANGED <<follows, loadVars>>
  PROVE  AllInv'
<1>1. /\ OpenInv /\ LoadInv /\ Fresh /\ begun' = TRUE
      /\ UNCHANGED <<pc, at, funcs, fnames, hdr, desc, x, names, slots, dir, strs>>
      /\ UNCHANGED openVars /\ UNCHANGED loadVars
  BY DEF AllInv, Begin
<1>2. file' = [words    |-> exe.words,
               dirs     |-> [k \in {k \in 1..3 : HasDatadir(k - 1)} |-> Datadir(k - 1)],
               sections |-> IF SectionsThere THEN [k \in 1..sections_num |-> Section(k - 1)] ELSE <<>>]
  BY DEF Begin
<1>3. exe.words \in Seq(Nat)
  BY <1>1, OpenAssumption DEF OpenInv
<1>4. WellFormed(file')
  <2>1. file'.words \in Seq(Nat)
    BY <1>2, <1>3
  <2>2. ASSUME NEW k \in DOMAIN file'.dirs
        PROVE  file'.dirs[k].addr \in Nat /\ file'.dirs[k].size \in Nat
    <3>1. k \in 1..3 /\ HasDatadir(k - 1) /\ file'.dirs[k] = Datadir(k - 1)
      BY <1>2
    <3>2. QED BY <1>1, <3>1, DatadirTyped
  <2>3. DOMAIN file'.sections \subseteq Nat /\
        \A k \in DOMAIN file'.sections : /\ file'.sections[k].addr \in Nat
                                         /\ file'.sections[k].dsize \in Nat
                                         /\ file'.sections[k].offset \in Nat
    <3>1. CASE SectionsThere
      <4>1. file'.sections = [k \in 1..sections_num |-> Section(k - 1)]
        BY <1>2, <3>1
      <4>2. 1..sections_num \subseteq Nat
        OBVIOUS
      <4>3. \A k \in 1..sections_num : /\ Section(k - 1).addr \in Nat /\ Section(k - 1).dsize \in Nat
                                       /\ Section(k - 1).offset \in Nat
        BY <1>1, <3>1, SectionTyped
      <4>4. QED BY <4>1, <4>2, <4>3
    <3>2. CASE ~SectionsThere
      BY <1>2, <3>2
    <3>3. QED BY <3>1, <3>2
  <2>4. QED BY <2>1, <2>2, <2>3 DEF WellFormed
<1>5. Fresh'
  BY <1>1 DEF Fresh
<1>6. TablesSound'
  BY <1>4, <1>5, FreshAgain
<1>7. OpenInv' /\ LoadInv'
  BY <1>1, StepOpen, StepLoadInv
<1>8. QED BY <1>1, <1>6, <1>7 DEF AllInv

\* The strengthening holds of the reading of headers and tables, and of the call.
LEMMA InitAllInv == InitAll => AllInv
<1>1. InitAll => OpenInit /\ Init /\ LoadInit /\ Fresh
  BY DEF InitAll, Init, Fresh
<1>2. QED BY <1>1, InitOpen, InitSound, InitLoadInv DEF AllInv

\* Every step of either keeps it.
LEMMA StepAllInv ==
  AllInv /\ [NextAll]_<<follows, begun, vars, openVars, loadVars>> => AllInv'
<1> SUFFICES ASSUME AllInv, [NextAll]_<<follows, begun, vars, openVars, loadVars>> PROVE AllInv'
  OBVIOUS
<1>1. CASE Begin /\ UNCHANGED <<follows, loadVars>>
  BY <1>1, BeginKeeps
<1>2. CASE OpenNext /\ UNCHANGED <<follows, begun, vars, loadVars>>
  <2>1. OpenInv' /\ TablesSound' /\ LoadInv'
    BY <1>2, StepOpen, StepSound, StepLoadInv DEF AllInv
  <2>2. ~begun' => Fresh'
    BY <1>2 DEF AllInv, Fresh, vars
  <2>3. QED BY <2>1, <2>2 DEF AllInv
<1>3. CASE begun /\ Next /\ UNCHANGED <<follows, begun, openVars, loadVars>>
  <2>1. OpenInv' /\ TablesSound' /\ LoadInv'
    BY <1>3, StepOpen, StepSound, StepLoadInv DEF AllInv
  <2>2. QED BY <1>3, <2>1 DEF AllInv
<1>4. CASE LoadNext /\ UNCHANGED <<follows, begun, vars, openVars>>
  <2>1. OpenInv' /\ TablesSound' /\ LoadInv'
    BY <1>4, StepOpen, StepSound, StepLoadInv DEF AllInv
  <2>2. ~begun' => Fresh'
    BY <1>4 DEF AllInv, Fresh, vars
  <2>3. QED BY <2>1, <2>2 DEF AllInv
<1>5. CASE UNCHANGED <<follows, begun, vars, openVars, loadVars>>
  <2>1. OpenInv' /\ TablesSound' /\ LoadInv'
    BY <1>5, StepOpen, StepSound, StepLoadInv DEF AllInv
  <2>2. ~begun' => Fresh'
    BY <1>5 DEF AllInv, Fresh, vars
  <2>3. QED BY <2>1, <2>2 DEF AllInv
<1>6. QED BY <1>1, <1>2, <1>3, <1>4, <1>5 DEF NextAll

\* The strengthening is inductive: what the headers say makes a file that the readers of
\* the tables can be trusted with (dump.c:35-482).
THEOREM OpenedInvariance == SpecAll => []AllInv
<1>1. QED BY InitAllInv, StepAllInv, PTL DEF SpecAll

\* In every reachable state the headers are numbers, and the tables and the call have the
\* types and bounds of theirs (dump.c, user32.c).
THEOREM TypesHold == SpecAll => []TypesOK
<1>1. LoadInv => LoadTypeOK
  BY LoadBounds
<1>2. AllInv => TypesOK
  BY <1>1 DEF AllInv, OpenInv, TablesSound, TablesInv, TypesOK
<1>3. QED BY <1>2, OpenedInvariance, PTL

\* The tables are read right in every file that opens, whatever its headers say of where
\* they are (dump.c:226-482).
THEOREM ReadAfterOpening == SpecAll => [](ExportsAsLoaded /\ ImportsPaired /\ StringsComplete)
<1>1. AllInv => ExportsAsLoaded /\ ImportsPaired /\ StringsComplete
  BY DEF AllInv, TablesSound, ImportsInv, StringsInv
<1>2. QED BY <1>1, OpenedInvariance, PTL

=============================================================================
