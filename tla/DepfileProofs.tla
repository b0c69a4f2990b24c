--------------------------- MODULE DepfileProofs ----------------------------
(***************************************************************************)
(* Proofs about depfile_build.c.  PathJoin: the path stays in its buffer and *)
(* is its beginning, for every directory, name and size.  DepfileBuild: the *)
(* text is one rule, for any number of headers and wherever the memory is. *)
(* DepfilePath: what relpath leaves of the two paths, and what follows has *)
(* room.  And the three together (DepfileMC).                              *)
(***************************************************************************)
EXTENDS DepfileMC, FiniteSetTheorems, SeqFacts

-----------------------------------------------------------------------------
(* The directory and the name are joined.                                  *)

\* What a place of the buffer can hold.
PathChars == UNION {{p[k] : k \in DOMAIN p} : p \in Dirs \cup Files}
Held == PathChars \cup {Nul, "junk"}

JoinedPath == dir \o file

JoinTypes ==
  /\ joining \in {"alloc", "cut", "copy", "done", "crash"}
  /\ dir \in Dirs /\ file \in Files
  /\ size \in Nat
  /\ dst \in Seq(Held)
  /\ lenDir \in 0..Len(dir) /\ lenFile \in 0..Len(file)

\* Between malloc and the concatenation there is a buffer of the size.
Buffered == joining \in {"cut", "copy"} => size > 0 /\ Len(dst) = size

\* Before the cut the lengths are those of the paths.
Uncut == joining \in {"alloc", "cut"} => lenDir = Len(dir) /\ lenFile = Len(file)

\* After it the two parts fit.  When anything is cut off, the rest fills the
\* buffer, and the directory loses something only when nothing of the name is left.
CutToFit ==
  joining = "copy" =>
    \/ lenDir = Len(dir) /\ lenFile = Len(file) /\ lenDir + lenFile < size
    \/ /\ lenDir + lenFile = size - 1
       /\ Len(dir) + Len(file) >= size
       /\ lenFile = 0 \/ lenDir = Len(dir)

\* A buffer that is there has its size.
Sized == dst # <<>> => Len(dst) = size

JoinInv == JoinTypes /\ Buffered /\ Uncut /\ CutToFit /\ Sized /\ Joined

-----------------------------------------------------------------------------
(* Facts about the operators.                                              *)

\* A path is a sequence of what the buffer can hold.
LEMMA PathsHeld ==
  ASSUME NEW p \in Dirs \cup Files
  PROVE  p \in Seq(Held)
<1>1. p \in Seq({p[k] : k \in DOMAIN p})
  BY JoinAssumption
<1>2. {p[k] : k \in DOMAIN p} \subseteq Held
  BY DEF Held, PathChars
<1>3. Len(p) \in Nat /\ DOMAIN p = 1..Len(p) /\ p \in [1..Len(p) -> {p[k] : k \in DOMAIN p}]
  BY <1>1
<1>4. p \in [1..Len(p) -> Held]
  BY <1>2, <1>3
<1>5. QED BY <1>3, <1>4

\* A buffer filled with one value.
LEMMA Filled ==
  ASSUME NEW v \in Held, NEW n \in Nat
  PROVE  [k \in 1..n |-> v] \in Seq(Held) /\ Len([k \in 1..n |-> v]) = n
  OBVIOUS

\* The beginning of what is in front.
LEMMA FrontPart ==
  ASSUME NEW S, NEW a \in Seq(S), NEW b \in Seq(S)
  PROVE  SubSeq(a \o b, 1, Len(a)) = a
<1>1. /\ a \o b \in Seq(S)
      /\ Len(a \o b) = Len(a) + Len(b)
      /\ \A k \in 1..(Len(a) + Len(b)) : (a \o b)[k] = IF k <= Len(a) THEN a[k] ELSE b[k - Len(a)]
  BY ConcatProperties
<1>2. Len(a) \in Nat /\ Len(b) \in Nat /\ \A k \in 1..Len(a) : a[k] \in S
  OBVIOUS
<1>3. \A k \in 1..Len(a) : k \in 1..(Len(a) + Len(b)) /\ (a \o b)[k] = a[k]
  BY <1>1, <1>2
<1>4. \A k \in 1..Len(a) : (a \o b)[k] \in S
  BY <1>2, <1>3
<1>5. /\ SubSeq(a \o b, 1, Len(a)) \in Seq(S)
      /\ Len(SubSeq(a \o b, 1, Len(a))) = IF 1 <= Len(a) THEN Len(a) - 1 + 1 ELSE 0
      /\ \A k \in 1..(Len(a) - 1 + 1) : SubSeq(a \o b, 1, Len(a))[k] = (a \o b)[1 + k - 1]
  BY <1>2, <1>4, SubSeqProperties
<1>6. /\ Len(SubSeq(a \o b, 1, Len(a))) = Len(a)
      /\ \A k \in 1..Len(a) : SubSeq(a \o b, 1, Len(a))[k] = (a \o b)[k]
  BY <1>2, <1>5
<1>7. QED BY <1>3, <1>5, <1>6, SeqEqual

\* The beginning of a sequence, element by element.
LEMMA Beginning ==
  ASSUME NEW S, NEW a \in Seq(S), NEW m \in 0..Len(a)
  PROVE  /\ SubSeq(a, 1, m) \in Seq(S)
         /\ Len(SubSeq(a, 1, m)) = m
         /\ \A k \in 1..m : SubSeq(a, 1, m)[k] = a[k]
<1>1. \A k \in 1..m : a[k] \in S
  OBVIOUS
<1>2. /\ SubSeq(a, 1, m) \in Seq(S)
      /\ Len(SubSeq(a, 1, m)) = IF 1 <= m THEN m - 1 + 1 ELSE 0
      /\ \A k \in 1..(m - 1 + 1) : SubSeq(a, 1, m)[k] = a[1 + k - 1]
  BY <1>1, SubSeqProperties
<1>3. QED BY <1>2

\* The beginning of two paths joined is made of the beginnings of both, when
\* nothing is missing of the first or nothing is there of the second.
LEMMA BeginningOfBoth ==
  ASSUME NEW S, NEW a \in Seq(S), NEW b \in Seq(S),
         NEW m \in 0..Len(a), NEW n \in 0..Len(b), n = 0 \/ m = Len(a)
  PROVE  SubSeq(a, 1, m) \o SubSeq(b, 1, n) = SubSeq(a \o b, 1, m + n)
<1> DEFINE p == SubSeq(a, 1, m)
           q == SubSeq(b, 1, n)
<1>1. /\ p \in Seq(S) /\ Len(p) = m /\ \A k \in 1..m : p[k] = a[k]
      /\ q \in Seq(S) /\ Len(q) = n /\ \A k \in 1..n : q[k] = b[k]
  BY Beginning
<1>2. /\ a \o b \in Seq(S)
      /\ Len(a \o b) = Len(a) + Len(b)
      /\ \A k \in 1..(Len(a) + Len(b)) : (a \o b)[k] = IF k <= Len(a) THEN a[k] ELSE b[k - Len(a)]
  BY ConcatProperties
<1> HIDE DEF p, q
<1>3. /\ p \o q \in Seq(S)
      /\ Len(p \o q) = m + n
      /\ \A k \in 1..(m + n) : (p \o q)[k] = IF k <= m THEN p[k] ELSE q[k - m]
  <2>1. p \in Seq(S) /\ q \in Seq(S)
    BY <1>1
  <2>2. /\ p \o q \in Seq(S)
        /\ Len(p \o q) = Len(p) + Len(q)
        /\ \A k \in 1..(Len(p) + Len(q)) : (p \o q)[k] = IF k <= Len(p) THEN p[k] ELSE q[k - Len(p)]
    BY <2>1, ConcatProperties
  <2>3. Len(p) = m /\ Len(q) = n
    BY <1>1
  <2>4. QED BY <2>2, <2>3
<1>4. Len(a) \in Nat /\ Len(b) \in Nat /\ m + n \in 0..Len(a \o b)
  BY <1>2
<1>5. /\ SubSeq(a \o b, 1, m + n) \in Seq(S)
      /\ Len(SubSeq(a \o b, 1, m + n)) = m + n
      /\ \A k \in 1..(m + n) : SubSeq(a \o b, 1, m + n)[k] = (a \o b)[k]
  BY <1>2, <1>4, Beginning
<1>6. ASSUME NEW k \in 1..(m + n)
      PROVE  (p \o q)[k] = (a \o b)[k]
  <2>1. CASE k <= m
    BY <2>1, <1>1, <1>2, <1>3, <1>4
  <2>2. CASE ~(k <= m)
    <3>1. m = Len(a) /\ k - m \in 1..n /\ k \in 1..(Len(a) + Len(b)) /\ ~(k <= Len(a))
      BY <2>2, <1>4
    <3>2. QED BY <3>1, <2>2, <1>1, <1>2, <1>3
  <2>3. QED BY <2>1, <2>2
<1>7. p \o q = SubSeq(a \o b, 1, m + n)
  BY <1>3, <1>5, <1>6, SeqEqual
<1>8. QED BY <1>7 DEF p, q

-----------------------------------------------------------------------------
(* The steps.                                                              *)

\* Before the buffer is there the paths are whole.
LEMMA Initially ==
  ASSUME JoinInit
  PROVE  JoinInv
<1>1. dir \in Seq(Held) /\ file \in Seq(Held)
  BY PathsHeld DEF JoinInit
<1>2. size \in Nat
  BY JoinAssumption DEF JoinInit
<1>3. dst \in Seq(Held) /\ (dst # <<>> => Len(dst) = size)
  <2>1. "junk" \in Held
    BY DEF Held
  <2>2. CASE dst = <<>>
    BY <2>2
  <2>3. CASE dst # <<>>
    BY <2>1, <2>3, <1>2, Filled DEF JoinInit
  <2>4. QED BY <2>2, <2>3
<1>4. QED BY <1>1, <1>2, <1>3 DEF JoinInv, JoinTypes, Buffered, Uncut, CutToFit, Sized, Joined, JoinInit

\* The allocation keeps the invariant.
LEMMA AllocateKeeps ==
  ASSUME JoinInv, Allocate
  PROVE  JoinInv'
<1>1. Room \in Nat \ {0} /\ (dst # <<>> => Room = Len(dst))
  <2>1. dst # <<>> => Len(dst) # 0
    BY DEF JoinInv, JoinTypes
  <2>2. QED BY <2>1, JoinAssumption DEF Room, JoinInv, JoinTypes, Sized, Allocate
<1>2. dst' \in Seq(Held) /\ Len(dst') = Room
  <2>1. Nul \in Held
    BY DEF Held
  <2>2. CASE dst = <<>>
    BY <2>1, <2>2, <1>1, Filled DEF Allocate
  <2>3. CASE dst # <<>>
    BY <2>3, <1>1 DEF Allocate, JoinInv, JoinTypes
  <2>4. QED BY <2>2, <2>3
<1>3. QED BY <1>1, <1>2 DEF JoinInv, JoinTypes, Buffered, Uncut, CutToFit, Sized, Joined, Allocate

\* The failed allocation keeps the invariant.
LEMMA NoMemoryKeeps ==
  ASSUME JoinInv, JoinNoMemory
  PROVE  JoinInv'
  BY DEF JoinInv, JoinTypes, Buffered, Uncut, CutToFit, Sized, Joined, JoinNoMemory

\* The cut of the two paths to the room there is keeps the invariant.
LEMMA TruncateKeeps ==
  ASSUME JoinInv, Truncate
  PROVE  JoinInv'
<1>1. /\ lenDir = Len(dir) /\ lenFile = Len(file)
      /\ Len(dir) \in Nat /\ Len(file) \in Nat
      /\ size \in Nat /\ size > 0 /\ Len(dst) = size
  BY DEF JoinInv, JoinTypes, Buffered, Uncut, Truncate
<1>2. /\ lenDir' \in 0..Len(dir) /\ lenFile' \in 0..Len(file)
      /\ \/ lenDir' = Len(dir) /\ lenFile' = Len(file) /\ lenDir' + lenFile' < size
         \/ /\ lenDir' + lenFile' = size - 1
            /\ Len(dir) + Len(file) >= size
            /\ lenFile' = 0 \/ lenDir' = Len(dir)
  BY <1>1 DEF Truncate, Fits, DirLeft, FileLeft
<1>3. QED BY <1>1, <1>2 DEF JoinInv, JoinTypes, Buffered, Uncut, CutToFit, Sized, Joined, Truncate

\* The concatenation keeps the invariant.
LEMMA ConcatenateKeeps ==
  ASSUME JoinInv, Concatenate
  PROVE  JoinInv'
<1> DEFINE both == SubSeq(dir, 1, lenDir) \o SubSeq(file, 1, lenFile)
           text == both \o <<Nul>>
           rest == SubSeq(dst, Len(text) + 1, Len(dst))
           n    == lenDir + lenFile
<1>1. /\ dir \in Seq(Held) /\ file \in Seq(Held)
      /\ lenDir \in 0..Len(dir) /\ lenFile \in 0..Len(file)
      /\ size \in Nat /\ size > 0 /\ dst \in Seq(Held) /\ Len(dst) = size
      /\ lenFile = 0 \/ lenDir = Len(dir)
      /\ n = IF Len(dir) + Len(file) < size THEN Len(dir) + Len(file) ELSE size - 1
      /\ n + 1 \in 1..size
  <2>1. dir \in Seq(Held) /\ file \in Seq(Held)
    BY PathsHeld DEF JoinInv, JoinTypes
  <2>2. Len(dir) \in Nat /\ Len(file) \in Nat
    BY <2>1
  <2>3. /\ lenDir \in 0..Len(dir) /\ lenFile \in 0..Len(file)
        /\ size \in Nat /\ size > 0 /\ dst \in Seq(Held) /\ Len(dst) = size
        /\ \/ lenDir = Len(dir) /\ lenFile = Len(file) /\ lenDir + lenFile < size
           \/ /\ lenDir + lenFile = size - 1
              /\ Len(dir) + Len(file) >= size
              /\ lenFile = 0 \/ lenDir = Len(dir)
    BY DEF JoinInv, JoinTypes, Buffered, CutToFit, Concatenate
  <2>4. CASE lenDir = Len(dir) /\ lenFile = Len(file) /\ lenDir + lenFile < size
    BY <2>2, <2>3, <2>4, <2>1
  <2>5. CASE /\ lenDir + lenFile = size - 1
             /\ Len(dir) + Len(file) >= size
             /\ lenFile = 0 \/ lenDir = Len(dir)
    BY <2>2, <2>3, <2>5, <2>1
  <2> QED
    BY <2>3, <2>4, <2>5
<1>2. /\ JoinedPath \in Seq(Held) /\ Len(JoinedPath) = Len(dir) + Len(file)
      /\ both = SubSeq(JoinedPath, 1, n)
  <2>1. /\ dir \o file \in Seq(Held)
        /\ Len(dir \o file) = Len(dir) + Len(file)
    BY <1>1, ConcatProperties
  <2>2. SubSeq(dir, 1, lenDir) \o SubSeq(file, 1, lenFile) = SubSeq(dir \o file, 1, lenDir + lenFile)
    BY <1>1, BeginningOfBoth
  <2>3. QED BY <2>1, <2>2 DEF JoinedPath
<1>3. both \in Seq(Held) /\ Len(both) = n
  <2>1. n \in 0..Len(JoinedPath)
    BY <1>1, <1>2
  <2>2. QED BY <2>1, <1>2, Beginning
<1> HIDE DEF both
<1>4. text \in Seq(Held) /\ Len(text) = n + 1
  <2>1. <<Nul>> \in Seq(Held) /\ Len(<<Nul>>) = 1
    BY DEF Held
  <2>2. n \in Nat
    BY <1>1
  <2>3. QED BY <2>1, <2>2, <1>3, ConcatProperties
<1>n. n = lenDir + lenFile
  OBVIOUS
<1> HIDE DEF text, n
<1>5. rest \in Seq(Held) /\ Len(rest) = size - (n + 1)
  <2>1. \A k \in (Len(text) + 1)..Len(dst) : dst[k] \in Held
    BY <1>1, <1>4
  <2>2. /\ rest \in Seq(Held)
        /\ Len(rest) = IF Len(text) + 1 <= Len(dst) THEN Len(dst) - (Len(text) + 1) + 1 ELSE 0
    <3>1. Len(text) + 1 \in Int /\ Len(dst) \in Int
      BY <1>1, <1>4
    <3>2. QED BY <2>1, <3>1, SubSeqProperties DEF rest
  <2>3. Len(text) \in Nat /\ Len(text) <= Len(dst) /\ Len(dst) = size /\ Len(text) = n + 1
    BY <1>1, <1>4
  <2>4. QED BY <2>2, <2>3
<1> HIDE DEF rest
<1>6. dst' = text \o rest /\ joining' = "done"
      /\ UNCHANGED <<dir, file, size, lenDir, lenFile>>
  BY DEF Concatenate, text, rest, both
<1>7. /\ dst' \in Seq(Held) /\ Len(dst') = size
      /\ SubSeq(dst', 1, n + 1) = text
  <2>1. text \o rest \in Seq(Held) /\ Len(text \o rest) = Len(text) + Len(rest)
    BY <1>4, <1>5, ConcatProperties
  <2>2. SubSeq(text \o rest, 1, Len(text)) = text
    BY <1>4, <1>5, FrontPart
  <2>3. n \in Int
    BY <1>1, <1>n
  <2>4. Len(text) + Len(rest) = size
    <3>1. size \in Int /\ Len(text) = n + 1 /\ Len(rest) = size - (n + 1)
      BY <1>1, <1>4, <1>5
    <3>2. QED BY <2>3, <3>1
  <2>5. dst' \in Seq(Held) /\ Len(dst') = size
    BY <2>1, <2>4, <1>6
  <2>6. SubSeq(dst', 1, n + 1) = text
    BY <2>2, <1>4, <1>6
  <2>7. QED BY <2>5, <2>6
<1>8. Joined'
  <2>1. text = SubSeq(JoinedPath, 1, n) \o <<Nul>>
    BY <1>2 DEF text
  <2>2. n = IF Len(JoinedPath) < size THEN Len(JoinedPath) ELSE size - 1
    BY <1>1, <1>2
  <2>3. QED BY <2>1, <2>2, <1>6, <1>7 DEF Joined, JoinedPath
<1>9. QED BY <1>1, <1>6, <1>7, <1>8 DEF JoinInv, JoinTypes, Buffered, Uncut, CutToFit, Sized

\* path_join: every state of a call satisfies the invariant.
THEOREM JoinInvariance == JoinSpec => []JoinInv
<1>1. JoinInit => JoinInv
  BY Initially
<1>2. JoinInv /\ [JoinNext]_joinVars => JoinInv'
  <2>1. JoinInv /\ UNCHANGED joinVars => JoinInv'
    BY DEF JoinInv, JoinTypes, Buffered, Uncut, CutToFit, Sized, Joined, joinVars
  <2>2. QED
    BY <2>1, AllocateKeeps, NoMemoryKeeps, TruncateKeeps, ConcatenateKeeps DEF JoinNext
<1>3. QED BY <1>1, <1>2, PTL DEF JoinSpec

\* path_join writes nothing behind its buffer and reads nothing behind the two
\* paths, for every size it is given.
THEOREM JoinTyped == JoinSpec => []JoinTypeOK
<1>1. JoinInv => JoinTypeOK
  BY DEF JoinInv, JoinTypes, Sized, JoinTypeOK
<1>2. QED BY <1>1, JoinInvariance, PTL

\* path_join returns the directory and the name behind each other, or the longest
\* beginning of that which fits with its terminator.
THEOREM PathJoined == JoinSpec => []Joined
<1>1. JoinInv => Joined
  BY DEF JoinInv
<1>2. QED BY <1>1, JoinInvariance, PTL

-----------------------------------------------------------------------------
(* The rule.                                                               *)

\* The pieces a rule can have.
RuleNames ==
  UNION {{j.source, j.target} \cup {j.headers[k] : k \in DOMAIN j.headers} : j \in Inputs}
Pieces == {Colon, Cont, End, Zero} \cup {Name(Unx(n)) : n \in RuleNames}
            \cup {Name(Rel(n)) : n \in RuleNames}

\* The positions at which a text ends a rule, and what it shows, piece by piece.
EndsOf(s)     == {k \in DOMAIN s : s[k] = End /\ (k = 1 \/ s[k - 1] # Cont)}
ShownOf(p)    == IF p.kind \in Layout THEN <<>> ELSE <<p>>
ShownParts(s) == [k \in DOMAIN s |-> ShownOf(s[k])]

\* What there is to show when k headers have been printed, and the text that shows it.
Wanted(k) == (IF in.target = NoTarget THEN <<>> ELSE <<Name(Unx(in.target))>>)
               \o <<Name(Unx(in.source))>> \o [j \in 1..k |-> Name(Rel(in.headers[j]))]
Written(t, k) ==
  /\ Shown(t) = Wanted(k)
  /\ EndsOf(t) = IF k = Len(in.headers) THEN {Len(t)} ELSE {}

\* The string is t, and there is no other block.
Holds(t) ==
  /\ string \in [data : Addresses, size : Nat] /\ string.size = Len(t)
  /\ heap = [a \in Addresses |-> IF a = string.data THEN Block(Len(t), t) ELSE NoBlock]

\* How far the text is.
SoFar(t) ==
  /\ step = "target"  => t = <<>> /\ target = in.target
  /\ step = "source"  => in.target # NoTarget /\ t = <<Name(Unx(in.target)), Colon>>
  /\ step = "headers" => Written(t, cur)
  /\ step = "done"    => Written(t, Len(in.headers))

RuleInv ==
  /\ step \in {"start", "target", "source", "headers", "done", "exit", "crash", "overrun"}
  /\ in \in Inputs /\ cur \in 0..Len(in.headers)
  /\ step \in {"start", "target", "source"} => cur = 0
  /\ step = "start" => heap = [a \in Addresses |-> NoBlock]
  /\ step \notin {"start", "crash"} => \E t \in Seq(Pieces) : Holds(t) /\ SoFar(t)

-----------------------------------------------------------------------------
(* What a text shows, and where it ends a rule.                            *)

\* The names that the rule is made of.
LEMMA InputNames ==
  ASSUME in \in Inputs
  PROVE  /\ in.headers \in Seq(RuleNames) /\ Len(in.headers) \in Nat
         /\ in.source \in RuleNames /\ in.target \in RuleNames
<1>1. in.headers \in Seq({in.headers[k] : k \in DOMAIN in.headers})
  BY BuildAssumption
<1>2. {in.headers[k] : k \in DOMAIN in.headers} \subseteq RuleNames
  BY DEF RuleNames
<1>3. in.headers \in Seq(RuleNames)
  BY <1>1, <1>2, SeqMonotonic
<1>4. Len(in.headers) \in Nat
  BY <1>3, LenProperties
<1>5. in.source \in RuleNames /\ in.target \in RuleNames
  BY DEF RuleNames
<1>6. QED BY <1>3, <1>4, <1>5

\* Names and layout are told apart by their kinds.
LEMMA PieceKinds ==
  /\ \A n : Name(n).kind \notin Layout /\ Name(n) # End /\ Name(n) # Cont
  /\ Colon.kind \in Layout /\ Cont.kind \in Layout /\ End.kind \in Layout
  /\ Colon # End /\ Cont # End /\ Colon # Cont
<1>1. \A n : Name(n).kind = "name"
  BY DEF Name
<1>2. Colon.kind = "colon" /\ Cont.kind = "cont" /\ End.kind = "end"
  BY DEF Colon, Cont, End
<1>3. QED BY <1>1, <1>2 DEF Layout

\* What a piece shows is a sequence of pieces.
LEMMA PartsTyped ==
  \A s \in Seq(Pieces) : ShownParts(s) \in Seq(Seq(Pieces)) /\ Len(ShownParts(s)) = Len(s)
<1> SUFFICES ASSUME NEW s \in Seq(Pieces)
             PROVE  ShownParts(s) \in Seq(Seq(Pieces)) /\ Len(ShownParts(s)) = Len(s)
  OBVIOUS
<1>1. PICK n \in Nat : n = Len(s) /\ DOMAIN s = 1..n
  BY LenProperties
<1>2. ASSUME NEW k \in 1..n PROVE ShownOf(s[k]) \in Seq(Pieces)
  <2>1. s[k] \in Pieces
    BY <1>1, ElementOfSeq
  <2>2. <<s[k]>> \in Seq(Pieces)
    BY <2>1, Single
  <2>3. <<>> \in Seq(Pieces)
    OBVIOUS
  <2>4. QED BY <2>2, <2>3 DEF ShownOf
<1>3. PICK f : f = ShownParts(s)
  OBVIOUS
<1>4. f \in [1..n -> Seq(Pieces)]
  BY <1>1, <1>2, <1>3 DEF ShownParts
<1>5. f \in Seq(Seq(Pieces)) /\ Len(f) = n
  BY <1>4
<1>6. QED BY <1>1, <1>3, <1>5

\* What is shown of a text is put together from what is shown of its pieces.
LEMMA ShownIs == \A s : Shown(s) = FlattenSeq(ShownParts(s))
  BY DEF Shown, ShownParts, ShownOf

\* Two texts, one after the other.
LEMMA ShownConcat ==
  \A s, t \in Seq(Pieces) : Shown(s \o t) = Shown(s) \o Shown(t)
<1> SUFFICES ASSUME NEW s \in Seq(Pieces), NEW t \in Seq(Pieces)
             PROVE  Shown(s \o t) = Shown(s) \o Shown(t)
  OBVIOUS
<1>1. PICK m \in Nat, n \in Nat : /\ m = Len(s) /\ DOMAIN s = 1..m
                                  /\ n = Len(t) /\ DOMAIN t = 1..n
  BY LenProperties
<1>2. PICK c \in Seq(Pieces) : c = s \o t
  BY ConcatProperties
<1>3. PICK a \in Seq(Seq(Pieces)) : a = ShownParts(s) /\ Len(a) = m
  BY <1>1, PartsTyped
<1>4. PICK b \in Seq(Seq(Pieces)) : b = ShownParts(t) /\ Len(b) = n
  BY <1>1, PartsTyped
<1>5. PICK e \in Seq(Seq(Pieces)) : e = ShownParts(c) /\ Len(e) = Len(c)
  BY PartsTyped
<1>6. PICK f \in Seq(Seq(Pieces)) : f = a \o b
  BY ConcatProperties
<1>7. Len(c) = m + n /\ \A k \in 1..(m + n) : c[k] = IF k <= m THEN s[k] ELSE t[k - m]
  BY <1>1, <1>2, ConcatProperties
<1>8. Len(f) = m + n /\ \A k \in 1..(m + n) : f[k] = IF k <= m THEN a[k] ELSE b[k - m]
  <2>1. m = Len(a) /\ n = Len(b)
    BY <1>3, <1>4
  <2>2. InOrder(Seq(Pieces), a \o b, a, m, b, n)
    BY <2>1, Elements
  <2>3. QED BY <1>6, <2>2 DEF InOrder
<1>9. DOMAIN c = 1..(m + n)
  BY <1>7, LenProperties
<1>10. \A k \in 1..(m + n) : e[k] = f[k]
  <2> TAKE k \in 1..(m + n)
  <2>1. e[k] = ShownOf(c[k])
    BY <1>5, <1>9 DEF ShownParts
  <2>2. CASE k <= m
    <3>1. k \in 1..m
      BY <2>2
    <3>2. a[k] = ShownOf(s[k])
      BY <1>1, <1>3, <3>1 DEF ShownParts
    <3>3. QED BY <1>7, <1>8, <2>1, <2>2, <3>2
  <2>3. CASE ~(k <= m)
    <3>1. k - m \in 1..n
      BY <2>3
    <3>2. b[k - m] = ShownOf(t[k - m])
      BY <1>1, <1>4, <3>1 DEF ShownParts
    <3>3. QED BY <1>7, <1>8, <2>1, <2>3, <3>2
  <2>4. QED BY <2>2, <2>3
<1>11. e = f
  BY <1>5, <1>6, <1>7, <1>8, <1>10, SeqEqual
<1>12. FlattenSeq(f) = FlattenSeq(a) \o FlattenSeq(b)
  BY <1>6, FlattenConcat
<1>13. QED BY <1>2, <1>3, <1>4, <1>5, <1>11, <1>12, ShownIs

\* A text of one piece.
LEMMA ShownOne == \A p \in Pieces : Shown(<<p>>) = ShownOf(p)
<1> SUFFICES ASSUME NEW p \in Pieces PROVE Shown(<<p>>) = ShownOf(p)
  OBVIOUS
<1>1. ShownParts(<<p>>) = <<ShownOf(p)>>
  BY DEF ShownParts
<1>2. PICK e \in Seq(Pieces) : e = ShownOf(p)
  <2>1. <<p>> \in Seq(Pieces) /\ <<>> \in Seq(Pieces)
    BY Single
  <2>2. QED BY <2>1 DEF ShownOf
<1>3. <<>> \in Seq(Seq(Pieces)) /\ Append(<<>>, e) = <<e>>
  OBVIOUS
<1>4. FlattenSeq(<<e>>) = FlattenSeq(<<>>) \o e
  BY <1>3, FlattenAppend
<1>5. <<>> \o e = e
  BY ConcatEmptySeq
<1>6. QED BY <1>1, <1>2, <1>4, <1>5, FlattenEmpty, ShownIs

\* A rule ends in two texts where it ends in the first, or in the second, which
\* does not begin with the end of a line.
After(m, T) == {m + k : k \in T}

\* Where a text ends its rule that is two texts, one after the other.
LEMMA EndsConcat ==
  \A s, t \in Seq(Pieces) :
    t # <<>> /\ t[1] # End => EndsOf(s \o t) = EndsOf(s) \cup After(Len(s), EndsOf(t))
<1> SUFFICES ASSUME NEW s \in Seq(Pieces), NEW t \in Seq(Pieces), t # <<>>, t[1] # End
             PROVE  EndsOf(s \o t) = EndsOf(s) \cup After(Len(s), EndsOf(t))
  OBVIOUS
<1>1. PICK m \in Nat, n \in Nat : /\ m = Len(s) /\ DOMAIN s = 1..m
                                  /\ n = Len(t) /\ DOMAIN t = 1..n
  BY LenProperties
<1>2. PICK c \in Seq(Pieces) : c = s \o t
  BY ConcatProperties
<1>3. /\ DOMAIN c = 1..(m + n)
      /\ \A k \in 1..(m + n) : c[k] = IF k <= m THEN s[k] ELSE t[k - m]
  <2>1. InOrder(Pieces, s \o t, s, m, t, n)
    BY <1>1, Elements
  <2>2. QED BY <1>2, <2>1 DEF InOrder
<1>4. n >= 1
  BY <1>1, EmptySeq
<1>5. ASSUME NEW k \in 1..m PROVE k \in EndsOf(c) <=> k \in EndsOf(s)
  <2>1. k \in 1..(m + n) /\ c[k] = s[k]
    BY <1>3
  <2>2. k # 1 => c[k - 1] = s[k - 1]
    <3>1. ASSUME k # 1 PROVE k - 1 \in 1..(m + n) /\ k - 1 <= m
      BY <3>1
    <3>2. QED BY <1>3, <3>1
  <2>3. QED BY <1>1, <1>3, <2>1, <2>2 DEF EndsOf
<1>6. ASSUME NEW k \in 1..n PROVE m + k \in EndsOf(c) <=> k \in EndsOf(t)
  <2>1. m + k \in 1..(m + n) /\ ~(m + k <= m) /\ (m + k) - m = k
    OBVIOUS
  <2>2. c[m + k] = t[k]
    BY <1>3, <2>1
  <2>3. ASSUME k # 1 PROVE c[(m + k) - 1] = t[k - 1]
    <3>1. (m + k) - 1 \in 1..(m + n) /\ ~((m + k) - 1 <= m) /\ ((m + k) - 1) - m = k - 1
      BY <2>3
    <3>2. QED BY <1>3, <3>1
  <2>4. k = 1 => k \notin EndsOf(t) /\ m + k \notin EndsOf(c)
    BY <2>2 DEF EndsOf
  <2>5. k # 1 => m + k # 1
    OBVIOUS
  <2>6. QED BY <1>1, <1>3, <2>1, <2>2, <2>3, <2>4, <2>5 DEF EndsOf
<1>7. EndsOf(c) \subseteq 1..(m + n) /\ EndsOf(s) \subseteq 1..m /\ EndsOf(t) \subseteq 1..n
  BY <1>1, <1>3 DEF EndsOf
<1>8. ASSUME NEW k \in EndsOf(c) PROVE k \in EndsOf(s) \cup After(m, EndsOf(t))
  <2>1. CASE k <= m
    <3>1. k \in 1..m
      BY <1>7, <2>1
    <3>2. QED BY <1>5, <3>1
  <2>2. CASE ~(k <= m)
    <3>1. k - m \in 1..n /\ k = m + (k - m)
      BY <1>7, <2>2
    <3>2. k - m \in EndsOf(t)
      BY <1>6, <3>1
    <3>3. QED BY <3>1, <3>2 DEF After
  <2>3. QED BY <2>1, <2>2
<1>9. ASSUME NEW k \in EndsOf(t) PROVE m + k \in EndsOf(c)
  BY <1>6, <1>7
<1>10. EndsOf(s) \subseteq EndsOf(c)
  BY <1>5, <1>7
<1>11. EndsOf(c) = EndsOf(s) \cup After(m, EndsOf(t))
  BY <1>8, <1>9, <1>10 DEF After
<1>12. QED BY <1>1, <1>2, <1>11

\* A name, with a colon or without, then a continuation or none, then the line end.
Opens(u, p) == u = <<p>> \/ u = <<p, Colon>>
Goes(m)     == m = <<>> \/ m = <<Cont>>

\* What there is to say of such a line t.
Line(t, p, m) ==
  /\ t \in Seq(Pieces) /\ t # <<>> /\ t[1] # End
  /\ Shown(t) = <<p>>
  /\ EndsOf(t) = IF m = <<>> THEN {Len(t)} ELSE {}

\* The layout is made of pieces.
LEMMA Fixed == Colon \in Pieces /\ Cont \in Pieces /\ End \in Pieces
  BY DEF Pieces

\* What stands in front of a line's continuation.
LEMMA OpensSays ==
  ASSUME NEW n, Name(n) \in Pieces, NEW u, Opens(u, Name(n))
  PROVE  /\ u \in Seq(Pieces) /\ Len(u) \in 1..2 /\ DOMAIN u = 1..Len(u) /\ u # <<>>
         /\ Shown(u) = <<Name(n)>> /\ u[1] = Name(n)
         /\ \A k \in 1..Len(u) : u[k] # End /\ u[k] # Cont
         /\ EndsOf(u) = {}
<1> DEFINE p == Name(n)
<1>1. p.kind \notin Layout /\ p # End /\ p # Cont
  BY PieceKinds
<1>2. Shown(<<p>>) = <<p>> /\ Shown(<<Colon>>) = <<>> /\ <<p>> \in Seq(Pieces) /\ <<Colon>> \in Seq(Pieces)
  BY <1>1, ShownOne, PieceKinds, Fixed, Single DEF ShownOf
<1>3. CASE u = <<p>>
  <2>1. u \in Seq(Pieces) /\ Len(u) = 1 /\ DOMAIN u = 1..1 /\ u[1] = p /\ u # <<>>
    BY <1>3
  <2>2. QED BY <1>1, <1>2, <1>3, <2>1 DEF EndsOf
<1>4. CASE u = <<p, Colon>>
  <2>1. /\ u \in Seq(Pieces) /\ Len(u) = 2 /\ DOMAIN u = 1..2 /\ u[1] = p /\ u[2] = Colon
        /\ u # <<>>
    BY <1>4, Fixed
  <2>2. u = <<p>> \o <<Colon>>
    BY <1>4, PairIs, Fixed
  <2>3. Shown(u) = Shown(<<p>>) \o Shown(<<Colon>>)
    BY <1>2, <2>2, ShownConcat
  <2>4. <<p>> \o <<>> = <<p>>
    BY <1>2, ConcatEmptySeq
  <2>5. Shown(u) = <<p>>
    BY <1>2, <2>3, <2>4
  <2>6. \A k \in 1..2 : u[k] # End /\ u[k] # Cont
    BY <1>1, <2>1, PieceKinds
  <2>7. EndsOf(u) = {}
    BY <2>1, <2>6 DEF EndsOf
  <2>8. QED BY <2>1, <2>5, <2>6, <2>7
<1>5. QED BY <1>3, <1>4 DEF Opens

\* A line of the rule shows its name, and ends nothing before its own end.
LEMMA LineSays ==
  \A n, u, m : Name(n) \in Pieces /\ Opens(u, Name(n)) /\ Goes(m)
                 => Line(u \o m \o <<End>>, Name(n), m)
<1> SUFFICES ASSUME NEW n, NEW u, NEW m, Name(n) \in Pieces, Opens(u, Name(n)), Goes(m)
             PROVE  Line(u \o m \o <<End>>, Name(n), m)
  OBVIOUS
<1>1. PICK l \in 1..2 : l = Len(u) /\ DOMAIN u = 1..l
  BY OpensSays
<1>2. /\ u \in Seq(Pieces) /\ Shown(u) = <<Name(n)>> /\ u[1] = Name(n)
      /\ \A k \in 1..l : u[k] # End /\ u[k] # Cont
  BY <1>1, OpensSays
<1>3. PICK q \in 0..1 : q = Len(m) /\ (q = 0 <=> m = <<>>) /\ (q = 1 => m[1] = Cont)
  BY DEF Goes
<1>4. m \in Seq(Pieces) /\ Shown(m) = <<>>
  <2>1. <<>> \in Seq(Pieces) /\ <<Cont>> \in Seq(Pieces)
    BY Fixed, Single
  <2>2. Shown(<<Cont>>) = <<>>
    BY ShownOne, Fixed, PieceKinds DEF ShownOf
  <2>3. Shown(<<>>) = <<>>
    <3>1. ShownParts(<<>>) = <<>>
      BY DEF ShownParts
    <3>2. QED BY <3>1, FlattenEmpty, ShownIs
  <2>4. QED BY <2>1, <2>2, <2>3 DEF Goes
<1>5. PICK a \in Seq(Pieces) : a = u \o m
  BY <1>2, <1>4, ConcatProperties
<1>6. PICK z \in Seq(Pieces) : z = <<End>> /\ Len(z) = 1 /\ z[1] = End
  <2>1. <<End>> \in Seq(Pieces)
    BY Fixed, Single
  <2>2. QED BY <2>1
<1>7. PICK t \in Seq(Pieces) : t = a \o z
  BY ConcatProperties
<1>8. /\ Len(a) = l + q
      /\ \A k \in 1..(l + q) : a[k] = IF k <= l THEN u[k] ELSE m[k - l]
  <2>1. InOrder(Pieces, u \o m, u, l, m, q)
    BY <1>1, <1>2, <1>3, <1>4, Elements
  <2>2. QED BY <1>5, <2>1 DEF InOrder
<1>9. PICK e \in Nat : e = l + q
  OBVIOUS
<1>10. /\ Len(t) = e + 1 /\ DOMAIN t = 1..(e + 1)
       /\ \A k \in 1..(e + 1) : t[k] = IF k <= e THEN a[k] ELSE z[k - e]
  <2>1. e = Len(a) /\ 1 = Len(z) /\ 1 \in Nat
    BY <1>6, <1>8, <1>9
  <2>2. InOrder(Pieces, a \o z, a, e, z, 1)
    BY <2>1, Elements
  <2>3. QED BY <1>7, <2>2 DEF InOrder
<1>11. \A k \in 1..e : a[k] # End
  <2> TAKE k \in 1..e
  <2>1. CASE k <= l
    <3>1. k \in 1..l /\ k \in 1..(l + q)
      BY <1>9, <2>1
    <3>2. QED BY <1>2, <1>8, <2>1, <3>1
  <2>2. CASE ~(k <= l)
    <3>1. q = 1 /\ k - l = 1 /\ k \in 1..(l + q)
      BY <1>9, <2>2
    <3>2. QED BY <1>3, <1>8, <2>2, <3>1, PieceKinds
  <2>3. QED BY <2>1, <2>2
<1>12. a[e] = Cont <=> q = 1
  <2>1. CASE q = 0
    <3>1. e = l /\ e \in 1..(l + q) /\ e <= l
      BY <1>9, <2>1
    <3>2. QED BY <1>2, <1>8, <2>1, <3>1
  <2>2. CASE q = 1
    <3>1. e - l = 1 /\ e \in 1..(l + q) /\ ~(e <= l)
      BY <1>9, <2>2
    <3>2. QED BY <1>3, <1>8, <2>2, <3>1
  <2>3. QED BY <2>1, <2>2
<1>13. \A k \in 1..e : t[k] = a[k]
  BY <1>10
<1>14. t[e + 1] = End
  <2>1. e + 1 \in 1..(e + 1) /\ ~(e + 1 <= e) /\ (e + 1) - e = 1
    OBVIOUS
  <2>2. QED BY <1>6, <1>10, <2>1
<1>15. e >= 1 /\ e + 1 # 1 /\ (e + 1) - 1 = e /\ e \in 1..e
  BY <1>9
<1>16. EndsOf(t) = IF m = <<>> THEN {Len(t)} ELSE {}
  <2>1. \A k \in 1..e : k \notin EndsOf(t)
    BY <1>11, <1>13 DEF EndsOf
  <2>2. EndsOf(t) \subseteq {e + 1}
    <3>1. EndsOf(t) \subseteq 1..(e + 1)
      BY <1>10 DEF EndsOf
    <3>2. \A k \in 1..(e + 1) : k \in 1..e \/ k = e + 1
      OBVIOUS
    <3>3. QED BY <2>1, <3>1, <3>2
  <2>3. e + 1 \in EndsOf(t) <=> q = 0
    <3>1. e + 1 \in DOMAIN t
      BY <1>10
    <3>2. e + 1 \in EndsOf(t) <=> t[e] # Cont
      BY <1>14, <1>15, <3>1 DEF EndsOf
    <3>3. t[e] = a[e]
      BY <1>13, <1>15
    <3>4. QED BY <1>12, <3>2, <3>3
  <2>4. QED BY <1>3, <1>10, <2>2, <2>3
<1>17. Shown(t) = <<Name(n)>>
  <2>1. Shown(z) = <<>>
    BY <1>6, ShownOne, Fixed, PieceKinds DEF ShownOf
  <2>2. Shown(a) = Shown(u) \o Shown(m)
    BY <1>2, <1>4, <1>5, ShownConcat
  <2>3. Shown(t) = Shown(a) \o Shown(z)
    BY <1>7, ShownConcat
  <2>4. <<Name(n)>> \o <<>> = <<Name(n)>>
    BY Single, ConcatEmptySeq
  <2>5. QED BY <1>2, <1>4, <2>1, <2>2, <2>3, <2>4
<1>18. t # <<>> /\ t[1] # End
  <2>1. t[1] = a[1] /\ a[1] # End
    BY <1>11, <1>13, <1>15
  <2>2. QED BY <1>10, <1>15, <2>1, EmptySeq
<1>19. Line(t, Name(n), m)
  BY <1>16, <1>17, <1>18 DEF Line
<1>20. QED BY <1>5, <1>6, <1>7, <1>19

-----------------------------------------------------------------------------
(* The string.                                                             *)

\* string_append puts the text behind what there is, wherever the block goes.
LEMMA AppendHolds ==
  ASSUME NEW t \in Seq(Pieces), NEW u \in Seq(Pieces), Holds(t), StringAppend(u)
  PROVE  Holds(t \o u)'
<1>1. PICK m \in Nat, n \in Nat : m = Len(t) /\ n = Len(u)
  BY LenProperties
<1>2. PICK c \in Seq(Pieces) : c = t \o u
  BY ConcatProperties
<1>3. Len(c) = m + n /\ DOMAIN c = 1..(m + n)
      /\ \A k \in 1..(m + n) : c[k] = IF k <= m THEN t[k] ELSE u[k - m]
  <2>1. InOrder(Pieces, t \o u, t, m, u, n)
    BY <1>1, Elements
  <2>2. QED BY <1>2, <2>1 DEF InOrder
<1>4. PICK blk \in Addresses : string = [data |-> blk, size |-> m]
  BY <1>1 DEF Holds
<1>5. /\ heap = [a \in Addresses |-> IF a = blk THEN Block(m, t) ELSE NoBlock]
      /\ heap[blk] = Block(m, t)
  BY <1>1, <1>4 DEF Holds
<1>6. Unused \subseteq Addresses
  BY DEF Unused
<1>70. string.data = blk /\ string.size = m
  BY <1>4
<1>71. PICK b \in Unused \cup {string.data} :
        /\ heap' = [heap EXCEPT
             ![string.data] = NoBlock,
             ![b] = Block(string.size + Len(u),
                          [k \in 1..(string.size + Len(u)) |->
                             IF k > string.size THEN u[k - string.size]
                             ELSE Cleared(heap[string.data], string.size + Len(u))[k]])]
        /\ string' = [data |-> b, size |-> string.size + Len(u)]
  BY DEF StringAppend
<1>7. /\ b \in Unused \cup {blk}
      /\ heap' = [heap EXCEPT
           ![blk] = NoBlock,
           ![b] = Block(m + n, [k \in 1..(m + n) |-> IF k > m THEN u[k - m]
                                                     ELSE Cleared(heap[blk], m + n)[k]])]
      /\ string' = [data |-> b, size |-> m + n]
  BY <1>1, <1>70, <1>71, Zenon
<1>8. [k \in 1..(m + n) |-> IF k > m THEN u[k - m] ELSE Cleared(heap[blk], m + n)[k]] = c
  <2>1. ASSUME NEW k \in 1..(m + n)
        PROVE  (IF k > m THEN u[k - m] ELSE Cleared(heap[blk], m + n)[k]) = c[k]
    <3>1. CASE k > m
      BY <1>3, <3>1
    <3>2. CASE ~(k > m)
      <4>1. k <= m
        BY <3>2
      <4>2. Cleared(heap[blk], m + n)[k] = IF k <= heap[blk].size THEN heap[blk].bytes[k] ELSE Zero
        BY DEF Cleared
      <4>3. heap[blk].size = m /\ heap[blk].bytes = t
        BY <1>5 DEF Block
      <4>4. QED BY <1>3, <3>2, <4>1, <4>2, <4>3
    <3>3. QED BY <3>1, <3>2
  <2>2. c = [k \in 1..(m + n) |-> c[k]]
    BY <1>3
  <2>3. QED BY <2>1, <2>2
<1>9. heap' = [heap EXCEPT ![blk] = NoBlock, ![b] = Block(m + n, c)]
  BY <1>7, <1>8
<1>10. heap' = [a \in Addresses |-> IF a = b THEN Block(m + n, c) ELSE NoBlock]
  BY <1>5, <1>6, <1>9
<1>11. b \in Addresses
  BY <1>6, <1>7
<1>12. Holds(c)'
  <2>1. string' \in [data : Addresses, size : Nat] /\ string'.size = Len(c) /\ string'.data = b
    BY <1>3, <1>7, <1>11
  <2>2. QED BY <1>3, <1>10, <2>1 DEF Holds
<1>13. QED BY <1>2, <1>12

\* What is to be shown is made of pieces, one more with each header.
LEMMA WantedTyped ==
  ASSUME in \in Inputs, NEW k \in 0..Len(in.headers)
  PROVE  Wanted(k) \in Seq(Pieces)
<1> DEFINE hs == [j \in 1..k |-> Name(Rel(in.headers[j]))]
           a  == IF in.target = NoTarget THEN <<>> ELSE <<Name(Unx(in.target))>>
<1>1. k \in Nat /\ \A j \in 1..k : in.headers[j] \in RuleNames
  <2>1. Len(in.headers) \in Nat
    BY InputNames
  <2>2. \A j \in 1..k : j \in 1..Len(in.headers)
    BY <2>1
  <2>3. QED BY <2>1, <2>2, InputNames, ElementOfSeq
<1>2. hs \in [1..k -> Pieces]
  BY <1>1 DEF Pieces
<1>3. hs \in Seq(Pieces)
  BY <1>1, <1>2
<1>4. Name(Unx(in.target)) \in Pieces /\ Name(Unx(in.source)) \in Pieces
  BY InputNames DEF Pieces
<1>5. a \in Seq(Pieces) /\ <<Name(Unx(in.source))>> \in Seq(Pieces)
  BY <1>4, Single
<1>6. a \o <<Name(Unx(in.source))>> \in Seq(Pieces)
  BY <1>5, ConcatProperties
<1>7. (a \o <<Name(Unx(in.source))>>) \o hs \in Seq(Pieces)
  <2> HIDE DEF hs, a
  <2> QED BY <1>3, <1>6, ConcatProperties
<1>8. QED BY <1>7 DEF Wanted

\* The names wanted, with one header more.
LEMMA WantedMore ==
  ASSUME in \in Inputs, NEW k \in 0..(Len(in.headers) - 1)
  PROVE  Wanted(k + 1) = Wanted(k) \o <<Name(Rel(in.headers[k + 1]))>>
<1>1. PICK n \in Nat : n = Len(in.headers)
  BY InputNames
<1>2. k \in Nat /\ k + 1 \in 1..n
  BY <1>1
<1>3. \A j \in 1..(k + 1) : Name(Rel(in.headers[j])) \in Pieces
  <2>1. \A j \in 1..(k + 1) : j \in 1..Len(in.headers)
    BY <1>1, <1>2
  <2>2. \A j \in 1..(k + 1) : in.headers[j] \in RuleNames
    BY <2>1, InputNames, ElementOfSeq
  <2>3. QED BY <2>2 DEF Pieces
<1>4. PICK x \in Pieces : x = Name(Rel(in.headers[k + 1]))
  BY <1>2, <1>3
<1>5. PICK p \in Seq(Pieces) : p = [j \in 1..k |-> Name(Rel(in.headers[j]))] /\ Len(p) = k
  <2>1. PICK f : f = [j \in 1..k |-> Name(Rel(in.headers[j]))]
    OBVIOUS
  <2>2. f \in [1..k -> Pieces]
    BY <1>2, <1>3, <2>1
  <2>3. f \in Seq(Pieces) /\ Len(f) = k
    BY <1>2, <2>2
  <2>4. QED BY <2>1, <2>3
<1>6. PICK q \in Seq(Pieces) : q = [j \in 1..(k + 1) |-> Name(Rel(in.headers[j]))] /\ Len(q) = k + 1
  <2>1. PICK f : f = [j \in 1..(k + 1) |-> Name(Rel(in.headers[j]))]
    OBVIOUS
  <2>2. f \in [1..(k + 1) -> Pieces]
    BY <1>2, <1>3, <2>1
  <2>3. f \in Seq(Pieces) /\ Len(f) = k + 1
    BY <1>2, <2>2
  <2>4. QED BY <2>1, <2>3
<1>7. PICK z \in Seq(Pieces) : z = <<x>> /\ Len(z) = 1 /\ z[1] = x
  <2>1. <<x>> \in Seq(Pieces)
    BY Single
  <2>2. QED BY <2>1
<1>8. PICK c \in Seq(Pieces) : c = p \o z
  BY ConcatProperties
<1>9. Len(c) = k + 1 /\ \A j \in 1..(k + 1) : c[j] = IF j <= k THEN p[j] ELSE z[j - k]
  <2>1. k = Len(p) /\ 1 = Len(z) /\ 1 \in Nat
    BY <1>5, <1>7
  <2>2. InOrder(Pieces, p \o z, p, k, z, 1)
    BY <1>2, <2>1, Elements
  <2>3. QED BY <1>8, <2>2 DEF InOrder
<1>10. \A j \in 1..(k + 1) : q[j] = c[j]
  <2> TAKE j \in 1..(k + 1)
  <2>1. q[j] = Name(Rel(in.headers[j]))
    BY <1>6
  <2>2. CASE j <= k
    <3>1. j \in 1..k
      BY <1>2, <2>2
    <3>2. p[j] = Name(Rel(in.headers[j]))
      BY <1>5, <3>1
    <3>3. QED BY <1>9, <2>1, <2>2, <3>2
  <2>3. CASE ~(j <= k)
    <3>1. j = k + 1 /\ j - k = 1
      BY <1>2, <2>3
    <3>2. QED BY <1>4, <1>7, <1>9, <2>1, <2>3, <3>1
  <2>4. QED BY <2>2, <2>3
<1>11. q = c
  BY <1>6, <1>9, <1>10, SeqEqual
<1>12. PICK a \in Seq(Pieces) :
         a = (IF in.target = NoTarget THEN <<>> ELSE <<Name(Unx(in.target))>>) \o <<Name(Unx(in.source))>>
  <2>1. Name(Unx(in.target)) \in Pieces /\ Name(Unx(in.source)) \in Pieces
    BY InputNames DEF Pieces
  <2>2. /\ <<Name(Unx(in.target))>> \in Seq(Pieces) /\ <<Name(Unx(in.source))>> \in Seq(Pieces)
        /\ <<>> \in Seq(Pieces)
    BY <2>1, Single
  <2>3. QED BY <2>2, ConcatProperties
<1>13. Wanted(k) = a \o p /\ Wanted(k + 1) = a \o q
  BY <1>5, <1>6, <1>12 DEF Wanted
<1>14. (a \o p) \o z = a \o (p \o z)
  BY Associative
<1>15. QED BY <1>4, <1>7, <1>8, <1>11, <1>13, <1>14

\* A header's line after what has been written.
LEMMA WrittenMore ==
  ASSUME in \in Inputs, NEW k \in 0..(Len(in.headers) - 1), NEW t \in Seq(Pieces), Written(t, k),
         NEW u, NEW m, Line(u, Name(Rel(in.headers[k + 1])), m),
         m = <<>> <=> k + 1 = Len(in.headers)
  PROVE  Written(t \o u, k + 1)
<1>1. PICK n \in Nat : n = Len(in.headers)
  BY InputNames
<1>2. Shown(t \o u) = Wanted(k + 1)
  <2>1. u \in Seq(Pieces) /\ Shown(u) = <<Name(Rel(in.headers[k + 1]))>>
    BY DEF Line
  <2>2. Shown(t \o u) = Shown(t) \o Shown(u)
    BY <2>1, ShownConcat
  <2>3. QED BY <2>1, <2>2, WantedMore DEF Written
<1>3. EndsOf(t) = {}
  BY <1>1 DEF Written
<1>4. EndsOf(t \o u) = After(Len(t), EndsOf(u))
  <2>1. u \in Seq(Pieces) /\ u # <<>> /\ u[1] # End
    BY DEF Line
  <2>2. EndsOf(t \o u) = EndsOf(t) \cup After(Len(t), EndsOf(u))
    BY <2>1, EndsConcat
  <2>3. QED BY <1>3, <2>2
<1>5. Len(t \o u) = Len(t) + Len(u)
  BY ConcatProperties DEF Line
<1>6. EndsOf(t \o u) = IF k + 1 = Len(in.headers) THEN {Len(t \o u)} ELSE {}
  BY <1>4, <1>5 DEF Line, After
<1>7. QED BY <1>2, <1>6 DEF Written

\* The first line: the target, or the source in its place, and the source.
LEMMA WrittenFirst ==
  ASSUME in \in Inputs, NEW t \in Seq(Pieces), NEW u, NEW m, Line(u, Name(Unx(in.source)), m),
         Shown(t) = IF in.target = NoTarget THEN <<>> ELSE <<Name(Unx(in.target))>>,
         EndsOf(t) = {}, m = <<>> <=> Len(in.headers) = 0
  PROVE  Written(t \o u, 0)
<1>1. PICK n \in Nat : n = Len(in.headers)
  BY InputNames
<1>2. u \in Seq(Pieces) /\ Shown(u) = <<Name(Unx(in.source))>>
  BY DEF Line
<1>3. PICK a \in Seq(Pieces) : a = Shown(t) \o Shown(u)
  <2>1. Shown(t) \in Seq(Pieces) /\ Shown(u) \in Seq(Pieces)
    BY <1>2, PartsTyped, FlattenType, ShownIs
  <2>2. QED BY <2>1, ConcatProperties
<1>4. Wanted(0) = a \o <<>>
  <2>1. [j \in 1..0 |-> Name(Rel(in.headers[j]))] = <<>>
    OBVIOUS
  <2>2. QED BY <1>2, <1>3, <2>1 DEF Wanted
<1>5. Shown(t \o u) = Wanted(0)
  BY <1>2, <1>3, <1>4, ShownConcat, ConcatEmptySeq
<1>6. EndsOf(t \o u) = After(Len(t), EndsOf(u))
  <2>1. u \in Seq(Pieces) /\ u # <<>> /\ u[1] # End
    BY DEF Line
  <2>2. EndsOf(t \o u) = EndsOf(t) \cup After(Len(t), EndsOf(u))
    BY <2>1, EndsConcat
  <2>3. QED BY <2>2
<1>7. Len(t \o u) = Len(t) + Len(u)
  BY ConcatProperties DEF Line
<1>8. EndsOf(t \o u) = IF 0 = Len(in.headers) THEN {Len(t \o u)} ELSE {}
  BY <1>6, <1>7 DEF Line, After
<1>9. QED BY <1>5, <1>8 DEF Written

-----------------------------------------------------------------------------
(* The steps.                                                              *)

\* Every rule that is begun has it.
LEMMA InitRuleInv == BuildInit => RuleInv
<1> SUFFICES ASSUME BuildInit PROVE RuleInv
  OBVIOUS
<1>1. step = "start" /\ in \in Inputs /\ cur = 0 /\ heap = [a \in Addresses |-> NoBlock]
  BY DEF BuildInit
<1>2. Len(in.headers) \in Nat
  BY <1>1, InputNames
<1>3. QED BY <1>1, <1>2 DEF RuleInv

\* Begin keeps it.
LEMMA BeginInv == ASSUME RuleInv, Begin PROVE RuleInv'
<1>1. /\ step' = "target" /\ in' = in /\ cur' = cur /\ target' = in.target
      /\ heap = [a \in Addresses |-> NoBlock]
      /\ cur \in 0..Len(in.headers) /\ in \in Inputs /\ cur = 0
  BY DEF RuleInv, Begin
<1>2. PICK a \in Addresses : /\ heap' = [heap EXCEPT ![a] = Block(0, <<>>)]
                             /\ string' = [data |-> a, size |-> 0]
  BY DEF Begin
<1>3. heap' = [b \in Addresses |-> IF b = a THEN Block(0, <<>>) ELSE NoBlock]
  BY <1>1, <1>2
<1>4. <<>> \in Seq(Pieces) /\ Len(<<>>) = 0
  OBVIOUS
<1>5. Holds(<<>>)'
  <2>1. string'.data = a /\ string'.size = 0 /\ string' \in [data : Addresses, size : Nat]
    BY <1>2
  <2>2. QED BY <1>3, <1>4, <2>1 DEF Holds
<1>6. SoFar(<<>>)'
  BY <1>1 DEF SoFar
<1>7. QED BY <1>1, <1>4, <1>5, <1>6 DEF RuleInv

\* The texts that are appended.
LEMMA MoreGoes == ASSUME in \in Inputs PROVE Goes(More) /\ (More = <<>> <=> Len(in.headers) = 0)
<1>1. Len(in.headers) \in Nat
  BY InputNames
<1>2. <<Cont>> # <<>>
  OBVIOUS
<1>3. QED BY <1>1, <1>2 DEF More, Goes

\* SourceAlone keeps it.
LEMMA SourceAloneInv == ASSUME RuleInv, SourceAlone PROVE RuleInv'
<1>1. /\ step = "target" /\ target = NoTarget /\ step' = "headers" /\ in' = in /\ cur' = cur
      /\ target' = Unx(in.source) /\ in \in Inputs /\ cur = 0
      /\ StringAppend(<<Name(target'), Colon>> \o More \o <<End>>)
  BY DEF RuleInv, SourceAlone
<1>2. PICK t \in Seq(Pieces) : Holds(t) /\ SoFar(t)
  BY <1>1 DEF RuleInv
<1>3. t = <<>> /\ in.target = NoTarget
  BY <1>1, <1>2 DEF SoFar
<1>4. Name(Unx(in.source)) \in Pieces
  BY <1>1, InputNames DEF Pieces
<1>5. Line(<<Name(Unx(in.source)), Colon>> \o More \o <<End>>, Name(Unx(in.source)), More)
  BY <1>1, <1>4, LineSays, MoreGoes DEF Opens
<1>6. PICK u \in Seq(Pieces) : u = <<Name(Unx(in.source)), Colon>> \o More \o <<End>>
  BY <1>5 DEF Line
<1>7. Line(u, Name(Unx(in.source)), More)
  BY <1>5, <1>6
<1>8. StringAppend(u)
  BY <1>1, <1>6
<1>9. Holds(t \o u)'
  BY <1>2, <1>8, AppendHolds
<1>10. Shown(t) = <<>> /\ EndsOf(t) = {}
  <2>1. ShownParts(<<>>) = <<>> /\ EndsOf(<<>>) = {}
    BY DEF ShownParts, EndsOf
  <2>2. QED BY <1>3, <2>1, FlattenEmpty, ShownIs
<1>11. Written(t \o u, 0)
  BY <1>1, <1>3, <1>7, <1>10, WrittenFirst, MoreGoes
<1>12. PICK c \in Seq(Pieces) : c = t \o u
  BY ConcatProperties
<1>13. Written(c, 0)'
  BY <1>1, <1>11, <1>12 DEF Written, Wanted
<1>14. SoFar(c)'
  BY <1>1, <1>13 DEF SoFar
<1>15. Len(in.headers) \in Nat
  BY <1>1, InputNames
<1>16. QED BY <1>1, <1>9, <1>12, <1>14, <1>15 DEF RuleInv

\* TargetText keeps it.
LEMMA TargetTextInv == ASSUME RuleInv, TargetText PROVE RuleInv'
<1>1. /\ step = "target" /\ target # NoTarget /\ step' = "source" /\ in' = in /\ cur' = cur
      /\ target' = Unx(target) /\ in \in Inputs /\ cur = 0
      /\ StringAppend(<<Name(target'), Colon>>)
  BY DEF RuleInv, TargetText
<1>2. PICK t \in Seq(Pieces) : Holds(t) /\ SoFar(t)
  BY <1>1 DEF RuleInv
<1>3. t = <<>> /\ in.target # NoTarget /\ target = in.target
  BY <1>1, <1>2 DEF SoFar
<1>4. Name(Unx(in.target)) \in Pieces
  BY <1>1, InputNames DEF Pieces
<1>5. PICK u \in Seq(Pieces) : u = <<Name(Unx(in.target)), Colon>>
  BY <1>4, OpensSays DEF Opens
<1>6. StringAppend(u)
  BY <1>1, <1>3, <1>5
<1>7. Holds(t \o u)' /\ t \o u = u
  BY <1>2, <1>3, <1>6, AppendHolds, ConcatEmptySeq
<1>8. SoFar(u)'
  BY <1>1, <1>3, <1>5 DEF SoFar
<1>9. Len(in.headers) \in Nat
  BY <1>1, InputNames
<1>10. QED BY <1>1, <1>7, <1>8, <1>9 DEF RuleInv

\* SourceText keeps it.
LEMMA SourceTextInv == ASSUME RuleInv, SourceText PROVE RuleInv'
<1>1. /\ step = "source" /\ step' = "headers" /\ in' = in /\ cur' = cur
      /\ target' = Unx(in.source) /\ in \in Inputs /\ cur = 0
      /\ StringAppend(<<Name(target')>> \o More \o <<End>>)
  BY DEF RuleInv, SourceText
<1>2. PICK t \in Seq(Pieces) : Holds(t) /\ SoFar(t)
  BY <1>1 DEF RuleInv
<1>3. t = <<Name(Unx(in.target)), Colon>> /\ in.target # NoTarget
  BY <1>1, <1>2 DEF SoFar
<1>4. Name(Unx(in.source)) \in Pieces /\ Name(Unx(in.target)) \in Pieces
  BY <1>1, InputNames DEF Pieces
<1>5. Line(<<Name(Unx(in.source))>> \o More \o <<End>>, Name(Unx(in.source)), More)
  BY <1>1, <1>4, LineSays, MoreGoes DEF Opens
<1>6. PICK u \in Seq(Pieces) : u = <<Name(Unx(in.source))>> \o More \o <<End>>
  BY <1>5 DEF Line
<1>7. Line(u, Name(Unx(in.source)), More)
  BY <1>5, <1>6
<1>8. StringAppend(u)
  BY <1>1, <1>6
<1>9. Holds(t \o u)'
  BY <1>2, <1>8, AppendHolds
<1>10. Shown(t) = <<Name(Unx(in.target))>> /\ EndsOf(t) = {}
  BY <1>3, <1>4, OpensSays DEF Opens
<1>11. Written(t \o u, 0)
  BY <1>1, <1>3, <1>7, <1>10, WrittenFirst, MoreGoes
<1>12. PICK c \in Seq(Pieces) : c = t \o u
  BY ConcatProperties
<1>13. Written(c, 0)'
  BY <1>1, <1>11, <1>12 DEF Written, Wanted
<1>14. SoFar(c)'
  BY <1>1, <1>13 DEF SoFar
<1>15. Len(in.headers) \in Nat
  BY <1>1, InputNames
<1>16. QED BY <1>1, <1>9, <1>12, <1>14, <1>15 DEF RuleInv

\* HeaderLine keeps it.
LEMMA HeaderLineInv == ASSUME RuleInv, HeaderLine PROVE RuleInv'
<1>1. /\ step = "headers" /\ cur < Len(in.headers) /\ step' = step /\ in' = in
      /\ cur' = cur + 1 /\ in \in Inputs /\ cur \in 0..Len(in.headers)
      /\ StringAppend(<<Name(Rel(in.headers[cur + 1]))>> \o Continued \o <<End>>)
  BY DEF RuleInv, HeaderLine
<1>2. PICK t \in Seq(Pieces) : Holds(t) /\ SoFar(t)
  BY <1>1 DEF RuleInv
<1>3. Written(t, cur)
  BY <1>1, <1>2 DEF SoFar
<1>4. PICK n \in Nat : n = Len(in.headers)
  BY <1>1, InputNames
<1>5. PICK k \in 0..(n - 1) : k = cur
  BY <1>1, <1>4
<1>6. PICK x : x = Rel(in.headers[k + 1])
  OBVIOUS
<1>7. Name(x) \in Pieces
  <2>1. k + 1 \in 1..Len(in.headers)
    BY <1>4, <1>5
  <2>2. in.headers[k + 1] \in RuleNames
    BY <1>1, <2>1, InputNames, ElementOfSeq
  <2>3. QED BY <1>6, <2>2 DEF Pieces
<1>8. Goes(Continued) /\ (Continued = <<>> <=> k + 1 = Len(in.headers))
  <2>1. <<Cont>> # <<>>
    OBVIOUS
  <2>2. cur < Len(in.headers) - 1 <=> ~(k + 1 = n)
    BY <1>4, <1>5
  <2>3. QED BY <1>4, <2>1, <2>2 DEF Continued, Goes
<1>9. Line(<<Name(x)>> \o Continued \o <<End>>, Name(x), Continued)
  BY <1>7, <1>8, LineSays DEF Opens
<1>10. PICK u \in Seq(Pieces) : u = <<Name(x)>> \o Continued \o <<End>>
  BY <1>9 DEF Line
<1>11. Line(u, Name(x), Continued)
  BY <1>9, <1>10
<1>12. StringAppend(u)
  BY <1>1, <1>5, <1>6, <1>10
<1>13. Holds(t \o u)'
  BY <1>2, <1>12, AppendHolds
<1>14. Written(t \o u, k + 1)
  <2>1. k \in 0..(Len(in.headers) - 1) /\ Written(t, k)
    BY <1>3, <1>4, <1>5
  <2>2. QED BY <1>1, <1>6, <1>8, <1>11, <2>1, WrittenMore
<1>15. PICK c \in Seq(Pieces) : c = t \o u
  BY ConcatProperties
<1>16. Written(c, k + 1)'
  BY <1>1, <1>14, <1>15 DEF Written, Wanted
<1>17. SoFar(c)'
  BY <1>1, <1>5, <1>16 DEF SoFar
<1>18. cur' \in 0..Len(in.headers)
  BY <1>1, <1>4, <1>5
<1>19. QED BY <1>1, <1>13, <1>15, <1>17, <1>18 DEF RuleInv

\* What ends it, or does not get further, leaves the text as it is.
LEMMA EndHeadersInv == ASSUME RuleInv, EndHeaders PROVE RuleInv'
<1>1. /\ step = "headers" /\ cur >= Len(in.headers) /\ step' = "done" /\ in' = in
      /\ cur' = cur /\ heap' = heap /\ string' = string
      /\ in \in Inputs /\ cur \in 0..Len(in.headers)
  BY DEF RuleInv, EndHeaders
<1>2. PICK t \in Seq(Pieces) : Holds(t) /\ SoFar(t)
  BY <1>1 DEF RuleInv
<1>3. cur = Len(in.headers)
  BY <1>1, InputNames
<1>4. Written(t, Len(in.headers))
  BY <1>1, <1>2, <1>3 DEF SoFar
<1>5. Holds(t)' /\ SoFar(t)'
  BY <1>1, <1>2, <1>4 DEF Holds, SoFar, Written, Wanted
<1>6. QED BY <1>1, <1>5 DEF RuleInv

\* A writer that gives up keeps it.
LEMMA StopInv == ASSUME RuleInv, NoDirectory \/ NullBlock \/ NameOverrun PROVE RuleInv'
<1>1. /\ in' = in /\ cur' = cur /\ heap' = heap /\ string' = string
      /\ in \in Inputs /\ cur \in 0..Len(in.headers) /\ step' \in {"exit", "crash", "overrun"}
  BY DEF RuleInv, NoDirectory, NullBlock, NameOverrun
<1>2. CASE NullBlock
  BY <1>1, <1>2 DEF NullBlock, RuleInv
<1>3. CASE NoDirectory \/ NameOverrun
  <2>1. NextName \in Spaced => step \notin {"start", "crash"}
    BY BuildAssumption DEF NextName
  <2>2. step \notin {"start", "crash"}
    BY <1>3, <2>1 DEF NoDirectory, NameOverrun
  <2>3. PICK t \in Seq(Pieces) : Holds(t) /\ SoFar(t)
    BY <2>2 DEF RuleInv
  <2>4. Holds(t)' /\ SoFar(t)'
    <3>1. step' \in {"exit", "overrun"}
      BY <1>3 DEF NoDirectory, NameOverrun
    <3>2. QED BY <1>1, <2>3, <3>1 DEF Holds, SoFar
  <2>5. step' \in {"exit", "overrun"}
    BY <1>3 DEF NoDirectory, NameOverrun
  <2>6. QED BY <1>1, <2>4, <2>5 DEF RuleInv
<1>4. QED BY <1>2, <1>3

\* Every step keeps it.
LEMMA StepRuleInv == RuleInv /\ [BuildNext]_buildVars => RuleInv'
<1> SUFFICES ASSUME RuleInv, [BuildNext]_buildVars PROVE RuleInv'
  OBVIOUS
<1>1. CASE UNCHANGED buildVars
  <2>1. /\ step' = step /\ in' = in /\ target' = target /\ cur' = cur
        /\ heap' = heap /\ string' = string
    BY <1>1 DEF buildVars
  <2>2. ASSUME NEW t \in Seq(Pieces), Holds(t), SoFar(t) PROVE Holds(t)' /\ SoFar(t)'
    BY <2>1, <2>2 DEF Holds, SoFar, Written, Wanted
  <2>3. step' \notin {"start", "crash"} => \E t \in Seq(Pieces) : Holds(t)' /\ SoFar(t)'
    BY <2>1, <2>2 DEF RuleInv
  <2>4. QED BY <2>1, <2>3 DEF RuleInv
<1>2. QED
  BY <1>1, BeginInv, SourceAloneInv, TargetTextInv, SourceTextInv, HeaderLineInv,
     EndHeadersInv, StopInv DEF BuildNext

\* depfile_build: at every step the text is the beginning of the one rule.
THEOREM RuleInvariance == BuildSpec => []RuleInv
<1>1. BuildInit => RuleInv
  BY InitRuleInv
<1>2. RuleInv /\ [BuildNext]_buildVars => RuleInv'
  BY StepRuleInv
<1>3. QED BY <1>1, <1>2, PTL DEF BuildSpec

\* GlobalAlloc and GlobalReAlloc: there is one block, the string's, as long as it says.
THEOREM StringOwned == BuildSpec => []BuildTypeOK
<1>1. RuleInv => BuildTypeOK
  <2> SUFFICES ASSUME RuleInv PROVE BuildTypeOK
    OBVIOUS
  <2>1. ASSUME step \notin {"start", "crash"}
        PROVE  /\ {a \in Addresses : heap[a].live} = {string.data}
               /\ heap[string.data].size = string.size
               /\ DOMAIN heap[string.data].bytes = 1..string.size
    <3>1. PICK t \in Seq(Pieces) : Holds(t)
      BY <2>1 DEF RuleInv
    <3>2. string.data \in Addresses /\ string.size = Len(t)
      BY <3>1 DEF Holds
    <3>3. \A a \in Addresses : heap[a] = IF a = string.data THEN Block(Len(t), t) ELSE NoBlock
      BY <3>1 DEF Holds
    <3>4. Block(Len(t), t).live /\ Block(Len(t), t).size = Len(t) /\ Block(Len(t), t).bytes = t
      BY DEF Block
    <3>5. ~NoBlock.live
      BY DEF NoBlock
    <3>6. QED BY <3>2, <3>3, <3>4, <3>5, LenProperties
  <2>2. QED BY <2>1 DEF RuleInv, BuildTypeOK
<1>2. QED BY <1>1, RuleInvariance, PTL

\* depfile_build and string_append: for any headers, the text is one rule, for the
\* target, that names the source and each header once, in order.
THEOREM RuleWritten == BuildSpec => []OneRule
<1>1. RuleInv => OneRule
  <2> SUFFICES ASSUME RuleInv, step = "done" PROVE OneRule
    BY DEF OneRule
  <2>1. PICK t \in Seq(Pieces) : Holds(t) /\ SoFar(t)
    BY DEF RuleInv
  <2>2. Written(t, Len(in.headers))
    BY <2>1 DEF SoFar
  <2>3. Text = t
    <3>1. string.data \in Addresses /\ heap[string.data] = Block(Len(t), t)
      BY <2>1 DEF Holds
    <3>2. QED BY <3>1 DEF Text, Block
  <2>4. RuleEnds = EndsOf(t)
    BY <2>3 DEF RuleEnds, EndsOf
  <2>5. QED BY <2>2, <2>3, <2>4 DEF OneRule, Written, Wanted
<1>2. QED BY <1>1, RuleInvariance, PTL

-----------------------------------------------------------------------------
(* The path of a header.                                                   *)

\* The characters of the paths.
Given   == UNION {{s[k] : k \in DOMAIN s} : s \in Cwds \cup Headers}
Letters == Given \cup {"/", ".", "\\"}

PathVars ==
  /\ pc \in Stages
  /\ cwd \in Cwds /\ header \in Headers
  /\ full \in Seq(Letters) /\ Len(full) < PathMax
  /\ d \in Seq(Letters) /\ w \in Seq(Letters)
  /\ rel \in Seq(Letters) /\ esc \in Seq(Letters)
  /\ at \in Nat \ {0}

\* strncmp has never let cwd_p past the end of its string.
InCwd == pc \in {"strip", "final", "build"} => \E k \in 0..Len(cwd) : w = From(cwd, k + 1)

PathInv == PathVars /\ InCwd

\* A path is made of letters, and so is what is left of it.
LEMMA PathLetters == ASSUME NEW s \in Cwds \cup Headers PROVE s \in Seq(Letters)
<1>1. s \in Seq({s[k] : k \in DOMAIN s})
  BY DepfileAssumption
<1>2. {s[k] : k \in DOMAIN s} \subseteq Letters
  BY DEF Letters, Given
<1>3. QED BY <1>1, <1>2, SeqMonotonic

\* A part of a path is made of letters, and not longer.
LEMMA PartLetters ==
  \A s \in Seq(Letters) : \A j \in Nat \ {0}, k \in 0..Len(s) :
    SubSeq(s, j, k) \in Seq(Letters) /\ Len(SubSeq(s, j, k)) <= Len(s)
<1> SUFFICES ASSUME NEW s \in Seq(Letters), NEW j \in Nat \ {0}, NEW k \in 0..Len(s)
             PROVE  SubSeq(s, j, k) \in Seq(Letters) /\ Len(SubSeq(s, j, k)) <= Len(s)
  OBVIOUS
<1>1. PICK n \in Nat : n = Len(s) /\ k \in 0..n
  BY LenProperties
<1>2. \A i \in j..k : i \in 1..Len(s)
  BY <1>1
<1>3. \A i \in j..k : s[i] \in Letters
  BY <1>2, ElementOfSeq
<1>4. /\ SubSeq(s, j, k) \in Seq(Letters)
      /\ Len(SubSeq(s, j, k)) = IF j <= k THEN k - j + 1 ELSE 0
  BY <1>1, <1>3, SubSeqProperties
<1>5. QED BY <1>1, <1>4

\* The first name of a path ends in it.
LEMMA NameEndIn == ASSUME NEW s \in Seq(Letters) PROVE NameEnd(s) \in 0..Len(s)
<1>1. PICK n \in Nat : n = Len(s)
  BY LenProperties
<1>2. CASE SepsAfter(s) = {}
  BY <1>1, <1>2 DEF NameEnd
<1>3. CASE SepsAfter(s) # {}
  <2>1. SepsAfter(s) \subseteq 2..n
    BY <1>1 DEF SepsAfter
  <2>2. PICK T \in SUBSET Nat : T = SepsAfter(s)
    BY <2>1
  <2>3. PICK m \in T : \A k \in T : m <= k
    BY <1>3, <2>2, Smallest
  <2>4. PICK c : c = CHOOSE k \in T : \A j \in T : k <= j
    OBVIOUS
  <2>5. c \in T
    BY <2>3, <2>4
  <2>6. NameEnd(s) = c - 1 /\ c \in 2..n
    BY <1>3, <2>1, <2>2, <2>4, <2>5 DEF NameEnd
  <2>7. QED BY <1>1, <2>6
<1>4. QED BY <1>2, <1>3

\* A part of the end of the working directory, cut in front, is one still.
LEMMA FromFrom ==
  ASSUME NEW s \in Seq(Letters), NEW k \in 0..Len(s), NEW t, t = From(s, k + 1), NEW l \in 0..Len(t)
  PROVE  \E j \in 0..Len(s) : From(t, l + 1) = From(s, j + 1)
<1>1. PICK n \in Nat : n = Len(s) /\ k \in 0..n
  BY LenProperties
<1>2. PICK u \in Seq(Letters) : u = t
  <2>1. k + 1 \in Nat \ {0} /\ n \in 0..Len(s)
    BY <1>1
  <2>2. SubSeq(s, k + 1, n) \in Seq(Letters)
    BY <2>1, PartLetters
  <2>3. QED BY <1>1, <2>2 DEF From
<1>3. Len(u) = n - k
  <2>1. \A i \in (k + 1)..n : s[i] \in Letters
    BY <1>1, ElementOfSeq
  <2>2. Len(SubSeq(s, k + 1, n)) = IF k + 1 <= n THEN n - (k + 1) + 1 ELSE 0
    BY <1>1, <2>1, SubSeqProperties
  <2>3. QED BY <1>1, <1>2, <2>2 DEF From
<1>4. l \in 0..(n - k)
  BY <1>2, <1>3
<1>5. CASE l = n - k
  <2>1. From(t, l + 1) = <<>>
    BY <1>1, <1>2, <1>3, <1>5, SubSeqEmpty DEF From
  <2>2. From(s, n + 1) = <<>>
    BY <1>1, SubSeqEmpty DEF From
  <2>3. QED BY <1>1, <2>1, <2>2
<1>6. CASE l < n - k
  <2>1. k + 1 \in 1..n /\ n \in 1..n /\ l + 1 \in 1..(n - (k + 1) + 1) /\ n - k \in 1..(n - (k + 1) + 1)
    BY <1>1, <1>4, <1>6
  <2>2. SubSeq(SubSeq(s, k + 1, n), l + 1, n - k) = SubSeq(s, (k + 1) + (l + 1) - 1, (k + 1) + (n - k) - 1)
    BY <1>1, <2>1, SubSeqOfSubSeq
  <2>3. (k + 1) + (l + 1) - 1 = (k + l) + 1 /\ (k + 1) + (n - k) - 1 = n
    BY <1>1, <1>4
  <2>4. From(t, l + 1) = From(s, (k + l) + 1)
    BY <1>1, <1>2, <1>3, <2>2, <2>3 DEF From
  <2>5. k + l \in 0..n
    BY <1>1, <1>4
  <2>6. QED BY <1>1, <2>4, <2>5
<1>7. QED BY <1>4, <1>5, <1>6

\* The ../ of relpath.
LEMMA ParentsTyped == ASSUME NEW p \in Nat PROVE Parents(p) \in Seq(Letters)
<1>1. PICK n \in Nat : n = 3 * p
  OBVIOUS
<1>2. "/" \in Letters /\ "." \in Letters
  BY DEF Letters
<1>3. Parents(p) = [k \in 1..n |-> IF k % 3 = 0 THEN "/" ELSE "."]
  BY <1>1 DEF Parents
<1>4. Parents(p) \in [1..n -> Letters]
  BY <1>2, <1>3
<1>5. QED BY <1>4

\* The separators of a path have a number.
LEMMA SepsNumber == ASSUME NEW s \in Seq(Letters) PROVE Seps(s) \in Nat
<1>1. PICK n \in Nat : DOMAIN s = 1..n
  BY LenProperties
<1>2. IsFiniteSet(1..n)
  BY FS_Interval
<1>3. IsFiniteSet({k \in DOMAIN s : s[k] = "/"})
  BY <1>1, <1>2, FS_Subset
<1>4. QED BY <1>3, FS_CardinalityType DEF Seps

-----------------------------------------------------------------------------
(* The steps.                                                              *)

\* Every pair of paths has it.
LEMMA InitPathInv == Init => PathInv
<1> SUFFICES ASSUME Init PROVE PathInv
  OBVIOUS
<1>1. /\ pc = "convert" /\ cwd \in Cwds /\ header \in Headers /\ full = header /\ at = 1
      /\ d = <<>> /\ w = <<>> /\ rel = <<>> /\ esc = <<>>
  BY DEF Init
<1>2. header \in Seq(Letters) /\ Len(header) < PathMax
  BY <1>1, PathLetters, DepfileAssumption
<1>3. <<>> \in Seq(Letters)
  OBVIOUS
<1>4. QED BY <1>1, <1>2, <1>3 DEF PathInv, PathVars, InCwd, Stages

\* Convert keeps it.
LEMMA ConvertInv == ASSUME PathInv, Convert PROVE PathInv'
<1>1. /\ full' = Slashes(full) /\ d' = full' /\ w' = cwd /\ pc' = "strip"
      /\ cwd' = cwd /\ header' = header /\ rel' = rel /\ esc' = esc /\ at' = at
      /\ full \in Seq(Letters) /\ Len(full) < PathMax /\ cwd \in Cwds
  BY DEF Convert, PathInv, PathVars
<1>2. PICK n \in Nat : n = Len(full) /\ DOMAIN full = 1..n
  BY <1>1, LenProperties
<1>3. full' \in [1..n -> Letters]
  <2>1. \A k \in 1..n : full[k] \in Letters
    BY <1>1, <1>2, ElementOfSeq
  <2>2. "/" \in Letters
    BY DEF Letters
  <2>3. QED BY <1>1, <1>2, <2>1, <2>2 DEF Slashes
<1>4. full' \in Seq(Letters) /\ Len(full') = n
  BY <1>3
<1>5. cwd \in Seq(Letters)
  BY <1>1, PathLetters
<1>6. cwd = From(cwd, 0 + 1) /\ 0 \in 0..Len(cwd)
  BY <1>5, SubSeqFull, LenProperties DEF From
<1>7. QED BY <1>1, <1>2, <1>4, <1>5, <1>6 DEF PathInv, PathVars, InCwd, Stages

\* What is left of a path after its first name.
LEMMA FromLetters == ASSUME NEW s \in Seq(Letters), NEW k \in Nat PROVE From(s, k + 1) \in Seq(Letters)
<1>1. PICK n \in Nat : n = Len(s)
  BY LenProperties
<1>2. k + 1 \in Nat \ {0} /\ n \in 0..Len(s)
  BY <1>1
<1>3. SubSeq(s, k + 1, n) \in Seq(Letters)
  BY <1>2, PartLetters
<1>4. QED BY <1>1, <1>3 DEF From

\* Strip keeps it.
LEMMA StripInv == ASSUME PathInv, Strip PROVE PathInv'
<1>1. /\ pc = "strip" /\ pc' = pc /\ cwd' = cwd /\ cwd \in Cwds
      /\ d' = From(d, NameEnd(d) + 1) /\ w' = From(w, NameEnd(d) + 1)
      /\ header' = header /\ full' = full /\ rel' = rel /\ esc' = esc /\ at' = at
      /\ SameStart(d, w, NameEnd(d)) /\ d \in Seq(Letters) /\ w \in Seq(Letters)
  BY DEF Strip, Strippable, PathInv, PathVars
<1>2. PICK l \in Nat : l = NameEnd(d)
  BY <1>1, NameEndIn, LenProperties
<1>3. l \in 0..Len(w)
  BY <1>1, <1>2, LenProperties DEF SameStart
<1>4. d' \in Seq(Letters) /\ w' \in Seq(Letters)
  BY <1>1, <1>2, FromLetters
<1>5. PICK k \in 0..Len(cwd) : w = From(cwd, k + 1)
  BY <1>1 DEF PathInv, InCwd
<1>6. cwd \in Seq(Letters)
  BY <1>1, PathLetters
<1>7. \E j \in 0..Len(cwd) : w' = From(cwd, j + 1)
  BY <1>1, <1>2, <1>3, <1>5, <1>6, FromFrom
<1>8. QED BY <1>1, <1>4, <1>7 DEF PathInv, PathVars, InCwd

\* EndStrip keeps it.
LEMMA EndStripInv == ASSUME PathInv, EndStrip PROVE PathInv'
<1>1. /\ pc = "strip" /\ pc' = "final" /\ d' = IF d = <<>> THEN <<".">> ELSE d
      /\ UNCHANGED <<cwd, header, full, w, rel, esc, at>>
  BY DEF EndStrip
<1>2. <<".">> \in Seq(Letters)
  <2>1. "." \in Letters
    BY DEF Letters
  <2>2. QED BY <2>1, Single
<1>3. QED BY <1>1, <1>2 DEF PathInv, PathVars, InCwd, Stages

\* StripFinal keeps it.
LEMMA StripFinalInv == ASSUME PathInv, StripFinal PROVE PathInv'
<1>1. /\ pc = "final" /\ pc' = "build" /\ UNCHANGED <<cwd, header, full, rel, esc, at>>
      /\ cwd \in Cwds /\ d \in Seq(Letters) /\ w \in Seq(Letters)
  BY DEF StripFinal, PathInv, PathVars
<1>2. PICK l \in Nat : l = NameEnd(w) /\ l \in 0..Len(w)
  BY <1>1, NameEndIn, LenProperties
<1>3. \/ d' = d /\ w' = w
      \/ d' = <<>> /\ w' = From(w, l + 1)
  BY <1>2 DEF StripFinal
<1>4. <<>> \in Seq(Letters) /\ From(w, l + 1) \in Seq(Letters)
  BY <1>1, FromLetters
<1>5. PICK k \in 0..Len(cwd) : w = From(cwd, k + 1)
  BY <1>1 DEF PathInv, InCwd
<1>6. cwd \in Seq(Letters)
  BY <1>1, PathLetters
<1>7. \E j \in 0..Len(cwd) : From(w, l + 1) = From(cwd, j + 1)
  BY <1>2, <1>5, <1>6, FromFrom
<1>8. \E j \in 0..Len(cwd) : w' = From(cwd, j + 1)
  BY <1>3, <1>5, <1>7
<1>9. QED BY <1>1, <1>3, <1>4, <1>8 DEF PathInv, PathVars, InCwd, Stages

\* What relpath puts together is a path.
LEMMA BuildInv == ASSUME PathInv, Build PROVE PathInv'
<1>1. /\ pc' = "copy" /\ UNCHANGED <<cwd, header, full, d, w, esc, at>>
      /\ d \in Seq(Letters) /\ w \in Seq(Letters)
  BY DEF Build, PathInv, PathVars
<1>2. PICK p \in Nat : p = IF d = <<>> \/ AtSep(d) THEN Seps(w) ELSE 0
  BY <1>1, SepsNumber
<1>3. PICK s \in Seq(Letters) : s = IF AtSep(d) THEN Tail(d) ELSE d
  <2>1. AtSep(d) => Tail(d) \in Seq(Letters)
    BY <1>1, HeadTailProperties DEF AtSep
  <2>2. QED BY <1>1, <2>1
<1>4. PICK u \in Seq(Letters) : u = Parents(p)
  BY ParentsTyped
<1>5. rel' = IF s # <<>> THEN u \o s ELSE IF p = 0 THEN <<".">> ELSE Front(u)
  BY <1>2, <1>3, <1>4 DEF Build
<1>6. u \o s \in Seq(Letters)
  BY ConcatProperties
<1>7. <<".">> \in Seq(Letters)
  <2>1. "." \in Letters
    BY DEF Letters
  <2>2. QED BY <2>1, Single
<1>8. p # 0 => Front(u) \in Seq(Letters)
  <2>1. PICK n \in Nat : n = Len(u)
    BY LenProperties
  <2>2. \A i \in 1..(n - 1) : u[i] \in Letters
    <3>1. \A i \in 1..(n - 1) : i \in 1..Len(u)
      BY <2>1
    <3>2. QED BY <3>1, ElementOfSeq
  <2>3. SubSeq(u, 1, n - 1) \in Seq(Letters)
    BY <2>1, <2>2, SubSeqProperties
  <2>4. QED BY <2>1, <2>3 DEF Front
<1>9. rel' \in Seq(Letters)
  BY <1>5, <1>6, <1>7, <1>8
<1>10. QED BY <1>1, <1>9 DEF PathInv, PathVars, InCwd, Stages

\* Copy keeps it.
LEMMA CopyInv == ASSUME PathInv, Copy PROVE PathInv'
<1>1. /\ pc' = "escape" /\ UNCHANGED <<cwd, header, d, w, rel, esc, at>>
      /\ rel \in Seq(Letters)
      /\ full' = IF Len(rel) < PathMax THEN rel ELSE SubSeq(rel, 1, PathMax - 1)
  BY DEF Copy, PathInv, PathVars
<1>2. PICK n \in Nat, m \in Nat \ {0} : n = Len(rel) /\ m = PathMax
  BY <1>1, LenProperties, DepfileAssumption
<1>3. CASE n < m
  BY <1>1, <1>2, <1>3 DEF PathInv, PathVars, InCwd, Stages
<1>4. CASE ~(n < m)
  <2>1. \A i \in 1..(m - 1) : i \in 1..Len(rel)
    BY <1>2, <1>4
  <2>2. \A i \in 1..(m - 1) : rel[i] \in Letters
    BY <1>1, <2>1, ElementOfSeq
  <2>3. /\ SubSeq(rel, 1, m - 1) \in Seq(Letters)
        /\ Len(SubSeq(rel, 1, m - 1)) = IF 1 <= m - 1 THEN (m - 1) - 1 + 1 ELSE 0
    BY <1>2, <2>2, SubSeqProperties
  <2>4. full' \in Seq(Letters) /\ Len(full') < PathMax
    BY <1>1, <1>2, <1>4, <2>3
  <2>5. QED BY <1>1, <2>4 DEF PathInv, PathVars, InCwd, Stages
<1>5. QED BY <1>3, <1>4

\* EscapeChar keeps it.
LEMMA EscapeCharInv == ASSUME PathInv, EscapeChar PROVE PathInv'
<1>1. /\ pc = "escape" /\ UNCHANGED <<pc, cwd, header, full, d, w, rel>>
      /\ at <= Len(full) /\ at' = at + 1 /\ at \in Nat \ {0}
      /\ full \in Seq(Letters) /\ esc \in Seq(Letters)
      /\ esc' = esc \o (IF full[1] = " " THEN <<"\\", full[at]>> ELSE <<full[at]>>)
  BY DEF EscapeChar, PathInv, PathVars
<1>10. at <= Len(full) /\ at' = at + 1 /\ at \in Nat \ {0}
  BY <1>1
<1>11. PICK n \in Nat : n = Len(full)
  BY <1>1, LenProperties
<1>12. PICK p \in Nat \ {0} : p = at
  BY <1>1
<1>13. p \in 1..Len(full)
  BY <1>10, <1>11, <1>12
<1>2. PICK x \in Letters : x = full[at]
  BY <1>1, <1>12, <1>13, ElementOfSeq
<1>3. <<"\\", x>> \in Seq(Letters) /\ <<x>> \in Seq(Letters)
  <2>1. "\\" \in Letters
    BY DEF Letters
  <2>2. QED BY <2>1, PairIs, Single
<1>4. PICK u \in Seq(Letters) : u = IF full[1] = " " THEN <<"\\", x>> ELSE <<x>>
  BY <1>3
<1>5. esc' = esc \o u
  BY <1>1, <1>2, <1>4
<1>6. esc' \in Seq(Letters)
  BY <1>1, <1>5, ConcatProperties
<1>7. at' \in Nat \ {0}
  BY <1>10
<1>8. QED BY <1>1, <1>6, <1>7 DEF PathInv, PathVars, InCwd

\* Every step keeps it.
LEMMA StepPathInv == PathInv /\ [Next]_vars => PathInv'
<1> SUFFICES ASSUME PathInv, [Next]_vars PROVE PathInv'
  OBVIOUS
<1>1. CASE UNCHANGED vars
  BY <1>1 DEF PathInv, PathVars, InCwd, vars
<1>2. CASE OutOfMemory \/ NoMemory \/ Overrun
  BY <1>2 DEF OutOfMemory, NoMemory, Overrun, PathInv, PathVars, InCwd, Stages
<1>3. CASE KeepSpaces
  BY <1>3 DEF KeepSpaces, PathInv, PathVars, InCwd, Stages
<1>4. QED
  BY <1>1, <1>2, <1>3, ConvertInv, StripInv, EndStripInv, StripFinalInv, BuildInv, CopyInv,
     EscapeCharInv DEF Next

\* relpath and what follows: at every step what cwd_p points to is the end of the
\* working directory, and header_full has room for its text.
THEOREM PathInvariance == Init /\ [][Next]_vars => []PathInv
<1>1. Init => PathInv
  BY InitPathInv
<1>2. PathInv /\ [Next]_vars => PathInv'
  BY StepPathInv
<1>3. QED BY <1>1, <1>2, PTL

\* The same, as the run states it.
THEOREM PathTyped == Init /\ [][Next]_vars => []TypeOK
<1>1. PathInv => TypeOK
  <2> SUFFICES ASSUME PathInv PROVE TypeOK
    OBVIOUS
  <2>1. ASSUME NEW s \in Seq(Letters) PROVE s = <<>> \/ Len(s) \in Nat \ {0}
    BY LenProperties, EmptySeq
  <2>2. QED BY <2>1 DEF PathInv, PathVars, InCwd, TypeOK
<1>2. QED BY <1>1, PathInvariance, PTL

-----------------------------------------------------------------------------
(* The three together.                                                     *)

\* DepfilePath, DepfileBuild and PathJoin share no variable: where a run follows one
\* of them it is a behaviour of all three.
THEOREM Together == SpecAll => (Init /\ [][Next]_vars) /\ BuildSpec /\ JoinSpec
<1>1. InitAll => Init /\ BuildInit /\ JoinInit
  BY DEF InitAll
<1>2. [NextAll]_<<follows, vars, buildVars, joinVars>> =>
        [Next]_vars /\ [BuildNext]_buildVars /\ [JoinNext]_joinVars
  <2> SUFFICES ASSUME [NextAll]_<<follows, vars, buildVars, joinVars>>
               PROVE  [Next]_vars /\ [BuildNext]_buildVars /\ [JoinNext]_joinVars
    OBVIOUS
  <2>1. CASE UNCHANGED <<follows, vars, buildVars, joinVars>>
    BY <2>1
  <2>2. CASE Next /\ UNCHANGED <<follows, buildVars, joinVars>>
    BY <2>2
  <2>3. CASE BuildNext /\ UNCHANGED <<follows, vars, joinVars>>
    BY <2>3
  <2>4. CASE JoinNext /\ UNCHANGED <<follows, vars, buildVars>>
    BY <2>4
  <2>5. QED BY <2>1, <2>2, <2>3, <2>4 DEF NextAll
<1>3. QED BY <1>1, <1>2, PTL DEF SpecAll, BuildSpec, JoinSpec

\* In every reachable state of the path, the rule and the joining their types and the
\* bounds of their buffers hold (depfile_build.c).
THEOREM TypesHold == SpecAll => []TypesOK
<1>1. TypeOK /\ BuildTypeOK /\ JoinTypeOK => TypesOK
  BY DEF TypesOK
<1>2. QED BY <1>1, Together, PathTyped, StringOwned, JoinTyped, PTL

=============================================================================
