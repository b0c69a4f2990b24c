-------------------------- MODULE RelinkDumpProofs --------------------------
(***************************************************************************)
(* Proofs about RelinkDump, for every set of well-formed images: the dump  *)
(* rebuilds each section byte for byte, puts each label at its symbol's    *)
(* address, jumps over no symbol, and what it emits twice is refused.      *)
(***************************************************************************)
EXTENDS RelinkDump, SequenceTheorems, NaturalsInduction, WellFoundedInduction, TLAPS

-----------------------------------------------------------------------------
(* The directives.                                                         *)

\* The three kinds of byte are bytes.
LEMMA ByteTypes ==
  /\ \A o \in Nat : FileByte(o) \in Byte
  /\ ZeroByte \in Byte
  /\ \A i, k \in Nat : SlotByte(i, k) \in Byte
BY DEF FileByte, ZeroByte, SlotByte, Byte

\* .incbin gives n consecutive bytes of the file.
LEMMA IncbinBytes ==
  ASSUME NEW o \in Nat, NEW n \in Nat
  PROVE  /\ Incbin(o, n) \in Seq(Byte)
         /\ Len(Incbin(o, n)) = n
         /\ \A k \in 1..n : Incbin(o, n)[k] = FileByte(o + k - 1)
<1>1. \A k \in 1..n : FileByte(o + k - 1) \in Byte
  <2>1. \A k \in 1..n : o + k - 1 \in Nat
    OBVIOUS
  <2>2. QED BY <2>1, ByteTypes
<1>2. Incbin(o, n) \in [1..n -> Byte]
  BY <1>1 DEF Incbin
<1>3. Incbin(o, n) \in Seq(Byte) /\ Len(Incbin(o, n)) = n
  BY <1>2
<1>4. QED BY <1>3 DEF Incbin

\* .zero gives n zero bytes.
LEMMA ZerosBytes ==
  ASSUME NEW n \in Nat
  PROVE  /\ Zeros(n) \in Seq(Byte)
         /\ Len(Zeros(n)) = n
         /\ \A k \in 1..n : Zeros(n)[k] = ZeroByte
<1>1. Zeros(n) \in [1..n -> Byte]
  BY ByteTypes DEF Zeros
<1>2. Zeros(n) \in Seq(Byte) /\ Len(Zeros(n)) = n
  BY <1>1
<1>3. QED BY <1>2 DEF Zeros

\* .long symbol gives the four bytes of the slot.
LEMMA SlotBytes ==
  ASSUME NEW i \in Nat
  PROVE  /\ SlotWord(i) \in Seq(Byte)
         /\ Len(SlotWord(i)) = SlotSize
         /\ \A k \in 1..SlotSize : SlotWord(i)[k] = SlotByte(i, k - 1)
<1>1. \A k \in 1..SlotSize : SlotByte(i, k - 1) \in Byte
  <2>1. \A k \in 1..SlotSize : k - 1 \in Nat
    BY DEF SlotSize
  <2>2. QED BY <2>1, ByteTypes
<1>2. SlotWord(i) \in [1..SlotSize -> Byte] /\ SlotSize \in Nat
  BY <1>1 DEF SlotWord, SlotSize
<1>3. SlotWord(i) \in Seq(Byte) /\ Len(SlotWord(i)) = SlotSize
  BY <1>2
<1>4. QED BY <1>3 DEF SlotWord

\* c is a, which has m elements, and then b, which has n.
Joins(c, a, m, b, n) ==
  /\ Len(c) = m + n
  /\ \A k \in 1..m : c[k] = a[k]
  /\ \A k \in 1..n : c[m + k] = b[k]

\* Two pieces of a section's text, one after the other.
LEMMA JoinedBytes ==
  ASSUME NEW a \in Seq(Byte), NEW b \in Seq(Byte), NEW m \in Nat, NEW n \in Nat,
         Len(a) = m, Len(b) = n
  PROVE  a \o b \in Seq(Byte) /\ Joins(a \o b, a, m, b, n)
<1>1. /\ a \o b \in Seq(Byte)
      /\ Len(a \o b) = m + n
      /\ \A i \in 1..(m + n) : (a \o b)[i] = IF i <= m THEN a[i] ELSE b[i - m]
  BY ConcatProperties
<1>2. \A i \in 1..n : m + i \in 1..(m + n) /\ ~(m + i <= m) /\ (m + i) - m = i
  OBVIOUS
<1>3. \A i \in 1..m : i \in 1..(m + n) /\ i <= m
  OBVIOUS
<1>4. QED BY <1>1, <1>2, <1>3 DEF Joins

\* The flush gives the original bytes of the section from one offset to
\* another, wherever the file data ends.
LEMMA FlushBytes ==
  ASSUME NEW sec \in SectionType, NEW from \in Nat, NEW to \in Nat, from <= to
  PROVE  /\ Flush(sec, from, to) \in Seq(Byte)
         /\ Len(Flush(sec, from, to)) = to - from
         /\ \A k \in 1..(to - from) :
               Flush(sec, from, to)[k] =
                 IF from + k - 1 < sec.dsize THEN FileByte(sec.offset + from + k - 1)
                                             ELSE ZeroByte
<1>0. /\ sec.dsize \in Nat /\ sec.offset \in Nat /\ to - from \in Nat
      /\ sec.offset + from \in Nat
  BY DEF SectionType
<1> DEFINE o == sec.offset + from
<1>1. CASE to <= sec.dsize
  <2>1. Flush(sec, from, to) = Incbin(o, to - from)
    BY <1>1 DEF Flush
  <2>2. /\ Incbin(o, to - from) \in Seq(Byte)
        /\ Len(Incbin(o, to - from)) = to - from
        /\ \A k \in 1..(to - from) : Incbin(o, to - from)[k] = FileByte(o + k - 1)
    BY <1>0, IncbinBytes
  <2>3. \A k \in 1..(to - from) : from + k - 1 < sec.dsize
    BY <1>0, <1>1
  <2>4. QED BY <2>1, <2>2, <2>3
<1>2. CASE ~(to <= sec.dsize) /\ from < sec.dsize
  <2> DEFINE d == sec.dsize - from
             z == to - sec.dsize
             a == Incbin(o, d)
             b == Zeros(z)
  <2>1. Flush(sec, from, to) = a \o b
    BY <1>2 DEF Flush
  <2>2. d \in Nat /\ z \in Nat /\ d + z = to - from
    BY <1>0, <1>2
  <2>3. /\ a \in Seq(Byte) /\ Len(a) = d
        /\ \A k \in 1..d : a[k] = FileByte(o + k - 1)
    BY <1>0, <2>2, IncbinBytes
  <2>4. b \in Seq(Byte) /\ Len(b) = z /\ \A k \in 1..z : b[k] = ZeroByte
    BY <2>2, ZerosBytes
  <2> HIDE DEF a, b, d, z, o
  <2>5. /\ a \o b \in Seq(Byte) /\ Len(a \o b) = d + z
        /\ \A k \in 1..d : (a \o b)[k] = a[k]
        /\ \A k \in 1..z : (a \o b)[d + k] = b[k]
    <3>1. a \o b \in Seq(Byte) /\ Joins(a \o b, a, d, b, z)
      BY <2>2, <2>3, <2>4, JoinedBytes
    <3>2. QED BY <3>1 DEF Joins
  <2>6. ASSUME NEW k \in 1..(d + z)
        PROVE  (a \o b)[k] = IF k <= d THEN FileByte(o + k - 1) ELSE ZeroByte
    <3>1. CASE k <= d
      BY <2>2, <2>3, <2>5, <3>1
    <3>2. CASE ~(k <= d)
      <4>1. k - d \in 1..z /\ d + (k - d) = k
        BY <2>2, <3>2
      <4>2. QED BY <2>4, <2>5, <3>2, <4>1
    <3>3. QED BY <3>1, <3>2
  <2>7. \A k \in 1..(d + z) : (from + k - 1 < sec.dsize) <=> (k <= d)
    BY <1>0, <2>2 DEF d
  <2>8. \A k \in 1..(d + z) :
          (a \o b)[k] = IF from + k - 1 < sec.dsize THEN FileByte(o + k - 1)
                                                   ELSE ZeroByte
    BY <2>6, <2>7
  <2>9. QED BY <2>1, <2>2, <2>5, <2>8 DEF o
<1>3. CASE ~(to <= sec.dsize) /\ ~(from < sec.dsize)
  <2>1. Flush(sec, from, to) = Zeros(to - from)
    BY <1>3 DEF Flush
  <2>2. \A k \in 1..(to - from) : ~(from + k - 1 < sec.dsize)
    BY <1>0, <1>3
  <2>3. QED BY <1>0, <2>1, <2>2, ZerosBytes
<1>4. QED BY <1>1, <1>2, <1>3

-----------------------------------------------------------------------------
(* The tables.                                                             *)

\* The first of a set of table indices is one of them.
LEMMA FirstOfIn ==
  ASSUME NEW S \in SUBSET Nat, S # {}
  PROVE  FirstOf(S) \in S
<1> DEFINE R == {ss \in Nat \X Nat : ss[1] < ss[2]}
<1>1. IsWellFoundedOn(R, Nat)
  <2>1. R = OpToRel(<, Nat)
    BY Zenon DEF OpToRel
  <2>2. QED BY <2>1, NatLessThanWellFounded, Zenon
<1>2. PICK i \in S : \A j \in S : <<j, i>> \notin R
  <2> HIDE DEF R
  <2>1. QED BY <1>1, WFMin
<1>3. ASSUME NEW j \in S PROVE i <= j
  <2>1. <<j, i>> \in Nat \X Nat
    OBVIOUS
  <2>2. ~(<<j, i>>[1] < <<j, i>>[2])
    BY <1>2, <2>1, Zenon
  <2>3. QED BY <2>2
<1>4. QED BY <1>3 DEF FirstOf

\* The entries found at an address are at that address.
LEMMA FoundImport ==
  ASSUME NEW img \in ImageType, NEW a \in Nat, ImportsAt(img, a) # {}
  PROVE  /\ FirstOf(ImportsAt(img, a)) \in DOMAIN img.imports
         /\ FirstOf(ImportsAt(img, a)) \in Nat
         /\ img.imports[FirstOf(ImportsAt(img, a))] = a
<1>1. ImportsAt(img, a) \in SUBSET Nat
  BY DEF ImportsAt, ImageType
<1>2. FirstOf(ImportsAt(img, a)) \in ImportsAt(img, a)
  BY <1>1, FirstOfIn
<1>3. QED BY <1>1, <1>2 DEF ImportsAt

\* The string that is found for an address is one that stands there.
LEMMA FoundString ==
  ASSUME NEW img \in ImageType, NEW a \in Nat, StringsAt(img, a) # {}
  PROVE  /\ FirstOf(StringsAt(img, a)) \in DOMAIN img.strings
         /\ img.strings[FirstOf(StringsAt(img, a))].addr = a
<1>1. StringsAt(img, a) \in SUBSET Nat
  BY DEF StringsAt, ImageType
<1>2. FirstOf(StringsAt(img, a)) \in StringsAt(img, a)
  BY <1>1, FirstOfIn
<1>3. QED BY <1>2 DEF StringsAt

\* The export that is found for an address is one of the image.
LEMMA FoundExport ==
  ASSUME NEW img \in ImageType, NEW a \in Nat, ExportsAt(img, a) # {}
  PROVE  /\ FirstOf(ExportsAt(img, a)) \in DOMAIN img.exports
         /\ FirstOf(ExportsAt(img, a)) \in Nat
         /\ img.exports[FirstOf(ExportsAt(img, a))].addr = a
<1>1. ExportsAt(img, a) \in SUBSET Nat
  BY DEF ExportsAt, ImageType
<1>2. FirstOf(ExportsAt(img, a)) \in ExportsAt(img, a)
  BY <1>1, FirstOfIn
<1>3. QED BY <1>1, <1>2 DEF ExportsAt

\* The components of an image have their types.
LEMMA ImageParts ==
  ASSUME NEW img \in ImageType
  PROVE  /\ \A s \in DOMAIN img.sections : /\ img.sections[s] \in SectionType
                                           /\ img.sections[s].addr \in Nat
                                           /\ img.sections[s].vsize \in Nat
                                           /\ img.sections[s].dsize \in Nat
                                           /\ img.sections[s].offset \in Nat
         /\ \A i \in DOMAIN img.imports : img.imports[i] \in Nat
         /\ \A i \in DOMAIN img.strings : /\ img.strings[i].addr \in Nat
                                          /\ img.strings[i].id \in Nat
                                          /\ img.strings[i].size \in Nat
                                          /\ img.strings[i].size > 0
<1>1. /\ img.sections \in Seq(SectionType)
      /\ img.imports \in Seq(Nat)
      /\ img.strings \in Seq(StringType)
  BY DEF ImageType
<1>2. \A s \in DOMAIN img.sections : img.sections[s] \in SectionType
  BY <1>1
<1>3. \A i \in DOMAIN img.imports : img.imports[i] \in Nat
  BY <1>1
<1>4. \A i \in DOMAIN img.strings : img.strings[i] \in StringType
  BY <1>1
<1>5. QED BY <1>2, <1>3, <1>4 DEF SectionType, StringType

-----------------------------------------------------------------------------
(* One symbol.                                                             *)

\* A byte no slot covers is the file's, or zero past its data.
LEMMA PlainByte ==
  ASSUME NEW img \in ImageType, NEW s \in DOMAIN img.sections, NEW p \in Nat,
         \A i \in DOMAIN img.imports :
           LET a == img.sections[s].addr + p
           IN  a < img.imports[i] \/ img.imports[i] + SlotSize <= a,
         NEW b,
         b = IF p < img.sections[s].dsize
               THEN FileByte(img.sections[s].offset + p) ELSE ZeroByte
  PROVE  Loads(img, s, p, b)
<1>1. Covering(img, img.sections[s].addr + p) = {}
  BY ImageParts DEF Covering, SlotSize
<1>2. QED BY <1>1 DEF Loads

\* A byte of a covering slot is that slot's.
LEMMA CoveredByte ==
  ASSUME NEW img, NEW s, NEW p, NEW a, a = img.sections[s].addr + p,
         NEW i \in Covering(img, a),
         NEW b, b = SlotByte(i, a - img.imports[i])
  PROVE  Loads(img, s, p, b)
BY DEF Loads

\* What is emitted for the slot at an address is the slot.
LEMMA SlotEmission ==
  ASSUME NEW img \in ImageType, NEW s \in DOMAIN img.sections, NEW p \in Nat,
         NEW a, a = img.sections[s].addr + p,
         NEW slot, slot = SlotText(img, a)
  PROVE  /\ slot \in Seq(Byte)
         /\ ImportsAt(img, a) = {} => Len(slot) = 0
         /\ ImportsAt(img, a) # {} => Len(slot) = SlotSize
         /\ \A k \in 1..Len(slot) : Loads(img, s, p + k - 1, slot[k])
<1> DEFINE i == FirstOf(ImportsAt(img, a))
<1>0. a \in Nat /\ img.sections[s].addr \in Nat
  BY ImageParts
<1>1. CASE ImportsAt(img, a) = {}
  <2>1. slot = << >>
    BY <1>1 DEF SlotText
  <2>2. slot \in Seq(Byte) /\ Len(slot) = 0
    BY <2>1, EmptySeq
  <2>3. QED BY <1>1, <2>2
<1>2. CASE ImportsAt(img, a) # {}
  <2>1. i \in DOMAIN img.imports /\ i \in Nat /\ img.imports[i] = a
    BY <1>0, <1>2, FoundImport
  <2>2. slot = SlotWord(i)
    BY <1>2 DEF SlotText
  <2> HIDE DEF i
  <2>3. /\ slot \in Seq(Byte)
        /\ Len(slot) = SlotSize
        /\ \A k \in 1..SlotSize : slot[k] = SlotByte(i, k - 1)
    BY <2>1, <2>2, SlotBytes
  <2>4. ASSUME NEW k \in 1..SlotSize
        PROVE  Loads(img, s, p + k - 1, slot[k])
    <3>1. PICK q \in Nat : q = p + k - 1
      BY DEF SlotSize
    <3>2. PICK b \in Nat : b = img.sections[s].addr + q
      BY <1>0
    <3>3. b = a + (k - 1) /\ k - 1 < SlotSize /\ k - 1 \in Nat
      BY <1>0, <3>1, <3>2 DEF SlotSize
    <3>4. i \in Covering(img, b) /\ b - img.imports[i] = k - 1
      BY <1>0, <2>1, <3>3 DEF Covering, SlotSize
    <3>5. slot[k] = SlotByte(i, b - img.imports[i])
      BY <2>3, <3>4
    <3>6. Loads(img, s, q, slot[k])
      BY <3>2, <3>4, <3>5, CoveredByte
    <3>7. QED BY <3>1, <3>6
  <2>5. QED BY <1>2, <2>3, <2>4
<1>3. QED BY <1>1, <1>2

\* The length of what is emitted for a string resource is its size.
LEMMA StringLength ==
  ASSUME NEW img \in ImageType, NEW sec \in SectionType, NEW p \in Nat,
         StringsAt(img, sec.addr + p) # {},
         NEW i, i = FirstOf(StringsAt(img, sec.addr + p)),
         NEW n, n = img.strings[i].size
  PROVE  Len(StringText(img, sec, p)) = n
<1>1. sec.addr \in Nat /\ sec.offset \in Nat
  BY DEF SectionType
<1>2. i \in DOMAIN img.strings
  BY <1>1, FoundString
<1>3. n \in Nat
  BY <1>2, ImageParts
<1>4. StringText(img, sec, p) = Incbin(sec.offset + p, n)
  BY DEF StringText
<1>5. PICK o \in Nat : o = sec.offset + p
  BY <1>1
<1>6. Len(Incbin(o, n)) = n
  BY <1>3, IncbinBytes
<1>7. QED BY <1>4, <1>5, <1>6

\* What is emitted for a string resource is its bytes in the file, none of
\* which a slot covers.
LEMMA StringEmission ==
  ASSUME NEW img \in ImageType, WellFormed(img),
         NEW s \in DOMAIN img.sections, NEW p \in Nat,
         NEW sec, sec = img.sections[s],
         NEW a, a = sec.addr + p,
         NEW string, string = StringText(img, sec, p)
  PROVE  /\ string \in Seq(Byte)
         /\ StringsAt(img, a) = {} => Len(string) = 0
         /\ \A k \in 1..Len(string) :
              p < sec.vsize => Loads(img, s, p + k - 1, string[k])
<1> DEFINE i == FirstOf(StringsAt(img, a))
<1>0. /\ a \in Nat /\ sec \in SectionType
      /\ sec.addr \in Nat /\ sec.offset \in Nat /\ sec.vsize \in Nat /\ sec.dsize \in Nat
  BY ImageParts
<1>1. CASE StringsAt(img, a) = {}
  <2>1. string = << >>
    BY <1>1 DEF StringText
  <2>2. string \in Seq(Byte) /\ Len(string) = 0
    BY <2>1, EmptySeq
  <2>3. QED BY <1>1, <2>2
<1>2. CASE StringsAt(img, a) # {}
  <2>1. i \in DOMAIN img.strings /\ img.strings[i].addr = a
    BY <1>0, <1>2, FoundString
  <2>2. string = Incbin(sec.offset + p, img.strings[i].size)
    BY <1>2 DEF StringText
  <2>3. img.strings[i].size \in Nat /\ sec.offset + p \in Nat
    BY <1>0, <2>1, ImageParts
  <2> DEFINE n == img.strings[i].size
             o == sec.offset + p
  <2> HIDE DEF n, o
  <2>4. /\ string \in Seq(Byte)
        /\ Len(string) = n
        /\ \A k \in 1..n : string[k] = FileByte(o + k - 1)
    <3>1. string = Incbin(o, n) /\ o \in Nat /\ n \in Nat
      BY <2>2, <2>3 DEF o, n
    <3>2. QED BY <3>1, IncbinBytes, ZenonT(40)
  <2>5. ASSUME p < sec.vsize, NEW k \in 1..n
        PROVE  Loads(img, s, p + k - 1, string[k])
    <3> DEFINE r == StringRange(img, i)
    <3>0. n \in Nat
      BY <2>3 DEF n
    <3>1. r.lo = a /\ r.hi = a + n
      BY <2>1 DEF StringRange, n
    <3>2. ~Straddles(r, sec) /\ (Within(r, sec.addr, sec.addr + sec.vsize)
                                   => r.hi <= sec.addr + sec.dsize)
      BY <2>1 DEF WellFormed
    <3>3. \A j \in DOMAIN img.imports : Disjoint(ImportRange(img, j), r)
      BY <2>1 DEF WellFormed
    <3> HIDE DEF r, i
    <3>4. a + n <= sec.addr + sec.dsize
      BY <1>0, <3>0, <2>5, <3>1, <3>2 DEF Straddles, Within
    <3>5. \A j \in DOMAIN img.imports :
            a + (k - 1) < img.imports[j] \/ img.imports[j] + SlotSize <= a + (k - 1)
      BY <1>0, <3>0, <3>1, <3>3, ImageParts DEF Disjoint, ImportRange, SlotSize
    <3>6. p + k - 1 < sec.dsize /\ p + k - 1 \in Nat
      BY <1>0, <3>0, <3>4
    <3>7. sec.addr + (p + k - 1) = a + (k - 1)
          /\ o + k - 1 = sec.offset + (p + k - 1)
      BY <1>0, <3>0 DEF o
    <3>8. string[k] = FileByte(sec.offset + (p + k - 1))
      BY <2>4, <3>7
    <3>9. QED BY <3>5, <3>6, <3>7, <3>8, PlainByte
  <2>6. QED BY <1>2, <2>4, <2>5 DEF n
<1>3. QED BY <1>1, <1>2

-----------------------------------------------------------------------------
(* One turn of the scan.                                                   *)

\* The first n bytes of section s, as far as the section goes, are right.
Rebuilt(img, s, t, n) ==
  /\ t \in Seq(Byte) /\ Len(t) = n
  /\ \A p \in 0..(n - 1) : p < img.sections[s].vsize => Loads(img, s, p, t[p + 1])

\* No symbol that starts before an address reaches past it.
Clean(img, a) ==
  /\ \A i \in DOMAIN img.imports : img.imports[i] < a => ImportRange(img, i).hi <= a
  /\ \A i \in DOMAIN img.strings : img.strings[i].addr < a => StringRange(img, i).hi <= a

\* No symbol starts between two offsets of a section.
Free(img, sec, from, to) ==
  \A q \in from..(to - 1) :
     ImportsAt(img, sec.addr + q) = {} /\ StringsAt(img, sec.addr + q) = {}

\* Right bytes after right bytes.
LEMMA AppendRebuilt ==
  ASSUME NEW img \in ImageType, NEW s \in DOMAIN img.sections, NEW n \in Nat,
         NEW t, Rebuilt(img, s, t, n),
         NEW w \in Seq(Byte), NEW m \in Nat, Len(w) = m,
         \A k \in 1..m :
            n + (k - 1) < img.sections[s].vsize => Loads(img, s, n + (k - 1), w[k])
  PROVE  Rebuilt(img, s, t \o w, n + m)
<1>1. /\ t \o w \in Seq(Byte)
      /\ Len(t \o w) = n + m
      /\ \A k \in 1..n : (t \o w)[k] = t[k]
      /\ \A k \in 1..m : (t \o w)[n + k] = w[k]
  <2>1. t \in Seq(Byte) /\ Len(t) = n
    BY DEF Rebuilt
  <2>2. t \o w \in Seq(Byte) /\ Joins(t \o w, t, n, w, m)
    BY <2>1, JoinedBytes
  <2>3. QED BY <2>2 DEF Joins
<1>2. ASSUME NEW p \in 0..((n + m) - 1), p < img.sections[s].vsize
      PROVE  Loads(img, s, p, (t \o w)[p + 1])
  <2>1. CASE p < n
    BY <1>1, <1>2, <2>1 DEF Rebuilt
  <2>2. CASE ~(p < n)
    <3>1. PICK k \in 1..m : k = (p - n) + 1
      BY <1>2, <2>2
    <3>2. n + (k - 1) = p /\ n + k = p + 1
      BY <3>1
    <3>3. QED BY <1>1, <1>2, <3>2
  <2>3. QED BY <2>1, <2>2
<1>3. n + m \in Nat
  OBVIOUS
<1>4. QED BY <1>1, <1>2 DEF Rebuilt

\* A flush that starts clean and meets no symbol rebuilds the bytes it covers.
LEMMA FlushRebuilt ==
  ASSUME NEW img \in ImageType, NEW s \in DOMAIN img.sections,
         NEW sec, sec = img.sections[s],
         NEW from \in Nat, NEW to \in Nat, from <= to,
         NEW t, Rebuilt(img, s, t, from),
         Clean(img, sec.addr + from), Free(img, sec, from, to)
  PROVE  Rebuilt(img, s, t \o Flush(sec, from, to), to)
<1>1. /\ sec \in SectionType
      /\ sec.addr \in Nat /\ sec.vsize \in Nat /\ sec.dsize \in Nat /\ sec.offset \in Nat
  BY ImageParts
<1>2. PICK m \in Nat : m = to - from
  OBVIOUS
<1>3. /\ Flush(sec, from, to) \in Seq(Byte)
      /\ Len(Flush(sec, from, to)) = m
      /\ \A k \in 1..m : Flush(sec, from, to)[k] =
            IF from + k - 1 < sec.dsize THEN FileByte(sec.offset + from + k - 1)
                                        ELSE ZeroByte
  <2>1. /\ Flush(sec, from, to) \in Seq(Byte)
        /\ Len(Flush(sec, from, to)) = to - from
        /\ \A k \in 1..(to - from) :
              Flush(sec, from, to)[k] =
                IF from + k - 1 < sec.dsize THEN FileByte(sec.offset + from + k - 1)
                                            ELSE ZeroByte
    BY <1>1, FlushBytes, ZenonT(40)
  <2>2. QED BY <1>2, <2>1
<1>4. ASSUME NEW k \in 1..m
      PROVE  Loads(img, s, from + (k - 1), Flush(sec, from, to)[k])
  <2>1. PICK p \in Nat : p = from + (k - 1)
    OBVIOUS
  <2>2. from + k - 1 = p /\ sec.offset + from + k - 1 = sec.offset + p
    BY <1>1, <2>1
  <2>3. Flush(sec, from, to)[k] = IF p < sec.dsize THEN FileByte(sec.offset + p)
                                                   ELSE ZeroByte
    BY <1>3, <2>2
  <2>4. ASSUME NEW i \in DOMAIN img.imports
        PROVE  sec.addr + p < img.imports[i] \/ img.imports[i] + SlotSize <= sec.addr + p
    <3>1. img.imports[i] \in Nat
      BY ImageParts
    <3>2. from <= p /\ p < to
      BY <1>2, <2>1
    <3>3. CASE img.imports[i] < sec.addr + from
      BY <1>1, <3>1, <3>2, <3>3 DEF Clean, ImportRange, SlotSize
    <3>4. CASE sec.addr + from <= img.imports[i] /\ img.imports[i] <= sec.addr + p
      <4>1. PICK q \in Nat : q = img.imports[i] - sec.addr
        BY <1>1, <3>1, <3>4
      <4>2. from <= q /\ q < to /\ img.imports[i] = sec.addr + q
        BY <1>1, <3>1, <3>2, <3>4, <4>1
      <4>3. i \in ImportsAt(img, sec.addr + q)
        BY <4>2 DEF ImportsAt
      <4>4. QED BY <4>2, <4>3 DEF Free
    <3>5. QED BY <1>1, <3>1, <3>3, <3>4
  <2>5. Loads(img, s, p, Flush(sec, from, to)[k])
    BY <2>3, <2>4, PlainByte
  <2>6. QED BY <2>1, <2>5
<1>5. from + m = to
  BY <1>2
<1>6. Rebuilt(img, s, t \o Flush(sec, from, to), from + m)
  BY <1>3, <1>4, AppendRebuilt
<1>7. QED BY <1>5, <1>6

\* Where no symbol starts, none comes to cross either.
LEMMA CleanFree ==
  ASSUME NEW img \in ImageType, NEW sec \in SectionType,
         NEW from \in Nat, NEW to \in Nat, from <= to,
         Clean(img, sec.addr + from), Free(img, sec, from, to)
  PROVE  Clean(img, sec.addr + to)
<1>0. sec.addr \in Nat
  BY DEF SectionType
<1>1. ASSUME NEW i \in DOMAIN img.imports, img.imports[i] < sec.addr + to
      PROVE  ImportRange(img, i).hi <= sec.addr + to
  <2>1. img.imports[i] \in Nat
    BY ImageParts
  <2>2. CASE img.imports[i] < sec.addr + from
    BY <1>0, <2>1, <2>2 DEF Clean, ImportRange, SlotSize
  <2>3. CASE ~(img.imports[i] < sec.addr + from)
    <3>1. PICK q \in Nat : q = img.imports[i] - sec.addr
      BY <1>0, <2>1, <2>3
    <3>2. from <= q /\ q < to /\ img.imports[i] = sec.addr + q
      BY <1>0, <1>1, <2>1, <2>3, <3>1
    <3>3. i \in ImportsAt(img, sec.addr + q)
      BY <3>2 DEF ImportsAt
    <3>4. QED BY <3>2, <3>3 DEF Free
  <2>4. QED BY <2>2, <2>3
<1>2. ASSUME NEW i \in DOMAIN img.strings, img.strings[i].addr < sec.addr + to
      PROVE  StringRange(img, i).hi <= sec.addr + to
  <2>1. img.strings[i].addr \in Nat /\ img.strings[i].size \in Nat
    BY ImageParts
  <2>2. CASE img.strings[i].addr < sec.addr + from
    BY <1>0, <2>1, <2>2 DEF Clean, StringRange
  <2>3. CASE ~(img.strings[i].addr < sec.addr + from)
    <3>1. PICK q \in Nat : q = img.strings[i].addr - sec.addr
      BY <1>0, <2>1, <2>3
    <3>2. from <= q /\ q < to /\ img.strings[i].addr = sec.addr + q
      BY <1>0, <1>2, <2>1, <2>3, <3>1
    <3>3. i \in StringsAt(img, sec.addr + q)
      BY <3>2 DEF StringsAt
    <3>4. QED BY <3>2, <3>3 DEF Free
  <2>4. QED BY <2>2, <2>3
<1>3. QED BY <1>1, <1>2 DEF Clean

\* A slot and a string resource do not start at the same address, and no two
\* of a kind do.
LEMMA OneSymbol ==
  ASSUME NEW img \in ImageType, WellFormed(img), NEW a \in Nat
  PROVE  /\ ImportsAt(img, a) = {} \/ StringsAt(img, a) = {}
         /\ \A i, j \in ImportsAt(img, a) : i = j
         /\ \A i, j \in StringsAt(img, a) : i = j
<1>1. \A i \in DOMAIN img.strings : img.strings[i].size \in Nat /\ img.strings[i].size > 0
  BY ImageParts
<1>2. ASSUME NEW i \in ImportsAt(img, a), NEW j \in StringsAt(img, a)
      PROVE  FALSE
  <2>1. Disjoint(ImportRange(img, i), StringRange(img, j))
    BY DEF ImportsAt, StringsAt, WellFormed
  <2>2. img.imports[i] = a /\ img.strings[j].addr = a /\ j \in DOMAIN img.strings
    BY DEF ImportsAt, StringsAt
  <2>3. QED BY <1>1, <2>1, <2>2 DEF Disjoint, ImportRange, StringRange, SlotSize
<1>3. ASSUME NEW i \in ImportsAt(img, a), NEW j \in ImportsAt(img, a), i # j
      PROVE  FALSE
  <2>1. Disjoint(ImportRange(img, i), ImportRange(img, j))
    BY <1>3 DEF ImportsAt, WellFormed
  <2>2. img.imports[i] = a /\ img.imports[j] = a
    BY DEF ImportsAt
  <2>3. QED BY <2>1, <2>2 DEF Disjoint, ImportRange, SlotSize
<1>4. ASSUME NEW i \in StringsAt(img, a), NEW j \in StringsAt(img, a), i # j
      PROVE  FALSE
  <2>1. Disjoint(StringRange(img, i), StringRange(img, j))
    BY <1>4 DEF StringsAt, WellFormed
  <2>2. /\ img.strings[i].addr = a /\ img.strings[j].addr = a
        /\ i \in DOMAIN img.strings /\ j \in DOMAIN img.strings
    BY DEF StringsAt
  <2>3. QED BY <1>1, <2>1, <2>2 DEF Disjoint, StringRange
<1>5. QED BY <1>2, <1>3, <1>4

\* What is emitted for a symbol at an address is as long as the symbol, and no other
\* symbol meets it.
SymbolEnd(img, sec, a, slot, string, hi) ==
  /\ hi = a + (Len(slot) + Len(string))
  /\ hi > a
  /\ ~Straddles([lo |-> a, hi |-> hi], sec)
  /\ \A j \in DOMAIN img.imports :
        \/ img.imports[j] = a /\ ImportRange(img, j).hi = hi
        \/ hi <= img.imports[j] \/ ImportRange(img, j).hi <= a
  /\ \A j \in DOMAIN img.strings :
        \/ img.strings[j].addr = a /\ StringRange(img, j).hi = hi
        \/ hi <= img.strings[j].addr \/ StringRange(img, j).hi <= a

\* The symbol at an address, if any, ends somewhere.
LEMMA SymbolRange ==
  ASSUME NEW img \in ImageType, WellFormed(img),
         NEW s \in DOMAIN img.sections, NEW sec, sec = img.sections[s],
         NEW to \in Nat, NEW a, a = sec.addr + to, SymbolAt(img, a),
         NEW slot, slot = SlotText(img, a),
         NEW string, string = StringText(img, sec, to)
  PROVE  \E hi \in Nat : SymbolEnd(img, sec, a, slot, string, hi)
<1>0. /\ sec.addr \in Nat /\ a \in Nat
      /\ \A i \in DOMAIN img.strings : img.strings[i].size \in Nat /\ img.strings[i].size > 0
  BY ImageParts
<1>1. CASE ImportsAt(img, a) # {}
  <2>1. PICK i : i = FirstOf(ImportsAt(img, a))
    OBVIOUS
  <2>2. i \in DOMAIN img.imports /\ img.imports[i] = a
    BY <1>0, <1>1, <2>1, FoundImport
  <2>3. Len(slot) = SlotSize
    BY <1>1, SlotEmission
  <2>4. StringsAt(img, a) = {}
    BY <1>0, <1>1, OneSymbol
  <2>5. Len(string) = 0
    BY <2>4, StringEmission
  <2>6. ImportRange(img, i) = [lo |-> a, hi |-> a + SlotSize]
    BY <2>2 DEF ImportRange
  <2>7. \A j \in DOMAIN img.imports : j = i \/ Disjoint(ImportRange(img, j), ImportRange(img, i))
    BY <2>2 DEF WellFormed
  <2>8. \A j \in DOMAIN img.strings : Disjoint(ImportRange(img, i), StringRange(img, j))
    BY <2>2 DEF WellFormed
  <2>9. ~Straddles(ImportRange(img, i), sec)
    BY <2>2 DEF WellFormed
  <2>10. PICK hi \in Nat : hi = a + SlotSize
    BY <1>0 DEF SlotSize
  <2>11. hi = a + (Len(slot) + Len(string)) /\ hi > a
    <3>1. Len(slot) + Len(string) = SlotSize
      BY <2>3, <2>5 DEF SlotSize
    <3>2. QED BY <1>0, <2>10, <3>1 DEF SlotSize
  <2>12. \A j \in DOMAIN img.imports :
                 \/ img.imports[j] = a /\ ImportRange(img, j).hi = hi
                 \/ hi <= img.imports[j] \/ ImportRange(img, j).hi <= a
    BY <1>0, <2>2, <2>6, <2>7, <2>10 DEF Disjoint, ImportRange
  <2>13. \A j \in DOMAIN img.strings :
                 hi <= img.strings[j].addr \/ StringRange(img, j).hi <= a
    BY <1>0, <2>6, <2>8, <2>10 DEF Disjoint, StringRange
  <2>14. ~Straddles([lo |-> a, hi |-> hi], sec)
    BY <2>6, <2>9, <2>10
  <2>15. SymbolEnd(img, sec, a, slot, string, hi)
    BY <2>11, <2>12, <2>13, <2>14 DEF SymbolEnd
  <2>16. QED BY <2>15
<1>2. CASE StringsAt(img, a) # {}
  <2>1. PICK i : i = FirstOf(StringsAt(img, a))
    OBVIOUS
  <2>2. i \in DOMAIN img.strings /\ img.strings[i].addr = a
    BY <1>0, <1>2, <2>1, FoundString
  <2>3. PICK n \in Nat : n = img.strings[i].size /\ n > 0
    BY <1>0, <2>2
  <2>4. ImportsAt(img, a) = {}
    BY <1>0, <1>2, OneSymbol
  <2>5. Len(slot) = 0
    BY <2>4, SlotEmission
  <2>6. Len(string) = n
    <3>1. sec \in SectionType
      BY ImageParts
    <3>2. Len(StringText(img, sec, to)) = n
      BY <1>2, <2>1, <2>3, <3>1, StringLength
    <3>3. QED BY <3>2
  <2>7. StringRange(img, i) = [lo |-> a, hi |-> a + n]
    BY <2>2, <2>3 DEF StringRange
  <2>8. \A j \in DOMAIN img.strings : j = i \/ Disjoint(StringRange(img, j), StringRange(img, i))
    BY <2>2 DEF WellFormed
  <2>9. \A j \in DOMAIN img.imports : Disjoint(ImportRange(img, j), StringRange(img, i))
    BY <2>2 DEF WellFormed
  <2>10. ~Straddles(StringRange(img, i), sec)
    BY <2>2 DEF WellFormed
  <2>11. PICK hi \in Nat : hi = a + n
    BY <1>0
  <2>12. hi = a + (Len(slot) + Len(string)) /\ hi > a
    BY <1>0, <2>3, <2>5, <2>6, <2>11
  <2>13. \A j \in DOMAIN img.imports :
                 hi <= img.imports[j] \/ ImportRange(img, j).hi <= a
    BY <1>0, <2>7, <2>9, <2>11 DEF Disjoint, ImportRange
  <2>14. \A j \in DOMAIN img.strings :
                 \/ img.strings[j].addr = a /\ StringRange(img, j).hi = hi
                 \/ hi <= img.strings[j].addr \/ StringRange(img, j).hi <= a
    BY <1>0, <2>2, <2>7, <2>8, <2>11 DEF Disjoint, StringRange
  <2>15. ~Straddles([lo |-> a, hi |-> hi], sec)
    BY <2>7, <2>10, <2>11
  <2>16. SymbolEnd(img, sec, a, slot, string, hi)
    BY <2>12, <2>13, <2>14, <2>15 DEF SymbolEnd
  <2>17. QED BY <2>16
<1>3. QED BY <1>1, <1>2 DEF SymbolAt

\* What is emitted at offset `to' of section s, after t: right bytes, up to an
\* address no symbol crosses, and past the section's end only for a symbol that
\* starts there.
Emitted(img, s, to, t, a, slot, string) ==
  /\ Len(slot) \in Nat /\ Len(string) \in Nat
  /\ Rebuilt(img, s, t \o slot, to + Len(slot))
  /\ Rebuilt(img, s, (t \o slot) \o string, to + Len(slot) + Len(string))
  /\ Clean(img, a + (Len(slot) + Len(string)))
  /\ Len(slot) + Len(string) > 0 <=> SymbolAt(img, a)
  /\ to < img.sections[s].vsize =>
       to + Len(slot) + Len(string) <= img.sections[s].vsize
  /\ StringsAt(img, a) # {} => Len(slot) = 0

\* dump_do_import and dump_do_rsrc_string emit what they should.
LEMMA SymbolRebuilt ==
  ASSUME NEW img \in ImageType, WellFormed(img),
         NEW s \in DOMAIN img.sections, NEW sec, sec = img.sections[s],
         NEW to \in Nat, to <= sec.vsize, NEW a, a = sec.addr + to,
         NEW t, Rebuilt(img, s, t, to), Clean(img, a),
         NEW slot, slot = SlotText(img, a),
         NEW string, string = StringText(img, sec, to)
  PROVE  Emitted(img, s, to, t, a, slot, string)
<1>0. /\ sec \in SectionType /\ sec.addr \in Nat /\ sec.vsize \in Nat /\ a \in Nat
  BY ImageParts
<1>1. /\ slot \in Seq(Byte)
      /\ ImportsAt(img, a) = {} => Len(slot) = 0
      /\ \A k \in 1..Len(slot) : Loads(img, s, to + k - 1, slot[k])
  BY SlotEmission
<1>2. /\ string \in Seq(Byte)
      /\ StringsAt(img, a) = {} => Len(string) = 0
      /\ \A k \in 1..Len(string) :
           to < sec.vsize => Loads(img, s, to + k - 1, string[k])
  BY StringEmission, SMTT(90)
<1>3. ImportsAt(img, a) = {} \/ StringsAt(img, a) = {}
  BY <1>0, OneSymbol
<1>4. PICK m \in Nat, n \in Nat : m = Len(slot) /\ n = Len(string)
  BY <1>1, <1>2, LenProperties
<1>5. Rebuilt(img, s, t \o slot, to + m)
  BY <1>1, <1>4, AppendRebuilt
<1>6. Rebuilt(img, s, (t \o slot) \o string, (to + m) + n)
  <2>1. m = 0 \/ n = 0
    BY <1>1, <1>2, <1>3, <1>4
  <2>2. ASSUME NEW k \in 1..n, (to + m) + (k - 1) < sec.vsize
        PROVE  Loads(img, s, (to + m) + (k - 1), string[k])
    <3>1. m = 0
      BY <2>1
    <3>2. to < sec.vsize /\ (to + m) + (k - 1) = to + k - 1
      BY <1>0, <2>2, <3>1
    <3>3. QED BY <1>2, <1>4, <3>2
  <2>3. to + m \in Nat
    OBVIOUS
  <2>4. QED BY <1>2, <1>4, <1>5, <2>2, <2>3, AppendRebuilt
<1>7. ~SymbolAt(img, a) => m + n = 0
  BY <1>1, <1>2, <1>4 DEF SymbolAt
<1>8. /\ Clean(img, a + (m + n))
      /\ to < sec.vsize => to + m + n <= sec.vsize
      /\ SymbolAt(img, a) => m + n > 0
  <2>1. CASE ~SymbolAt(img, a)
    BY <1>0, <1>7, <2>1
  <2>2. CASE SymbolAt(img, a)
    <3>1. PICK hi \in Nat :
           /\ hi = a + (m + n)
           /\ hi > a
           /\ ~Straddles([lo |-> a, hi |-> hi], sec)
           /\ \A j \in DOMAIN img.imports :
                 \/ img.imports[j] = a /\ ImportRange(img, j).hi = hi
                 \/ hi <= img.imports[j] \/ ImportRange(img, j).hi <= a
           /\ \A j \in DOMAIN img.strings :
                 \/ img.strings[j].addr = a /\ StringRange(img, j).hi = hi
                 \/ hi <= img.strings[j].addr \/ StringRange(img, j).hi <= a
      <4>1. a + (m + n) = a + (Len(slot) + Len(string))
        BY <1>4
      <4>2. PICK hi \in Nat : SymbolEnd(img, sec, a, slot, string, hi)
        BY <2>2, SymbolRange
      <4>3. QED BY <4>1, <4>2 DEF SymbolEnd
    <3>2. m + n > 0
      BY <1>0, <3>1
    <3>3. to < sec.vsize => to + m + n <= sec.vsize
      BY <1>0, <3>1 DEF Straddles, Within
    <3>4. Clean(img, hi)
      BY <1>0, <3>1, ImageParts DEF Clean, ImportRange, StringRange, SlotSize
    <3>5. QED BY <3>1, <3>2, <3>3, <3>4
  <2>3. QED BY <2>1, <2>2
<1>9. (to + m) + n = to + m + n
  OBVIOUS
<1>10. QED BY <1>1, <1>3, <1>4, <1>5, <1>6, <1>7, <1>8, <1>9 DEF Emitted

-----------------------------------------------------------------------------
(* The inductive invariant.                                                *)

\* In the loop over a section: what was emitted is the section up to lastPos,
\* no symbol crosses lastPos or starts between it and pos, and the end of the
\* section is only passed once everything before it is out.
ScanInv ==
  /\ lastPos <= pos
  /\ Rebuilt(image, x, text[x], lastPos)
  /\ Clean(image, Sec.addr + lastPos)
  /\ Free(image, Sec, lastPos, pos)
  /\ pos > Sec.vsize => lastPos >= Sec.vsize
  /\ lastPos > Sec.vsize => SymbolAt(image, Sec.addr + Sec.vsize)

Untouched ==
  \A s \in DOMAIN image.sections :
     s > x \/ (s = x /\ pc = "sections") => text[s] = <<>>

Inv ==
  /\ TypeOK
  /\ WellFormed(image)
  /\ pc = "scan" => ScanInv
  /\ Untouched
  /\ Faithful
  /\ LabelsPlaced

\* The initial states satisfy the invariant.
LEMMA InitInv == Init => Inv
<1> SUFFICES ASSUME Init PROVE Inv
  OBVIOUS
<1> USE DEF Init
<1>1. image \in ImageType /\ WellFormed(image)
  BY ImagesAssumption
<1>2. Len(image.sections) \in Nat /\ DOMAIN image.sections = 1..Len(image.sections)
  BY <1>1 DEF ImageType
<1>3. TypeOK
  BY <1>1, <1>2, EmptySeq DEF TypeOK
<1>4. Untouched
  BY DEF Untouched
<1>5. Faithful
  BY <1>2 DEF Faithful, Finished
<1>6. LabelsPlaced
  BY DEF LabelsPlaced
<1>7. QED BY <1>1, <1>3, <1>4, <1>5, <1>6 DEF Inv

\* BeginSection starts from an empty section at which no symbol is cut.
LEMMA BeginInv == Inv /\ BeginSection => Inv'
<1> SUFFICES ASSUME Inv, BeginSection PROVE Inv'
  OBVIOUS
<1> USE DEF BeginSection
<1>1. image \in ImageType /\ WellFormed(image) /\ TypeOK /\ Untouched /\ Faithful
      /\ LabelsPlaced
  BY DEF Inv, TypeOK
<1>2. Len(image.sections) \in Nat /\ DOMAIN image.sections = 1..Len(image.sections)
      /\ x \in DOMAIN image.sections
  BY <1>1 DEF ImageType, TypeOK
<1>3. TypeOK'
  BY <1>1, <1>2 DEF TypeOK
<1>4. Untouched' /\ Faithful' /\ LabelsPlaced' /\ WellFormed(image)'
  BY <1>1 DEF Untouched, Faithful, Finished, LabelsPlaced, Loads, Covering, SymbolAt,
              ImportsAt, StringsAt, WellFormed
<1>5. ScanInv'
  <2>1. text[x] = << >>
    BY <1>1, <1>2 DEF Untouched
  <2>2. Rebuilt(image, x, text[x], 0)
    BY <2>1, EmptySeq DEF Rebuilt
  <2>3. Sec.addr \in Nat /\ Sec.vsize \in Nat
    BY <1>1, <1>2, ImageParts DEF Sec
  <2>4. \A i \in DOMAIN image.imports : ~Straddles(ImportRange(image, i), Sec)
    BY <1>1, <1>2 DEF WellFormed, Sec
  <2>5. \A i \in DOMAIN image.strings : ~Straddles(StringRange(image, i), Sec)
    BY <1>1, <1>2 DEF WellFormed, Sec
  <2>6. Clean(image, Sec.addr + 0)
    <3>1. ASSUME NEW i \in DOMAIN image.imports, image.imports[i] < Sec.addr
          PROVE  ImportRange(image, i).hi <= Sec.addr
      BY <1>1, <2>3, <2>4, <3>1, ImageParts
         DEF Straddles, Within, ImportRange, SlotSize
    <3>2. ASSUME NEW i \in DOMAIN image.strings, image.strings[i].addr < Sec.addr
          PROVE  StringRange(image, i).hi <= Sec.addr
      BY <1>1, <2>3, <2>5, <3>2, ImageParts DEF Straddles, Within, StringRange
    <3>3. Sec.addr + 0 = Sec.addr
      BY <2>3
    <3>4. QED BY <3>1, <3>2, <3>3 DEF Clean
  <2>7. Free(image, Sec, 0, 0)
    BY DEF Free
  <2>8. Sec' = Sec
    BY DEF Sec
  <2>9. QED BY <2>2, <2>3, <2>6, <2>7, <2>8 DEF ScanInv, Rebuilt, Clean, Free
<1>6. QED BY <1>3, <1>4, <1>5 DEF Inv

\* SkipByte moves past an offset at which no symbol starts.
LEMMA SkipInv == Inv /\ SkipByte => Inv'
<1> SUFFICES ASSUME Inv, SkipByte PROVE Inv'
  OBVIOUS
<1> USE DEF SkipByte, Scanning
<1>1. /\ image \in ImageType /\ WellFormed(image) /\ TypeOK /\ Untouched /\ Faithful
      /\ LabelsPlaced /\ ScanInv
  BY DEF Inv, TypeOK
<1>2. x \in DOMAIN image.sections /\ pos \in Nat /\ lastPos \in Nat
  BY <1>1 DEF TypeOK
<1>3. Sec.addr \in Nat /\ Sec.vsize \in Nat
  BY <1>1, <1>2, ImageParts DEF Sec
<1>4. TypeOK'
  BY <1>1, <1>2 DEF TypeOK
<1>5. Untouched' /\ Faithful' /\ LabelsPlaced' /\ WellFormed(image)'
  BY <1>1 DEF Untouched, Faithful, Finished, LabelsPlaced, Loads, Covering, SymbolAt,
              ImportsAt, StringsAt, WellFormed
<1>6. ScanInv'
  <2>1. /\ ImportsAt(image, Sec.addr + pos) = {}
        /\ StringsAt(image, Sec.addr + pos) = {}
        /\ pos < Sec.vsize
    BY <1>2, <1>3 DEF DumpHere, HereImports, HereStrings
  <2>2. Free(image, Sec, lastPos, pos + 1)
    <3>1. ASSUME NEW q \in lastPos..((pos + 1) - 1)
          PROVE  ImportsAt(image, Sec.addr + q) = {} /\ StringsAt(image, Sec.addr + q) = {}
      <4>1. q = pos \/ q \in lastPos..(pos - 1)
        BY <1>2, <3>1
      <4>2. QED BY <1>1, <2>1, <4>1 DEF ScanInv, Free
    <3>2. QED BY <3>1 DEF Free
  <2>3. Sec' = Sec
    BY DEF Sec
  <2>4. lastPos <= pos + 1 /\ ~(pos + 1 > Sec.vsize)
    BY <1>1, <1>2, <1>3, <2>1 DEF ScanInv
  <2>5. QED BY <1>1, <2>2, <2>3, <2>4
            DEF ScanInv, Rebuilt, Clean, Free, Loads, Covering, SymbolAt, ImportsAt, StringsAt
<1>7. QED BY <1>4, <1>5, <1>6 DEF Inv

\* EndSection leaves a section whose every byte is out.
LEMMA EndSectionInv == Inv /\ EndSection => Inv'
<1> SUFFICES ASSUME Inv, EndSection PROVE Inv'
  OBVIOUS
<1> USE DEF EndSection
<1>1. /\ image \in ImageType /\ WellFormed(image) /\ TypeOK /\ Untouched /\ Faithful
      /\ LabelsPlaced /\ ScanInv
  BY DEF Inv, TypeOK
<1>2. /\ Len(image.sections) \in Nat /\ DOMAIN image.sections = 1..Len(image.sections)
      /\ x \in DOMAIN image.sections /\ pos \in Nat /\ lastPos \in Nat
  BY <1>1 DEF TypeOK, ImageType
<1>3. Sec.addr \in Nat /\ Sec.vsize \in Nat
  BY <1>1, <1>2, ImageParts DEF Sec
<1>4. TypeOK'
  BY <1>1, <1>2 DEF TypeOK
<1>5. Untouched' /\ LabelsPlaced' /\ WellFormed(image)'
  BY <1>1, <1>2 DEF Untouched, LabelsPlaced, WellFormed
<1>6. Faithful'
  <2>1. lastPos >= Sec.vsize /\ Len(text[x]) = lastPos
    BY <1>1 DEF ScanInv, Rebuilt
  <2>2. \A p \in 0..(Sec.vsize - 1) :
          p < Len(text[x]) /\ Loads(image, x, p, text[x][p + 1])
    <3>1. ASSUME NEW p \in 0..(Sec.vsize - 1)
          PROVE  p < Len(text[x]) /\ Loads(image, x, p, text[x][p + 1])
      <4>1. p \in 0..(lastPos - 1) /\ p < Sec.vsize
        BY <1>2, <1>3, <2>1
      <4>2. QED BY <1>1, <1>2, <2>1, <4>1 DEF ScanInv, Rebuilt, Sec
    <3>2. QED BY <3>1
  <2>3. Len(text[x]) = Sec.vsize \/ SymbolAt(image, Sec.addr + Sec.vsize)
    BY <1>1, <1>2, <1>3, <2>1 DEF ScanInv
  <2>4. ASSUME NEW s \in DOMAIN image.sections, s < x + 1
        PROVE  /\ \A p \in 0..(image.sections[s].vsize - 1) :
                     p < Len(text[s]) /\ Loads(image, s, p, text[s][p + 1])
               /\ \/ Len(text[s]) = image.sections[s].vsize
                  \/ SymbolAt(image, image.sections[s].addr + image.sections[s].vsize)
    <3>1. CASE s < x
      BY <1>1, <3>1 DEF Faithful, Finished
    <3>2. CASE s = x
      BY <2>2, <2>3, <3>2 DEF Sec
    <3>3. QED BY <1>2, <2>4, <3>1, <3>2
  <2>5. QED BY <2>4 DEF Faithful, Finished, Loads, Covering, SymbolAt, ImportsAt, StringsAt
<1>7. QED BY <1>4, <1>5, <1>6 DEF Inv

\* The steps that emit nothing into a section.
LEMMA OtherInv ==
  Inv /\ (ExitUnreadable \/ EndSections \/ StringTable) => Inv'
<1> SUFFICES ASSUME Inv, ExitUnreadable \/ EndSections \/ StringTable PROVE Inv'
  OBVIOUS
<1>1. /\ image \in ImageType /\ WellFormed(image) /\ TypeOK /\ Untouched /\ Faithful
      /\ LabelsPlaced
  BY DEF Inv, TypeOK
<1>2. UNCHANGED <<image, x, pos, lastPos, text, labels>> /\ pc' \notin {"scan", "sections"}
  BY DEF ExitUnreadable, EndSections, StringTable
<1>3. table' \in Seq(Nat)
  <2>1. CASE StringTable
    <3>1. \A i \in DOMAIN image.strings : image.strings[i].id \in Nat
      BY <1>1, ImageParts
    <3>2. Len(image.strings) \in Nat /\ DOMAIN image.strings = 1..Len(image.strings)
      BY <1>1 DEF ImageType
    <3>3. table' \in [1..Len(image.strings) -> Nat]
      BY <2>1, <3>1, <3>2 DEF StringTable
    <3>4. QED BY <3>2, <3>3
  <2>2. CASE ExitUnreadable \/ EndSections
    BY <1>1, <2>2 DEF TypeOK, ExitUnreadable, EndSections
  <2>3. QED BY <2>1, <2>2
<1>4. TypeOK'
  BY <1>1, <1>2, <1>3 DEF TypeOK, ExitUnreadable, EndSections, StringTable
<1>5. Untouched' /\ Faithful' /\ LabelsPlaced' /\ WellFormed(image)'
  BY <1>1, <1>2 DEF Untouched, Faithful, Finished, LabelsPlaced, Loads, Covering, SymbolAt,
              ImportsAt, StringsAt, WellFormed
<1>6. QED BY <1>2, <1>4, <1>5 DEF Inv

\* DumpSymbol emits the bytes since the last symbol, then this one.
LEMMA DumpSymbolInv == Inv /\ DumpSymbol => Inv'
<1> SUFFICES ASSUME Inv, DumpSymbol PROVE Inv'
  OBVIOUS
<1>1. /\ image \in ImageType /\ WellFormed(image) /\ TypeOK /\ Untouched /\ Faithful
      /\ LabelsPlaced /\ ScanInv /\ pc = "scan"
  BY DEF Inv, TypeOK, DumpSymbol, Scanning
<1>2. /\ x \in DOMAIN image.sections /\ pos \in Nat /\ lastPos \in Nat
      /\ text \in [DOMAIN image.sections -> Seq(Byte)]
      /\ DOMAIN image.sections = 1..Len(image.sections)
  BY <1>1 DEF TypeOK, ImageType
<1>3. Sec.addr \in Nat /\ Sec.vsize \in Nat /\ Sec \in SectionType /\ Sec = image.sections[x]
  BY <1>1, <1>2, ImageParts DEF Sec
<1>4. pos <= Sec.vsize /\ pc = "scan" /\ pc' = pc /\ UNCHANGED <<image, x, table>>
  BY DEF DumpSymbol, Scanning
<1>5. PICK a \in Nat : a = Sec.addr + pos
  BY <1>2, <1>3
<1>6. PICK flushed, slot, string :
        /\ flushed = text[x] \o Flush(Sec, lastPos, pos)
        /\ slot = SlotText(image, Sec.addr + pos)
        /\ string = StringText(image, Sec, pos)
  OBVIOUS
<1>7. PICK end : end = pos + Len(slot) + Len(string)
  OBVIOUS
<1>8. /\ text' = [text EXCEPT ![x] = (flushed \o slot) \o string]
      /\ lastPos' = end
      /\ pos' = Advance(end)
      /\ labels' = (labels
              \cup (IF HereExports = {} THEN {}
                    ELSE ExportLabels(FirstOf(HereExports), Len(flushed))))
              \cup (IF HereStrings = {} THEN {}
                    ELSE {LabelAt("string", image.strings[FirstOf(HereStrings)].id,
                                  Len(flushed \o slot))})
  BY <1>6, <1>7 DEF DumpSymbol
<1>9. lastPos <= pos
  BY <1>1 DEF ScanInv
<1>10. Rebuilt(image, x, flushed, pos)
  BY <1>1, <1>2, <1>3, <1>6, <1>9, FlushRebuilt DEF ScanInv
<1>11. Clean(image, a)
  BY <1>1, <1>2, <1>3, <1>5, <1>9, CleanFree DEF ScanInv
<1>12. /\ Len(slot) \in Nat /\ Len(string) \in Nat
       /\ Rebuilt(image, x, flushed \o slot, pos + Len(slot))
       /\ Rebuilt(image, x, (flushed \o slot) \o string, pos + Len(slot) + Len(string))
       /\ Clean(image, a + (Len(slot) + Len(string)))
       /\ Len(slot) + Len(string) > 0 <=> SymbolAt(image, a)
       /\ pos < Sec.vsize => pos + Len(slot) + Len(string) <= Sec.vsize
       /\ StringsAt(image, a) # {} => Len(slot) = 0
  <2>1. slot = SlotText(image, a) /\ string = StringText(image, Sec, pos)
    BY <1>5, <1>6
  <2>2. /\ image \in ImageType /\ WellFormed(image) /\ x \in DOMAIN image.sections
        /\ Sec = image.sections[x] /\ pos \in Nat /\ pos <= Sec.vsize
        /\ a = Sec.addr + pos
    BY <1>1, <1>2, <1>3, <1>4, <1>5
  <2>3. Emitted(image, x, pos, flushed, a, slot, string)
    BY <1>10, <1>11, <2>1, <2>2, SymbolRebuilt
  <2>4. QED BY <2>2, <2>3 DEF Emitted
<1>13. /\ end \in Nat /\ end >= pos
       /\ Rebuilt(image, x, (flushed \o slot) \o string, end)
       /\ Clean(image, Sec.addr + end)
       /\ end > pos <=> SymbolAt(image, a)
       /\ pos < Sec.vsize => end <= Sec.vsize
  <2>1. Sec.addr + end = a + (Len(slot) + Len(string))
    BY <1>2, <1>3, <1>5, <1>7, <1>12, SMTT(30)
  <2>2. QED BY <1>2, <1>7, <1>12, <2>1
<1>14. text'[x] = (flushed \o slot) \o string
       /\ \A s \in DOMAIN image.sections : s # x => text'[s] = text[s]
  BY <1>2, <1>8
<1>15. ScanInv'
  <2>1. lastPos' <= pos'
    BY <1>2, <1>8, <1>13 DEF Advance
  <2>2. Free(image, Sec, lastPos', pos')
    <3>1. CASE end = pos
      <4>1. ImportsAt(image, a) = {} /\ StringsAt(image, a) = {}
        BY <1>2, <1>13, <3>1 DEF SymbolAt
      <4>2. \A q \in pos..((pos + 1) - 1) : q = pos
        BY <1>2
      <4>3. QED BY <1>5, <1>8, <3>1, <4>1, <4>2 DEF Advance, Free
    <3>2. CASE end # pos
      <4>1. pos' = end /\ lastPos' = end /\ end \in Nat
        BY <1>8, <1>13, <3>2 DEF Advance
      <4>2. end..(end - 1) = {}
        BY <1>13
      <4>3. QED BY <4>1, <4>2 DEF Free
    <3>3. QED BY <3>1, <3>2
  <2>3. pos' > Sec.vsize => lastPos' >= Sec.vsize
    BY <1>2, <1>3, <1>8, <1>13 DEF Advance
  <2>4. lastPos' > Sec.vsize => SymbolAt(image, Sec.addr + Sec.vsize)
    BY <1>2, <1>3, <1>4, <1>5, <1>8, <1>13
  <2>5. Sec' = Sec
    BY <1>4 DEF Sec
  <2>6. Rebuilt(image, x, text'[x], lastPos') /\ Clean(image, Sec.addr + lastPos')
    BY <1>8, <1>13, <1>14
  <2>7. QED BY <1>4, <2>1, <2>2, <2>3, <2>4, <2>5, <2>6
            DEF ScanInv, Rebuilt, Clean, Free, Loads, Covering, SymbolAt, ImportsAt, StringsAt
<1>16. Untouched' /\ Faithful' /\ WellFormed(image)'
  <2>1. \A s \in DOMAIN image.sections : s < x \/ s > x => text'[s] = text[s]
    BY <1>2, <1>14
  <2>2. Untouched'
    BY <1>1, <1>2, <1>4, <2>1 DEF Untouched
  <2>3. Faithful'
    BY <1>1, <1>4, <2>1 DEF Faithful, Finished, Loads, Covering, SymbolAt, ImportsAt, StringsAt
  <2>4. WellFormed(image)'
    BY <1>1, <1>4 DEF WellFormed
  <2>5. QED BY <2>2, <2>3, <2>4
<1>17. LabelsPlaced' /\ (\A l \in labels' : /\ l.kind \in {"ordinal", "name", "string"}
                       /\ l.num \in Nat /\ l.loc \in Nat
                       /\ l.sec \in DOMAIN image.sections)
  <2>1. Len(flushed) = pos
    BY <1>10 DEF Rebuilt
  <2>2. ASSUME NEW l \in labels' , l \notin labels, l.kind # "string"
        PROVE  /\ l.kind \in {"ordinal", "name"} /\ l.num \in Nat
               /\ l.loc = pos /\ l.sec = x /\ image.exports[l.num].addr = a
    <3>1. HereExports # {} /\ l \in ExportLabels(FirstOf(HereExports), Len(flushed))
      BY <1>8, <2>2 DEF LabelAt
    <3>2. /\ FirstOf(HereExports) \in Nat
          /\ image.exports[FirstOf(HereExports)].addr = a
      BY <1>1, <1>5, <3>1, FoundExport DEF HereExports
    <3>3. QED BY <2>1, <3>1, <3>2 DEF ExportLabels, LabelAt
  <2>3. ASSUME NEW l \in labels' , l \notin labels, l.kind = "string"
        PROVE  /\ l.num \in Nat /\ l.loc = pos /\ l.sec = x
               /\ \E i \in DOMAIN image.strings :
                     image.strings[i].id = l.num /\ image.strings[i].addr = a
    <3>1. /\ HereStrings # {}
          /\ l = LabelAt("string", image.strings[FirstOf(HereStrings)].id,
                         Len(flushed \o slot))
      BY <1>8, <2>3 DEF LabelAt, ExportLabels
    <3>2. PICK i : i = FirstOf(HereStrings)
      OBVIOUS
    <3>3. i \in DOMAIN image.strings /\ image.strings[i].addr = a
      BY <1>1, <1>5, <3>1, <3>2, FoundString DEF HereStrings
    <3>4. image.strings[i].id \in Nat
      BY <1>1, <3>3, ImageParts
    <3>5. Len(flushed \o slot) = pos
      BY <1>2, <1>5, <1>12, <3>1 DEF Rebuilt, HereStrings
    <3>6. QED BY <3>1, <3>2, <3>3, <3>4, <3>5 DEF LabelAt
  <2>4. ASSUME NEW l \in labels'
        PROVE  /\ l.kind \in {"ordinal", "name", "string"}
               /\ l.num \in Nat /\ l.loc \in Nat /\ l.sec \in DOMAIN image.sections
    BY <1>1, <1>2, <2>2, <2>3 DEF TypeOK
  <2>5. ASSUME NEW l \in labels'
        PROVE  IF l.kind = "string"
               THEN \E i \in DOMAIN image.strings :
                      /\ image.strings[i].id = l.num
                      /\ image.strings[i].addr = image.sections[l.sec].addr + l.loc
               ELSE image.exports[l.num].addr = image.sections[l.sec].addr + l.loc
    <3>1. CASE l \in labels
      BY <1>1, <3>1 DEF LabelsPlaced
    <3>2. CASE l \notin labels
      BY <1>3, <1>5, <2>2, <2>3, <3>2
    <3>3. QED BY <3>1, <3>2
  <2>6. LabelsPlaced'
    BY <1>4, <2>5 DEF LabelsPlaced
  <2>7. QED BY <2>4, <2>6
<1>18. TypeOK'
  <2>1. text' \in [DOMAIN image.sections -> Seq(Byte)]
    BY <1>2, <1>8, <1>13 DEF Rebuilt
  <2>2. pos' \in Nat /\ lastPos' \in Nat
    BY <1>2, <1>8, <1>13 DEF Advance
  <2>3. QED BY <1>1, <1>4, <1>17, <2>1, <2>2 DEF TypeOK
<1>19. QED BY <1>4, <1>15, <1>16, <1>17, <1>18 DEF Inv

-----------------------------------------------------------------------------
(* The theorems.                                                           *)

\* The invariant holds in every reachable state.
THEOREM Invariance == Spec => []Inv
<1>1. Init => Inv
  BY InitInv
<1>2. Inv /\ [Next]_vars => Inv'
  <2> SUFFICES ASSUME Inv, [Next]_vars PROVE Inv'
    OBVIOUS
  <2>1. CASE BeginSection
    BY <2>1, BeginInv
  <2>2. CASE SkipByte
    BY <2>2, SkipInv
  <2>3. CASE DumpSymbol
    BY <2>3, DumpSymbolInv
  <2>4. CASE EndSection
    BY <2>4, EndSectionInv
  <2>5. CASE ExitUnreadable \/ EndSections \/ StringTable
    BY <2>5, OtherInv
  <2>6. CASE UNCHANGED vars
    BY <2>6 DEF vars, Inv, TypeOK, WellFormed, ScanInv, Rebuilt, Clean, Free, Untouched,
                Faithful, Finished, LabelsPlaced, Loads, Covering, SymbolAt, ImportsAt,
                StringsAt, Sec
  <2>7. QED BY <2>1, <2>2, <2>3, <2>4, <2>5, <2>6 DEF Next
<1>3. QED BY <1>1, <1>2, PTL DEF Spec

\* The state of the dump always has its type.
THEOREM TypeCorrect == Spec => []TypeOK
<1>1. Inv => TypeOK
  BY DEF Inv
<1>2. QED BY <1>1, Invariance, PTL

\* dump_asm rebuilds every section byte for byte, whatever the well-formed
\* image: its sections' sizes, where their file data ends, and how slots,
\* strings and exports cut them up.
THEOREM DumpFaithful == Spec => []Faithful
<1>1. Inv => Faithful
  BY DEF Inv
<1>2. QED BY <1>1, Invariance, PTL

\* Every label dump_asm emits stands at its symbol's own address.
THEOREM DumpLabels == Spec => []LabelsPlaced
<1>1. Inv => LabelsPlaced
  BY DEF Inv
<1>2. QED BY <1>1, Invariance, PTL

-----------------------------------------------------------------------------
(* No symbol is jumped over.                                               *)

\* The scan has passed the address, in a section it is in.
Behind(s, a) ==
  LET z == image.sections[s] IN
  /\ z.addr <= a /\ a < z.addr + z.vsize
  /\ s < x \/ (s = x /\ pc = "scan" /\ a < z.addr + pos)

StringLabel(s, i) ==
  \E l \in labels : l.kind = "string" /\ l.num = image.strings[i].id /\ l.sec = s
OrdinalLabel(s, i) ==
  \E l \in labels : l.kind = "ordinal" /\ l.num = i /\ l.sec = s

\* What it has passed is labelled, unless another symbol hides it.
StringsOut ==
  \A s \in DOMAIN image.sections, i \in DOMAIN image.strings :
    Behind(s, image.strings[i].addr) => StringLabel(s, i)
ExportsOut ==
  \A s \in DOMAIN image.sections, i \in DOMAIN image.exports :
    (/\ Behind(s, image.exports[i].addr)
     /\ ~Hidden(image, image.exports[i].addr)
     /\ i = FirstOf(ExportsAt(image, image.exports[i].addr)))
      => OrdinalLabel(s, i)

\* The table comes after every section.
AllScanned ==
  /\ pc \in {"strings", "done"} => x > Len(image.sections)
  /\ pc = "done" => table = [i \in DOMAIN image.strings |-> image.strings[i].id]

SymbolInv == Inv /\ StringsOut /\ ExportsOut /\ AllScanned

\* Inside a symbol no string starts, and the symbol hides what does.
LEMMA InsideHidden ==
  ASSUME NEW img \in ImageType, WellFormed(img),
         NEW s \in DOMAIN img.sections, NEW sec, sec = img.sections[s],
         NEW to \in Nat, NEW a, a = sec.addr + to, SymbolAt(img, a),
         NEW slot, slot = SlotText(img, a),
         NEW string, string = StringText(img, sec, to)
  PROVE  \E hi \in Nat :
           /\ hi = a + (Len(slot) + Len(string)) /\ hi > a
           /\ \A b \in Nat : a < b /\ b < hi => StringsAt(img, b) = {} /\ Hidden(img, b)
<1>0. a \in Nat
  BY ImageParts
<1>1. PICK hi \in Nat :
        /\ hi = a + (Len(slot) + Len(string))
        /\ hi > a
        /\ ~Straddles([lo |-> a, hi |-> hi], sec)
        /\ \A j \in DOMAIN img.imports :
              \/ img.imports[j] = a /\ ImportRange(img, j).hi = hi
              \/ hi <= img.imports[j] \/ ImportRange(img, j).hi <= a
        /\ \A j \in DOMAIN img.strings :
              \/ img.strings[j].addr = a /\ StringRange(img, j).hi = hi
              \/ hi <= img.strings[j].addr \/ StringRange(img, j).hi <= a
  <2>1. PICK hi \in Nat : SymbolEnd(img, sec, a, slot, string, hi)
    BY SymbolRange
  <2>2. QED BY <2>1 DEF SymbolEnd
<1>2. ASSUME NEW j \in DOMAIN img.strings
      PROVE  /\ img.strings[j].addr \in Nat /\ StringRange(img, j).hi \in Nat
             /\ StringRange(img, j).hi > img.strings[j].addr
  <2>1. /\ img.strings[j].addr \in Nat /\ img.strings[j].size \in Nat
        /\ img.strings[j].size > 0
    BY ImageParts
  <2>2. StringRange(img, j).hi = img.strings[j].addr + img.strings[j].size
    BY DEF StringRange
  <2> QED
    BY <2>1, <2>2
<1>3. ASSUME NEW b \in Nat, a < b, b < hi, NEW j \in StringsAt(img, b) PROVE FALSE
  <2>1. j \in DOMAIN img.strings /\ img.strings[j].addr = b
    BY DEF StringsAt
  <2>2. \/ img.strings[j].addr = a
        \/ hi <= img.strings[j].addr \/ StringRange(img, j).hi <= a
    BY <1>1, <2>1
  <2>3. StringRange(img, j).hi \in Nat /\ StringRange(img, j).hi > b
    BY <1>2, <2>1
  <2> QED
    BY <1>0, <1>3, <2>1, <2>2, <2>3
<1>4. ASSUME NEW b \in Nat, a < b, b < hi PROVE Hidden(img, b)
  <2>1. CASE ImportsAt(img, a) # {}
    <3>1. PICK j \in DOMAIN img.imports : img.imports[j] = a
      BY <2>1 DEF ImportsAt
    <3>2. ImportRange(img, j).hi = a + SlotSize
      BY <3>1 DEF ImportRange
    <3>3. ImportRange(img, j).hi = hi
      BY <1>0, <1>1, <3>1, <3>2 DEF SlotSize
    <3> QED
      BY <1>4, <3>1, <3>3 DEF Hidden
  <2>2. CASE StringsAt(img, a) # {}
    <3>1. PICK j \in DOMAIN img.strings : img.strings[j].addr = a
      BY <2>2 DEF StringsAt
    <3>2. \/ StringRange(img, j).hi = hi
          \/ hi <= img.strings[j].addr \/ StringRange(img, j).hi <= a
      BY <1>1
    <3>3. StringRange(img, j).hi = hi
      BY <1>0, <1>1, <1>2, <3>1, <3>2
    <3> QED
      BY <1>4, <3>1, <3>3 DEF Hidden
  <2> QED
    BY <2>1, <2>2 DEF SymbolAt
<1> QED
  BY <1>1, <1>3, <1>4

\* Where the scan goes on from an offset, behind the symbol at it.
Onward(img, sec, to) ==
  LET end == to + Len(SlotText(img, sec.addr + to)) + Len(StringText(img, sec, to))
  IN  IF end = to THEN to + 1 ELSE end

NothingIn(img, lo, hi) ==
  \A b \in Nat : lo < b /\ b < hi => StringsAt(img, b) = {} /\ Hidden(img, b)

\* So with what is between the two.
LEMMA NothingPassed ==
  ASSUME NEW img \in ImageType, WellFormed(img),
         NEW s \in DOMAIN img.sections, NEW sec, sec = img.sections[s],
         NEW to \in Nat
  PROVE  NothingIn(img, sec.addr + to, sec.addr + Onward(img, sec, to))
<1> DEFINE a == sec.addr + to
<1>0. sec.addr \in Nat /\ a \in Nat
  BY ImageParts
<1>1. PICK slot, string : slot = SlotText(img, a) /\ string = StringText(img, sec, to)
  OBVIOUS
<1>2. slot \in Seq(Byte) /\ (ImportsAt(img, a) = {} => Len(slot) = 0)
  BY <1>1, SlotEmission
<1>3. string \in Seq(Byte) /\ (StringsAt(img, a) = {} => Len(string) = 0)
  BY <1>1, StringEmission
<1>4. PICK m \in Nat : m = Len(slot) + Len(string)
  BY <1>2, <1>3, LenProperties
<1>5. Len(slot) \in Nat /\ Len(string) \in Nat
  BY <1>2, <1>3, LenProperties
<1>6. Onward(img, sec, to) = IF m = 0 THEN to + 1 ELSE to + m
  BY <1>1, <1>4, <1>5 DEF Onward
<1>7. CASE ~SymbolAt(img, a)
  <2>1. m = 0
    BY <1>2, <1>3, <1>4, <1>7 DEF SymbolAt
  <2> QED
    BY <1>0, <1>6, <2>1 DEF NothingIn
<1>8. CASE SymbolAt(img, a)
  <2>1. PICK hi \in Nat :
          /\ hi = a + (Len(slot) + Len(string)) /\ hi > a
          /\ \A b \in Nat : a < b /\ b < hi => StringsAt(img, b) = {} /\ Hidden(img, b)
    BY <1>1, <1>8, InsideHidden
  <2>2. sec.addr + Onward(img, sec, to) = hi
    BY <1>0, <1>4, <1>6, <2>1
  <2> QED
    BY <2>1, <2>2 DEF NothingIn
<1> QED
  BY <1>7, <1>8

\* DumpSymbol labels what is here.
LEMMA HereLabelled ==
  ASSUME Inv, DumpSymbol
  PROVE  /\ labels \subseteq labels'
         /\ \A i \in DOMAIN image.strings :
              image.strings[i].addr = Sec.addr + pos => StringLabel(x, i)'
         /\ \A i \in DOMAIN image.exports :
              image.exports[i].addr = Sec.addr + pos /\ i = FirstOf(HereExports)
                => OrdinalLabel(x, i)'
<1>1. image \in ImageType /\ WellFormed(image) /\ image' = image /\ x' = x
  BY DEF Inv, TypeOK, DumpSymbol
<1>2. Sec.addr + pos \in Nat
  BY <1>1, ImageParts DEF Inv, TypeOK, DumpSymbol, Scanning, Sec
<1>3. PICK m, n :
        labels' = (labels
              \cup (IF HereExports = {} THEN {} ELSE ExportLabels(FirstOf(HereExports), m)))
              \cup (IF HereStrings = {} THEN {}
                    ELSE {LabelAt("string", image.strings[FirstOf(HereStrings)].id, n)})
  BY DEF DumpSymbol
<1>4. ASSUME NEW i \in DOMAIN image.strings, image.strings[i].addr = Sec.addr + pos
      PROVE  StringLabel(x, i)'
  <2>1. i \in HereStrings
    BY <1>4 DEF HereStrings, StringsAt
  <2>2. FirstOf(HereStrings) \in HereStrings
    BY <1>1, <1>2, <2>1, FoundString DEF HereStrings, StringsAt
  <2>3. FirstOf(HereStrings) = i
    BY <1>1, <1>2, <2>1, <2>2, OneSymbol DEF HereStrings
  <2>4. LabelAt("string", image.strings[i].id, n) \in labels'
    BY <1>3, <2>1, <2>3
  <2> QED
    BY <1>1, <2>4 DEF StringLabel, LabelAt
<1>5. ASSUME NEW i \in DOMAIN image.exports, image.exports[i].addr = Sec.addr + pos,
             i = FirstOf(HereExports)
      PROVE  OrdinalLabel(x, i)'
  <2>1. HereExports # {}
    BY <1>5 DEF HereExports, ExportsAt
  <2>2. LabelAt("ordinal", i, m) \in labels'
    BY <1>3, <1>5, <2>1 DEF ExportLabels
  <2> QED
    BY <1>1, <2>2 DEF OrdinalLabel, LabelAt
<1> QED
  BY <1>3, <1>4, <1>5

\* So each step of the scan labels what it passes.
LEMMA DumpSymbolOut == SymbolInv /\ DumpSymbol => (StringsOut /\ ExportsOut)'
<1> SUFFICES ASSUME SymbolInv, DumpSymbol PROVE (StringsOut /\ ExportsOut)'
  OBVIOUS
<1>1. /\ Inv /\ image \in ImageType /\ WellFormed(image) /\ image' = image /\ x' = x
      /\ pc = "scan" /\ pc' = pc /\ x \in DOMAIN image.sections /\ pos \in Nat
      /\ Sec = image.sections[x] /\ DOMAIN image.sections = 1..Len(image.sections)
  BY DEF SymbolInv, Inv, TypeOK, DumpSymbol, Scanning, Sec, ImageType
<1>2. Sec.addr \in Nat /\ Sec.addr + pos \in Nat
  BY <1>1, ImageParts
<1>3. pos' = Onward(image, Sec, pos)
  BY DEF DumpSymbol, Advance, Onward
<1>4. /\ labels \subseteq labels'
      /\ \A i \in DOMAIN image.strings :
           image.strings[i].addr = Sec.addr + pos => StringLabel(x, i)'
      /\ \A i \in DOMAIN image.exports :
           image.exports[i].addr = Sec.addr + pos /\ i = FirstOf(HereExports)
             => OrdinalLabel(x, i)'
  BY <1>1, HereLabelled
<1>8. \A b \in Nat : Sec.addr + pos < b /\ b < Sec.addr + pos'
                     => StringsAt(image, b) = {} /\ Hidden(image, b)
  BY <1>1, <1>3, NothingPassed DEF NothingIn
\* What has just been passed was passed before, is here, or is hidden.
<1>5. ASSUME NEW s \in DOMAIN image.sections, NEW b \in Nat, Behind(s, b)'
      PROVE  \/ Behind(s, b)
             \/ s = x /\ b = Sec.addr + pos
             \/ StringsAt(image, b) = {} /\ Hidden(image, b)
  <2>1. CASE s < x
    BY <1>1, <1>5, <2>1 DEF Behind
  <2>2. CASE s = x
    <3>1. /\ Sec.addr <= b /\ b < Sec.addr + Sec.vsize
          /\ b < Sec.addr + pos'
      <4>1. image.sections[s] = Sec
        BY <1>1, <2>2
      <4>2. x < x' \/ b < Sec.addr + pos'
        BY <1>1, <1>5, <2>2, <4>1 DEF Behind
      <4>3. Sec.addr <= b /\ b < Sec.addr + Sec.vsize
        BY <1>1, <1>5, <4>1 DEF Behind
      <4> QED
        BY <1>1, <4>2, <4>3
    <3>2. CASE b < Sec.addr + pos
      BY <1>1, <2>2, <3>1, <3>2 DEF Behind
    <3>3. CASE b = Sec.addr + pos
      BY <2>2, <3>3
    <3>4. CASE Sec.addr + pos < b
      BY <1>8, <3>1, <3>4
    <3> QED
      BY <1>2, <3>2, <3>3, <3>4
  <2> QED
    BY <1>1, <1>5, <2>1, <2>2 DEF Behind
<1>6. ASSUME NEW s \in DOMAIN image.sections, NEW i \in DOMAIN image.strings,
             Behind(s, image.strings[i].addr)'
      PROVE  StringLabel(s, i)'
  <2>1. PICK b \in Nat : b = image.strings[i].addr /\ StringsAt(image, b) # {}
    BY <1>1, ImageParts DEF StringsAt
  <2>2. Behind(s, b)'
    BY <1>1, <1>6, <2>1
  <2>3. CASE Behind(s, b)
    BY <1>1, <1>4, <2>1, <2>3 DEF SymbolInv, StringsOut, StringLabel
  <2>4. CASE s = x /\ b = Sec.addr + pos
    <3>1. StringLabel(x, i)'
      BY <1>4, <2>1, <2>4
    <3> QED
      BY <1>1, <2>4, <3>1 DEF StringLabel
  <2> QED
    BY <1>5, <2>1, <2>2, <2>3, <2>4
<1>7. ASSUME NEW s \in DOMAIN image.sections, NEW i \in DOMAIN image.exports,
             Behind(s, image.exports[i].addr)', ~Hidden(image, image.exports[i].addr),
             i = FirstOf(ExportsAt(image, image.exports[i].addr))
      PROVE  OrdinalLabel(s, i)'
  <2>1. PICK b \in Nat : b = image.exports[i].addr
    <3>1. image.exports \in Seq(ExportType)
      BY <1>1 DEF ImageType
    <3>2. image.exports[i] \in ExportType
      BY <3>1
    <3> QED
      BY <3>2 DEF ExportType
  <2>2. Behind(s, b)'
    BY <1>1, <1>7, <2>1
  <2>3. CASE Behind(s, b)
    BY <1>1, <1>4, <1>7, <2>1, <2>3 DEF SymbolInv, ExportsOut, OrdinalLabel
  <2>4. CASE s = x /\ b = Sec.addr + pos
    <3>1. OrdinalLabel(x, i)'
      BY <1>4, <1>7, <2>1, <2>4 DEF HereExports
    <3> QED
      BY <1>1, <2>4, <3>1 DEF OrdinalLabel
  <2> QED
    BY <1>5, <1>7, <2>1, <2>2, <2>3, <2>4
<1>9. StringsOut'
  BY <1>1, <1>6 DEF StringsOut
<1>10. ExportsOut'
  <2> SUFFICES ASSUME NEW s \in DOMAIN image.sections, NEW i \in DOMAIN image.exports,
                      Behind(s, image.exports[i].addr)',
                      ~Hidden(image, image.exports[i].addr),
                      i = FirstOf(ExportsAt(image, image.exports[i].addr))
               PROVE  OrdinalLabel(s, i)'
    BY <1>1 DEF ExportsOut
  <2> QED
    BY <1>7
<1> QED
  BY <1>9, <1>10

\* A step that emits nothing passes nothing, or what starts no symbol.
LEMMA OthersOut ==
  ASSUME SymbolInv, Next, ~DumpSymbol
  PROVE  (StringsOut /\ ExportsOut)'
<1>1. /\ image' = image /\ labels' = labels /\ image \in ImageType /\ pos \in Nat
      /\ x \in Nat
  <2>1. Len(image.sections) \in Nat
    BY DEF SymbolInv, Inv, TypeOK, ImageType
  <2> QED
    BY <2>1 DEF SymbolInv, Inv, TypeOK, Next, BeginSection, SkipByte, ExitUnreadable,
                EndSection, EndSections, StringTable
<1>2. \A s \in DOMAIN image.sections : /\ s \in Nat /\ image.sections[s].addr \in Nat
                                       /\ image.sections[s].vsize \in Nat
  <2>1. image.sections \in Seq(SectionType)
    BY <1>1 DEF ImageType
  <2>2. \A s \in DOMAIN image.sections : s \in Nat
    BY <2>1
  <2>3. \A s \in DOMAIN image.sections : /\ image.sections[s].addr \in Nat
                                         /\ image.sections[s].vsize \in Nat
    BY <1>1, ImageParts
  <2> QED
    BY <2>2, <2>3
\* What is behind was behind, or has just been looked at in vain.
<1>3. ASSUME NEW s \in DOMAIN image.sections, NEW b \in Nat, Behind(s, b)'
      PROVE  Behind(s, b) \/ (StringsAt(image, b) = {} /\ ExportsAt(image, b) = {})
  <2>1. PICK z : z = image.sections[s] /\ z.addr \in Nat /\ z.vsize \in Nat
    BY <1>2
  <2>2. /\ z.addr <= b /\ b < z.addr + z.vsize
        /\ s < x' \/ (s = x' /\ pc' = "scan" /\ b < z.addr + pos')
    BY <1>1, <1>3, <2>1 DEF Behind
  <2>3. CASE s < x
    BY <2>1, <2>2, <2>3 DEF Behind
  <2>4. CASE BeginSection
    BY <1>2, <2>1, <2>2, <2>3, <2>4 DEF BeginSection
  <2>5. CASE SkipByte
    <3>1. HereStrings = {} /\ HereExports = {} /\ pc = "scan" /\ x' = x /\ pos' = pos + 1
      BY <2>5 DEF SkipByte, Scanning, DumpHere
    <3>2. CASE s = x /\ b = z.addr + pos
      BY <2>1, <3>1, <3>2 DEF HereStrings, HereExports, Sec
    <3>3. CASE s = x /\ b # z.addr + pos
      <4>1. b < z.addr + pos
        BY <1>1, <2>1, <2>2, <3>1, <3>3
      <4> QED
        BY <2>1, <2>2, <3>1, <3>3, <4>1 DEF Behind
    <3> QED
      BY <2>2, <2>3, <3>1, <3>2, <3>3
  <2>6. CASE EndSection
    <3>1. s = x => pos > z.vsize
      BY <2>1, <2>6 DEF EndSection, Sec
    <3>2. x' = x + 1 /\ pc' = "sections" /\ pc = "scan"
      BY <2>6 DEF EndSection
    <3>3. CASE s = x
      <4>1. b < z.addr + pos
        BY <1>1, <2>1, <2>2, <3>1, <3>3
      <4> QED
        BY <2>1, <2>2, <3>2, <3>3, <4>1 DEF Behind
    <3> QED
      BY <1>1, <1>2, <2>2, <2>3, <3>2, <3>3
  <2>7. CASE ExitUnreadable \/ EndSections \/ StringTable
    BY <2>1, <2>2, <2>3, <2>7 DEF ExitUnreadable, EndSections, StringTable
  <2> QED
    BY <2>4, <2>5, <2>6, <2>7 DEF Next
<1>4. StringsOut'
  <2> SUFFICES ASSUME NEW s \in DOMAIN image.sections, NEW i \in DOMAIN image.strings,
                      Behind(s, image.strings[i].addr)'
               PROVE  StringLabel(s, i)'
    BY <1>1 DEF StringsOut
  <2>1. PICK b \in Nat : b = image.strings[i].addr /\ StringsAt(image, b) # {}
    BY <1>1, ImageParts DEF StringsAt
  <2>2. Behind(s, b)'
    BY <1>1, <2>1
  <2>3. Behind(s, b)
    BY <1>3, <2>1, <2>2
  <2> QED
    BY <1>1, <2>1, <2>3 DEF SymbolInv, StringsOut, StringLabel
<1>5. ExportsOut'
  <2> SUFFICES ASSUME NEW s \in DOMAIN image.sections, NEW i \in DOMAIN image.exports,
                      Behind(s, image.exports[i].addr)',
                      ~Hidden(image, image.exports[i].addr),
                      i = FirstOf(ExportsAt(image, image.exports[i].addr))
               PROVE  OrdinalLabel(s, i)'
    BY <1>1 DEF ExportsOut
  <2>1. PICK b \in Nat : b = image.exports[i].addr /\ ExportsAt(image, b) # {}
    <3>1. image.exports \in Seq(ExportType)
      BY <1>1 DEF ImageType
    <3>2. image.exports[i] \in ExportType
      BY <3>1
    <3> QED
      BY <3>2 DEF ExportType, ExportsAt
  <2>2. Behind(s, b)'
    BY <1>1, <2>1
  <2>3. Behind(s, b)
    BY <1>3, <2>1, <2>2
  <2> QED
    BY <1>1, <2>1, <2>3 DEF SymbolInv, ExportsOut, OrdinalLabel
<1> QED
  BY <1>4, <1>5

\* The table is written once every section has been scanned.
LEMMA ScannedKept == SymbolInv /\ Next => AllScanned'
<1> SUFFICES ASSUME SymbolInv, Next PROVE AllScanned'
  OBVIOUS
<1>1. image' = image
  BY DEF Next, BeginSection, SkipByte, ExitUnreadable, DumpSymbol, EndSection, EndSections,
         StringTable
<1>2. CASE EndSections \/ StringTable
  BY <1>1, <1>2 DEF SymbolInv, AllScanned, EndSections, StringTable
<1>3. CASE BeginSection \/ SkipByte \/ ExitUnreadable \/ DumpSymbol \/ EndSection
  BY <1>3 DEF AllScanned, BeginSection, SkipByte, Scanning, ExitUnreadable, DumpSymbol,
              EndSection
<1> QED
  BY <1>2, <1>3 DEF Next

\* The dump of an image: what it has passed is labelled.
THEOREM SymbolInvariance == Spec => []SymbolInv
<1>1. Init => StringsOut /\ ExportsOut /\ AllScanned
  <2> SUFFICES ASSUME Init PROVE StringsOut /\ ExportsOut /\ AllScanned
    OBVIOUS
  <2>1. \A s \in DOMAIN image.sections : ~(s < x) /\ pc # "scan"
    BY ImagesAssumption DEF Init, ImageType
  <2>2. \A s \in DOMAIN image.sections : \A a : ~Behind(s, a)
    BY <2>1 DEF Behind
  <2> QED
    BY <2>2 DEF Init, StringsOut, ExportsOut, AllScanned
<1>2. Inv /\ Inv' /\ (StringsOut /\ ExportsOut /\ AllScanned) /\ [Next]_vars
        => (StringsOut /\ ExportsOut /\ AllScanned)'
  <2> SUFFICES ASSUME SymbolInv, [Next]_vars PROVE (StringsOut /\ ExportsOut /\ AllScanned)'
    BY DEF SymbolInv
  <2>1. CASE DumpSymbol
    BY <2>1, DumpSymbolOut, ScannedKept DEF Next
  <2>2. CASE Next /\ ~DumpSymbol
    BY <2>2, OthersOut, ScannedKept
  <2>3. CASE UNCHANGED vars
    BY <2>3 DEF SymbolInv, vars, StringsOut, ExportsOut, AllScanned, Behind, StringLabel,
                OrdinalLabel, Hidden, ExportsAt, ImportRange, StringRange
  <2> QED
    BY <2>1, <2>2, <2>3
<1>3. SymbolInv <=> Inv /\ (StringsOut /\ ExportsOut /\ AllScanned)
  BY DEF SymbolInv
<1> QED
  BY <1>1, <1>2, <1>3, Invariance, PTL DEF Spec

\* No symbol is jumped over: each string that lies in a section, and each export that
\* no other symbol hides, has its label (dump_asm; dump.c:706-796).
THEOREM SymbolsLabelled == Spec => []SymbolsDefined
<1>1. SymbolInv => SymbolsDefined
  <2> SUFFICES ASSUME SymbolInv PROVE StringsDefined /\ ExportsDefined
    BY DEF SymbolsDefined
  <2>1. /\ image \in ImageType /\ x \in Nat
        /\ DOMAIN image.sections = 1..Len(image.sections) /\ Len(image.sections) \in Nat
    BY DEF SymbolInv, Inv, TypeOK, ImageType
  <2>2. StringsDefined
    <3> SUFFICES ASSUME pc = "done", NEW k \in DOMAIN table, NEW s \in DOMAIN image.sections,
                        InSection(StringRange(image, k), image.sections[s])
                 PROVE  \E l \in labels : l.kind = "string" /\ l.num = table[k] /\ l.sec = s
      BY DEF StringsDefined
    <3>1. /\ k \in DOMAIN image.strings /\ table[k] = image.strings[k].id
          /\ x > Len(image.sections)
      BY DEF SymbolInv, AllScanned
    <3>2. /\ image.strings[k].addr \in Nat /\ image.strings[k].size \in Nat
          /\ image.strings[k].size > 0
          /\ image.sections[s].addr \in Nat /\ image.sections[s].vsize \in Nat
      BY <2>1, <3>1, ImageParts
    <3>3. Behind(s, image.strings[k].addr)
      BY <2>1, <3>1, <3>2 DEF Behind, InSection, Within, StringRange
    <3> QED
      BY <3>1, <3>3 DEF SymbolInv, StringsOut, StringLabel
  <2>3. ExportsDefined
    <3> SUFFICES ASSUME NEW s \in Finished, NEW i \in DOMAIN image.exports,
                        image.sections[s].addr <= image.exports[i].addr,
                        image.exports[i].addr < image.sections[s].addr + image.sections[s].vsize,
                        ~Hidden(image, image.exports[i].addr),
                        i = FirstOf(ExportsAt(image, image.exports[i].addr))
                 PROVE  \E l \in labels : l.kind = "ordinal" /\ l.num = i /\ l.sec = s
      BY DEF ExportsDefined
    <3>1. Behind(s, image.exports[i].addr)
      BY DEF Behind, Finished
    <3> QED
      BY <3>1 DEF SymbolInv, ExportsOut, OrdinalLabel, Finished
  <2> QED
    BY <2>2, <2>3
<1> QED
  BY <1>1, SymbolInvariance, PTL

\* A symbol that starts where a section ends lies in another section, which starts
\* there.
LEMMA NextSection ==
  ASSUME NEW img \in ImageType, WellFormed(img), NEW s \in DOMAIN img.sections,
         NEW e \in Nat, e = img.sections[s].addr + img.sections[s].vsize, SymbolAt(img, e)
  PROVE  \E t \in DOMAIN img.sections :
           t # s /\ img.sections[t].addr = e /\ img.sections[t].vsize > 0
<1>1. /\ \A t \in DOMAIN img.sections : /\ t \in Nat /\ img.sections[t].addr \in Nat
                                        /\ img.sections[t].vsize \in Nat
  <2>1. img.sections \in Seq(SectionType)
    BY DEF ImageType
  <2>2. \A t \in DOMAIN img.sections : t \in Nat
    BY <2>1
  <2> QED
    BY <2>2, ImageParts
<1>2. \A i \in DOMAIN img.strings : img.strings[i].size \in Nat /\ img.strings[i].size > 0
  BY ImageParts
<1>3. PICK t \in DOMAIN img.sections :
        img.sections[t].addr <= e /\ e < img.sections[t].addr + img.sections[t].vsize
  <2>1. CASE ImportsAt(img, e) # {}
    <3>1. PICK i \in DOMAIN img.imports : img.imports[i] = e
      BY <2>1 DEF ImportsAt
    <3>2. PICK t \in DOMAIN img.sections :
            Within(ImportRange(img, i), img.sections[t].addr,
                   img.sections[t].addr + img.sections[t].vsize)
      BY DEF WellFormed
    <3> QED
      BY <1>1, <3>1, <3>2 DEF Within, ImportRange, SlotSize
  <2>2. CASE StringsAt(img, e) # {}
    <3>1. PICK i \in DOMAIN img.strings : img.strings[i].addr = e
      BY <2>2 DEF StringsAt
    <3>2. PICK t \in DOMAIN img.sections :
            Within(StringRange(img, i), img.sections[t].addr,
                   img.sections[t].addr + img.sections[t].vsize)
      BY DEF WellFormed
    <3> QED
      BY <1>1, <1>2, <3>1, <3>2 DEF Within, StringRange
  <2> QED
    BY <2>1, <2>2 DEF SymbolAt
<1>4. s # t
  BY <1>1, <1>3
<1>5. CASE s < t
  <2>1. e <= img.sections[t].addr
    BY <1>5 DEF WellFormed
  <2> QED
    BY <1>1, <1>3, <1>4, <2>1
<1>6. CASE t < s
  <2>1. img.sections[t].addr + img.sections[t].vsize <= img.sections[s].addr
    BY <1>6 DEF WellFormed
  <2> QED
    BY <1>1, <1>3, <2>1
<1> QED
  BY <1>1, <1>4, <1>5, <1>6

\* A dump with a symbol in two sections never links: the sections overlap (dump_asm's
\* `pos <= size', dump.c:716).
THEOREM DoublesRefused == Spec => []NoSilentDouble
<1>1. SymbolInv => NoSilentDouble
  <2> SUFFICES ASSUME SymbolInv, pc = "done", NEW s \in DOMAIN image.sections,
                      Len(text[s]) > image.sections[s].vsize
               PROVE  Overlap
    BY DEF NoSilentDouble
  <2>1. image \in ImageType /\ WellFormed(image) /\ Faithful /\ text \in [DOMAIN image.sections -> Seq(Byte)]
    BY DEF SymbolInv, Inv, TypeOK
  <2>2. \A t \in DOMAIN image.sections : /\ t \in Finished /\ image.sections[t].addr \in Nat
                                         /\ image.sections[t].vsize \in Nat
                                         /\ Len(text[t]) \in Nat
    <3>1. DOMAIN image.sections = 1..Len(image.sections) /\ x \in Nat /\ Len(image.sections) \in Nat
      BY <2>1 DEF SymbolInv, Inv, TypeOK, ImageType
    <3>2. x > Len(image.sections)
      BY DEF SymbolInv, AllScanned
    <3>3. \A t \in DOMAIN image.sections : Len(text[t]) \in Nat
      BY <2>1, LenProperties
    <3> QED
      BY <2>1, <3>1, <3>2, <3>3, ImageParts DEF Finished
  <2>3. PICK e \in Nat : e = image.sections[s].addr + image.sections[s].vsize
    BY <2>2
  <2>4. SymbolAt(image, e)
    BY <2>1, <2>2, <2>3 DEF Faithful
  <2>5. PICK t \in DOMAIN image.sections :
          t # s /\ image.sections[t].addr = e /\ image.sections[t].vsize > 0
    BY <2>1, <2>3, <2>4, NextSection
  <2>6. text[t] # <<>>
    <3>1. 0 \in 0..(image.sections[t].vsize - 1)
      BY <2>2, <2>5
    <3>2. 0 < Len(text[t])
      BY <2>1, <2>2, <3>1 DEF Faithful
    <3> QED
      BY <3>2, EmptySeq
  <2>7. /\ image.sections[s].addr <= image.sections[t].addr
        /\ image.sections[t].addr < image.sections[s].addr + Len(text[s])
    BY <2>2, <2>3, <2>5
  <2> QED
    BY <2>5, <2>6, <2>7 DEF Overlap
<1> QED
  BY <1>1, SymbolInvariance, PTL

=============================================================================
