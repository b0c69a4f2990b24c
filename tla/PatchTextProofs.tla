-------------------------- MODULE PatchTextProofs --------------------------
(***************************************************************************)
(* Proofs about PatchText, for every length of text and every list of      *)
(* patches whose payloads fit their places.                                *)
(***************************************************************************)
EXTENDS PatchText, SequenceTheorems, TLAPS

\* c is a, which has m elements, and then b, which has k.
Joins(c, a, m, b, k) ==
  /\ Len(c) = m + k
  /\ \A i \in 1..m : c[i] = a[i]
  /\ \A i \in 1..k : c[m + i] = b[i]

\* Two pieces of the patched text, one after the other: where each byte ends up.
LEMMA JoinedText ==
  ASSUME NEW a \in Seq(TextByte), NEW b \in Seq(TextByte),
         NEW m \in Nat, NEW k \in Nat, Len(a) = m, Len(b) = k
  PROVE  a \o b \in Seq(TextByte) /\ Joins(a \o b, a, m, b, k)
<1>1. /\ a \o b \in Seq(TextByte)
      /\ Len(a \o b) = m + k
      /\ \A i \in 1..(m + k) : (a \o b)[i] = IF i <= m THEN a[i] ELSE b[i - m]
  BY ConcatProperties
<1>2. \A i \in 1..k : m + i \in 1..(m + k) /\ ~(m + i <= m) /\ (m + i) - m = i
  OBVIOUS
<1>3. \A i \in 1..m : i \in 1..(m + k) /\ i <= m
  OBVIOUS
<1>4. QED BY <1>1, <1>2, <1>3 DEF Joins

-----------------------------------------------------------------------------
(* The directives.                                                         *)

\* .fill gives nops.
LEMMA NopsBytes ==
  ASSUME NEW m \in Nat
  PROVE  /\ Nops(m) \in Seq(TextByte)
         /\ Len(Nops(m)) = m
         /\ \A k \in 1..m : Nops(m)[k] = Nop
<1>1. Nop \in TextByte
  BY DEF Nop, TextByte
<1>2. Nops(m) \in [1..m -> TextByte]
  BY <1>1 DEF Nops
<1>3. Nops(m) \in Seq(TextByte) /\ Len(Nops(m)) = m
  BY <1>2
<1>4. QED BY <1>3 DEF Nops

\* .incbin gives bytes of the original text.
LEMMA IncbinBytes ==
  ASSUME NEW o \in Nat, NEW m \in Nat
  PROVE  /\ Incbin(o, m) \in Seq(TextByte)
         /\ Len(Incbin(o, m)) = m
         /\ \A k \in 1..m : Incbin(o, m)[k] = Orig(o + (k - 1))
<1>1. \A k \in 1..m : Orig(o + (k - 1)) \in TextByte
  BY DEF Orig, TextByte
<1>2. Incbin(o, m) \in [1..m -> TextByte]
  BY <1>1 DEF Incbin
<1>3. Incbin(o, m) \in Seq(TextByte) /\ Len(Incbin(o, m)) = m
  BY <1>2
<1>4. QED BY <1>3 DEF Incbin

\* A payload is as long as its patch says.
LEMMA PayloadBytes ==
  ASSUME NEW m \in Nat, NEW p \in PatchType
  PROVE  /\ PayloadOf(m, p) \in Seq(TextByte)
         /\ Len(PayloadOf(m, p)) = p.size
         /\ \A k \in 1..p.size : PayloadOf(m, p)[k] = Payload(m, k - 1)
<1>1. p.size \in Nat
  BY DEF PatchType
<1>2. \A k \in 1..p.size : Payload(m, k - 1) \in TextByte
  BY <1>1 DEF Payload, TextByte
<1>3. PayloadOf(m, p) \in [1..p.size -> TextByte]
  BY <1>2 DEF PayloadOf
<1>4. PayloadOf(m, p) \in Seq(TextByte) /\ Len(PayloadOf(m, p)) = p.size
  BY <1>1, <1>3
<1>5. QED BY <1>4 DEF PayloadOf

-----------------------------------------------------------------------------
(* The inductive invariant.  Between two patches the text stops short of   *)
(* the end of the last place; what is missing there is nops.               *)

Right(t, m) ==
  /\ t \in Seq(TextByte) /\ Len(t) = m
  /\ \A o \in 0..(m - 1) : Belongs(o, t[o + 1])

PatchInv ==
  /\ Len(out) <= end
  /\ Right(out, Len(out))
  /\ \A o \in Len(out)..(end - 1) : Belongs(o, Nop)

Ordered ==
  \A m \in Applied :
    /\ list[m].end <= end
    /\ \A k \in Applied : k < m => list[k].end <= list[m].code

Inv ==
  /\ TypeOK
  /\ \A m \in DOMAIN list : Fits(list[m])
  /\ Ordered
  /\ pc = "patch" => PatchInv
  /\ Preserved
  /\ OnlyOrderedAssembles

\* A patch of the list has the types of its parts.
LEMMA PatchParts ==
  ASSUME TypeOK, NEW m \in DOMAIN list
  PROVE  /\ list[m] \in PatchType /\ m \in Nat
         /\ list[m].code \in Nat /\ list[m].end \in Nat /\ list[m].size \in Nat
<1>1. list[m] \in PatchType /\ m \in Nat
  BY DEF TypeOK
<1>2. QED BY <1>1 DEF PatchType

\* Right bytes after right bytes.
LEMMA AppendRight ==
  ASSUME NEW t, NEW m \in Nat, Right(t, m),
         NEW w \in Seq(TextByte), NEW k \in Nat, Len(w) = k,
         \A j \in 1..k : Belongs(m + (j - 1), w[j])
  PROVE  Right(t \o w, m + k)
<1>1. /\ t \o w \in Seq(TextByte)
      /\ Len(t \o w) = m + k
      /\ \A j \in 1..m : (t \o w)[j] = t[j]
      /\ \A j \in 1..k : (t \o w)[m + j] = w[j]
  <2>1. t \in Seq(TextByte) /\ Len(t) = m
    BY DEF Right
  <2>2. t \o w \in Seq(TextByte) /\ Joins(t \o w, t, m, w, k)
    BY <2>1, JoinedText
  <2>3. QED BY <2>2 DEF Joins
<1>2. ASSUME NEW o \in 0..((m + k) - 1)
      PROVE  Belongs(o, (t \o w)[o + 1])
  <2>1. CASE o < m
    BY <1>1, <2>1 DEF Right
  <2>2. CASE ~(o < m)
    <3>1. PICK j \in 1..k : j = (o - m) + 1
      BY <2>2
    <3>2. m + (j - 1) = o /\ m + j = o + 1
      BY <3>1
    <3>3. QED BY <1>1, <3>2
  <2>3. QED BY <2>1, <2>2
<1>3. QED BY <1>1, <1>2 DEF Right

\* Filling up to the end of the last place makes the text right up to there.
LEMMA FillRight ==
  ASSUME TypeOK, PatchInv
  PROVE  Right(Fill(out, end), end)
<1>1. Len(out) \in Nat /\ end \in Nat /\ Len(out) <= end
  BY DEF TypeOK, PatchInv
<1>2. CASE end > Len(out)
  <2>1. PICK k \in Nat : k = end - Len(out)
    BY <1>1
  <2>2. Nops(k) \in Seq(TextByte) /\ Len(Nops(k)) = k /\ \A j \in 1..k : Nops(k)[j] = Nop
    BY NopsBytes
  <2>3. \A j \in 1..k : Belongs(Len(out) + (j - 1), Nops(k)[j])
    BY <1>1, <2>1, <2>2 DEF PatchInv
  <2>4. Right(out \o Nops(k), Len(out) + k)
    BY <1>1, <2>2, <2>3, AppendRight DEF PatchInv
  <2>5. QED BY <1>1, <1>2, <2>1, <2>4 DEF Fill
<1>3. CASE ~(end > Len(out))
  BY <1>1, <1>3 DEF Fill, PatchInv
<1>4. QED BY <1>2, <1>3

-----------------------------------------------------------------------------
(* One step.                                                               *)

\* ApplyPatch leaves the text right up to the end of its payload.
LEMMA ApplyInv == Inv /\ ApplyPatch => Inv'
<1> SUFFICES ASSUME Inv, ApplyPatch PROVE Inv'
  OBVIOUS
<1>1. TypeOK /\ PatchInv /\ Ordered /\ (\A m \in DOMAIN list : Fits(list[m]))
  BY DEF Inv, ApplyPatch
<1>2. n \in DOMAIN list /\ n \in Nat /\ end \in Nat /\ Len(list) \in Nat
      /\ DOMAIN list = 1..Len(list)
  BY <1>1 DEF ApplyPatch, TypeOK
<1>3. PICK p, i : p = list[n] /\ i = n
  OBVIOUS
<1>4. /\ p \in PatchType /\ p.code \in Nat /\ p.end \in Nat /\ p.size \in Nat
      /\ p.code >= end /\ p.code + p.size <= p.end
  BY <1>1, <1>2, <1>3, PatchParts DEF ApplyPatch, Fits
<1>5. /\ end' = p.end /\ n' = n + 1 /\ pc' = "patch" /\ list' = list
      /\ out' = (Fill(out, end) \o Incbin(end, p.code - end)) \o PayloadOf(n, p)
  BY <1>3 DEF ApplyPatch
<1>6. Applied' = Applied \cup {n}
  BY <1>2, <1>5 DEF Applied, ApplyPatch
<1>7. \A m \in Applied : m \in DOMAIN list /\ m \in Nat /\ m < n /\ list[m].end <= end
                         /\ list[m].end \in Nat
  BY <1>1, PatchParts DEF Applied, Ordered
<1>8. \A o \in 0..(end - 1) : \A b : Belongs(o, b) => Belongs(o, b)'
  <2>1. SUFFICES ASSUME NEW o \in 0..(end - 1), NEW b, Belongs(o, b)
                 PROVE  Belongs(o, b)'
    OBVIOUS
  <2>2. o < p.code
    BY <1>2, <1>4
  <2>3. QED BY <1>3, <1>5, <1>6, <2>1, <2>2 DEF Belongs
<1>9. \A o \in end..(p.code - 1) : Belongs(o, Orig(o))'
  BY <1>2, <1>3, <1>4, <1>5, <1>6, <1>7 DEF Belongs
<1>10. \A k \in 1..p.size : Belongs(p.code + (k - 1), Payload(i, k - 1))'
  <2>1. SUFFICES ASSUME NEW k \in 1..p.size
                 PROVE  Belongs(p.code + (k - 1), Payload(i, k - 1))'
    OBVIOUS
  <2>2. PICK o \in Nat : o = p.code + (k - 1)
    BY <1>4
  <2>3. /\ p.code <= o /\ o < p.end /\ o < p.code + p.size
        /\ o - p.code = k - 1
    BY <1>4, <2>2
  <2>4. i \in Applied'
    BY <1>3, <1>6
  <2>5. Belongs(o, Payload(i, k - 1))'
    BY <1>3, <1>5, <2>3, <2>4 DEF Belongs
  <2>6. QED BY <2>2, <2>5
<1>11. \A o \in (p.code + p.size)..(p.end - 1) : Belongs(o, Nop)'
  <2>1. SUFFICES ASSUME NEW o \in (p.code + p.size)..(p.end - 1)
                 PROVE  Belongs(o, Nop)'
    OBVIOUS
  <2>2. p.code <= o /\ o < p.end /\ ~(o < p.code + p.size)
    BY <1>4
  <2>3. i \in Applied'
    BY <1>3, <1>6
  <2>4. QED BY <1>3, <1>5, <2>2, <2>3 DEF Belongs
<1>12. Right(Fill(out, end), end)
  BY <1>1, FillRight
<1>13. PICK t : t = Fill(out, end)
  OBVIOUS
<1>14. t \in Seq(TextByte) /\ Len(t) = end
  BY <1>12, <1>13 DEF Right
<1>15. \A o \in 0..(end - 1) : Belongs(o, t[o + 1])'
  BY <1>8, <1>12, <1>13 DEF Right
<1>16. PICK g \in Nat : g = p.code - end
  BY <1>2, <1>4
<1>17. /\ Incbin(end, g) \in Seq(TextByte) /\ Len(Incbin(end, g)) = g
       /\ \A k \in 1..g : Incbin(end, g)[k] = Orig(end + (k - 1))
  BY <1>2, IncbinBytes
<1>18. PICK u : u = t \o Incbin(end, g)
  OBVIOUS
<1>19. /\ u \in Seq(TextByte) /\ Len(u) = p.code
       /\ \A k \in 1..end : u[k] = t[k]
       /\ \A k \in 1..g : u[end + k] = Orig(end + (k - 1))
  <2>1. /\ u \in Seq(TextByte) /\ Len(u) = end + g
        /\ \A k \in 1..end : u[k] = t[k]
        /\ \A k \in 1..g : u[end + k] = Incbin(end, g)[k]
    <3>1. /\ t \o Incbin(end, g) \in Seq(TextByte)
          /\ Len(t \o Incbin(end, g)) = end + g
          /\ \A k \in 1..end : (t \o Incbin(end, g))[k] = t[k]
          /\ \A k \in 1..g : (t \o Incbin(end, g))[end + k] = Incbin(end, g)[k]
      <4>1. t \in Seq(TextByte) /\ Len(t) = end /\ end \in Nat
        BY <1>2, <1>14
      <4>2. Incbin(end, g) \in Seq(TextByte) /\ Len(Incbin(end, g)) = g /\ g \in Nat
        BY <1>16, <1>17
      <4>3. /\ t \o Incbin(end, g) \in Seq(TextByte)
            /\ Joins(t \o Incbin(end, g), t, end, Incbin(end, g), g)
        BY <4>1, <4>2, JoinedText
      <4>4. QED BY <4>3 DEF Joins
    <3>2. QED BY <1>18, <3>1
  <2>2. end + g = p.code
    BY <1>2, <1>4, <1>16
  <2>3. QED BY <1>17, <2>1, <2>2
<1>20. \A o \in 0..(p.code - 1) : Belongs(o, u[o + 1])'
  <2>1. SUFFICES ASSUME NEW o \in 0..(p.code - 1) PROVE Belongs(o, u[o + 1])'
    OBVIOUS
  <2>2. CASE o < end
    <3>1. o \in 0..(end - 1) /\ o + 1 \in 1..end
      BY <1>2, <2>2
    <3>2. u[o + 1] = t[o + 1]
      BY <1>19, <3>1
    <3>3. Belongs(o, t[o + 1])'
      BY <1>15, <3>1, Zenon
    <3>4. QED BY <3>2, <3>3
  <2>3. CASE ~(o < end)
    <3>1. PICK k \in 1..g : k = (o - end) + 1
      BY <1>2, <1>4, <1>16, <2>3
    <3>2. end + k = o + 1 /\ end + (k - 1) = o /\ o \in end..(p.code - 1)
      BY <1>2, <1>4, <2>3, <3>1
    <3>3. u[o + 1] = Orig(o)
      BY <1>19, <3>2
    <3>4. QED BY <1>9, <3>2, <3>3
  <2>4. QED BY <2>2, <2>3
<1>21. PICK w : w = PayloadOf(i, p)
  OBVIOUS
<1>22. /\ w \in Seq(TextByte) /\ Len(w) = p.size
       /\ \A k \in 1..p.size : w[k] = Payload(i, k - 1)
  BY <1>2, <1>3, <1>4, <1>21, PayloadBytes
<1>23. /\ out' = u \o w
       /\ u \o w \in Seq(TextByte) /\ Len(u \o w) = p.code + p.size
       /\ \A k \in 1..p.code : (u \o w)[k] = u[k]
       /\ \A k \in 1..p.size : (u \o w)[p.code + k] = w[k]
  <2>1. out' = u \o w
    BY <1>3, <1>5, <1>13, <1>16, <1>18, <1>21
  <2>2. /\ u \o w \in Seq(TextByte) /\ Len(u \o w) = p.code + p.size
        /\ \A k \in 1..p.code : (u \o w)[k] = u[k]
        /\ \A k \in 1..p.size : (u \o w)[p.code + k] = w[k]
    <3>1. u \in Seq(TextByte) /\ Len(u) = p.code /\ p.code \in Nat
      BY <1>4, <1>19
    <3>2. w \in Seq(TextByte) /\ Len(w) = p.size /\ p.size \in Nat
      BY <1>4, <1>22
    <3>3. PICK c \in Nat, z \in Nat : c = p.code /\ z = p.size
      BY <1>4
    <3>4. Len(u) = c /\ Len(w) = z
      BY <3>1, <3>2, <3>3
    <3>5. /\ u \o w \in Seq(TextByte) /\ Len(u \o w) = c + z
          /\ \A k \in 1..c : (u \o w)[k] = u[k]
          /\ \A k \in 1..z : (u \o w)[c + k] = w[k]
      <4>1. u \o w \in Seq(TextByte) /\ Joins(u \o w, u, c, w, z)
        BY <3>1, <3>2, <3>4, JoinedText
      <4>2. QED BY <4>1 DEF Joins
    <3>6. QED BY <3>3, <3>5
  <2>3. QED BY <2>1, <2>2
<1>24. \A o \in 0..((p.code + p.size) - 1) : Belongs(o, out[o + 1])'
  <2>1. SUFFICES ASSUME NEW o \in 0..((p.code + p.size) - 1)
                 PROVE  Belongs(o, out[o + 1])'
    OBVIOUS
  <2>2. CASE o < p.code
    <3>1. o \in 0..(p.code - 1) /\ o + 1 \in 1..p.code
      BY <1>4, <2>2
    <3>2. out'[o + 1] = u[o + 1]
      BY <1>23, <3>1
    <3>3. Belongs(o, u[o + 1])'
      BY <1>20, <3>1, Zenon
    <3>4. QED BY <3>2, <3>3
  <2>3. CASE ~(o < p.code)
    <3>1. PICK k \in 1..p.size : k = (o - p.code) + 1
      BY <1>4, <2>3
    <3>2. p.code + k = o + 1 /\ p.code + (k - 1) = o
      BY <1>4, <3>1
    <3>3. out'[o + 1] = Payload(i, k - 1)
      BY <1>22, <1>23, <3>2
    <3>4. Belongs(p.code + (k - 1), Payload(i, k - 1))'
      BY <1>10
    <3>5. Belongs(o, Payload(i, k - 1))'
      BY <3>2, <3>4
    <3>6. QED BY <3>3, <3>5
  <2>4. QED BY <2>2, <2>3
<1>25. PatchInv'
  <2>1. Len(out') = p.code + p.size /\ out' \in Seq(TextByte)
    BY <1>23
  <2>2. QED BY <1>4, <1>5, <1>11, <1>24, <2>1 DEF PatchInv, Right
<1>26. Ordered'
  BY <1>2, <1>3, <1>4, <1>5, <1>6, <1>7, <1>1 DEF Ordered
<1>27. TypeOK'
  <2>1. out' \in Seq(TextByte)
    BY <1>23
  <2>2. n' \in 1..(Len(list') + 1)
    BY <1>2, <1>5
  <2>3. end' \in Nat /\ list' \in Seq(PatchType)
    BY <1>1, <1>4, <1>5 DEF TypeOK
  <2>4. QED BY <1>5, <2>1, <2>2, <2>3 DEF TypeOK
<1>28. QED BY <1>1, <1>5, <1>25, <1>26, <1>27
            DEF Inv, Preserved, OnlyOrderedAssembles, Fits

\* A patch that is left out changes nothing.
LEMMA SkipInv == Inv /\ SkipPatch => Inv'
<1> SUFFICES ASSUME Inv, SkipPatch PROVE Inv'
  OBVIOUS
<1>1. TypeOK /\ PatchInv /\ Ordered /\ (\A m \in DOMAIN list : Fits(list[m]))
  BY DEF Inv, SkipPatch
<1>2. n \in Nat /\ Len(list) \in Nat /\ DOMAIN list = 1..Len(list) /\ n <= Len(list)
  BY <1>1 DEF TypeOK, SkipPatch
<1>3. Applied' = Applied
  BY <1>2 DEF Applied, SkipPatch
<1>4. \A o, b : Belongs(o, b)' <=> Belongs(o, b)
  BY <1>3 DEF Belongs, SkipPatch
<1>5. PatchInv'
  BY <1>1, <1>4 DEF PatchInv, Right, SkipPatch
<1>6. Ordered'
  BY <1>1, <1>3 DEF Ordered, SkipPatch
<1>7. TypeOK'
  BY <1>1, <1>2 DEF TypeOK, SkipPatch
<1>8. pc' = "patch" /\ list' = list
  BY DEF SkipPatch
<1>9. QED BY <1>1, <1>5, <1>6, <1>7, <1>8
             DEF Inv, Preserved, OnlyOrderedAssembles, Fits

\* PatchEnd fills up the last place and brings the rest of the text.
LEMMA PatchEndInv == Inv /\ PatchEnd => Inv'
<1> SUFFICES ASSUME Inv, PatchEnd PROVE Inv'
  OBVIOUS
<1>1. TypeOK /\ PatchInv /\ Ordered /\ (\A m \in DOMAIN list : Fits(list[m]))
  BY DEF Inv, PatchEnd
<1>2. /\ pc' = "done" /\ list' = list /\ n' = n /\ end' = end /\ Applied' = Applied
      /\ out' = Fill(out, end) \o Incbin(end, TextLen - end)
  BY DEF PatchEnd, Applied
<1>3. end \in Nat /\ TextLen \in Nat /\ end <= TextLen
  BY <1>1, TextAssumption DEF TypeOK, PatchEnd
<1>4. PICK g \in Nat : g = TextLen - end
  BY <1>3
<1>5. /\ Incbin(end, g) \in Seq(TextByte) /\ Len(Incbin(end, g)) = g
      /\ \A k \in 1..g : Incbin(end, g)[k] = Orig(end + (k - 1))
  BY <1>3, IncbinBytes
<1>6. \A m \in Applied : list[m].end \in Nat /\ list[m].end <= end
  BY <1>1, PatchParts DEF Applied, Ordered
<1>7. \A k \in 1..g : Belongs(end + (k - 1), Incbin(end, g)[k])
  <2>1. SUFFICES ASSUME NEW k \in 1..g
                 PROVE  Belongs(end + (k - 1), Incbin(end, g)[k])
    OBVIOUS
  <2>2. PICK o \in Nat : o = end + (k - 1)
    BY <1>3
  <2>3. \A m \in Applied : list[m].end <= o
    BY <1>3, <1>6, <2>2
  <2>4. Belongs(o, Orig(o))
    BY <2>3 DEF Belongs
  <2>5. QED BY <1>5, <2>2, <2>4
<1>8. Right(Fill(out, end), end)
  BY <1>1, FillRight
<1>9. Right(Fill(out, end) \o Incbin(end, g), end + g)
  BY <1>3, <1>5, <1>7, <1>8, AppendRight
<1>10. Right(out', TextLen)
  BY <1>2, <1>3, <1>4, <1>9
<1>11. \A o, b : Belongs(o, b)' <=> Belongs(o, b)
  BY <1>2 DEF Belongs
<1>12. Preserved'
  BY <1>10, <1>11 DEF Preserved, Right
<1>13. OnlyOrderedAssembles'
  BY <1>1, <1>2, <1>3, <1>6 DEF OnlyOrderedAssembles, Ordered
<1>14. TypeOK'
  BY <1>1, <1>2, <1>10 DEF TypeOK, Right
<1>15. Ordered'
  BY <1>1, <1>2 DEF Ordered
<1>16. QED BY <1>1, <1>2, <1>12, <1>13, <1>14, <1>15 DEF Inv, Fits

\* as that stops with an error leaves no text to be right.
LEMMA BadInv == Inv /\ (BadPatch \/ BadEnd) => Inv'
<1> SUFFICES ASSUME Inv, BadPatch \/ BadEnd PROVE Inv'
  OBVIOUS
<1>1. pc' = "error" /\ list' = list /\ n' = n /\ out' = out /\ end' = end
  BY DEF BadPatch, BadEnd
<1>2. Applied' = Applied
  BY <1>1 DEF Applied
<1>3. TypeOK' /\ Ordered'
  BY <1>1, <1>2 DEF Inv, TypeOK, Ordered
<1>4. QED BY <1>1, <1>3 DEF Inv, Preserved, OnlyOrderedAssembles, Fits

\* At the start nothing is patched and nothing is there.
LEMMA InitInv == Init => Inv
<1> SUFFICES ASSUME Init PROVE Inv
  OBVIOUS
<1>1. /\ pc = "patch" /\ n = 1 /\ out = <<>> /\ end = 0
      /\ list \in Seq(PatchType) /\ \A m \in DOMAIN list : Fits(list[m])
  BY TextAssumption DEF Init
<1>2. out \in Seq(TextByte) /\ Len(out) = 0
  BY <1>1, EmptySeq
<1>3. Applied = {}
  BY <1>1 DEF Applied
<1>4. PatchInv
  BY <1>1, <1>2 DEF PatchInv, Right
<1>5. TypeOK
  BY <1>1, <1>2 DEF TypeOK
<1>6. QED BY <1>1, <1>3, <1>4, <1>5
             DEF Inv, Ordered, Preserved, OnlyOrderedAssembles

-----------------------------------------------------------------------------
(* The theorems.                                                           *)

\* Every state of the assembly of patch.i satisfies the invariant.
THEOREM Invariance == Spec => []Inv
<1>1. Init => Inv
  BY InitInv
<1>2. Inv /\ [Next]_vars => Inv'
  <2> SUFFICES ASSUME Inv, [Next]_vars PROVE Inv'
    OBVIOUS
  <2>1. CASE SkipPatch
    BY <2>1, SkipInv
  <2>2. CASE ApplyPatch
    BY <2>2, ApplyInv
  <2>3. CASE BadPatch \/ BadEnd
    BY <2>3, BadInv
  <2>4. CASE PatchEnd
    BY <2>4, PatchEndInv
  <2>5. CASE UNCHANGED vars
    BY <2>5 DEF vars, Inv, TypeOK, Ordered, PatchInv, Right, Applied, Belongs,
                Preserved, OnlyOrderedAssembles
  <2>6. QED BY <2>1, <2>2, <2>3, <2>4, <2>5 DEF Next
<1>3. QED BY <1>1, <1>2, PTL DEF Spec

\* The types of the assembly of patch.i.
THEOREM TypeCorrect == Spec => []TypeOK
<1>1. Inv => TypeOK
  BY DEF Inv
<1>2. QED BY <1>1, Invariance, PTL

\* patch.i: for every text and every list of patches that fit their places, a
\* text that assembles has its original length and each of its bytes at its
\* original place.
THEOREM TextPreserved == Spec => []Preserved
<1>1. Inv => Preserved
  BY DEF Inv
<1>2. QED BY <1>1, Invariance, PTL

\* patch.i: whatever scan.c found, only places that follow each other, in the
\* order of the lines, and that lie in the text assemble.
THEOREM OrderedAssembles == Spec => []OnlyOrderedAssembles
<1>1. Inv => OnlyOrderedAssembles
  BY DEF Inv
<1>2. QED BY <1>1, Invariance, PTL

=============================================================================
