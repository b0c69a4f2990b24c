-------------------------- MODULE DominatorsProofs --------------------------
(***************************************************************************)
(* Proofs about Dominators, for every program, every width of words and    *)
(* every SKREW_HACK01: what a call ends with, and that processes agree.    *)
(***************************************************************************)
EXTENDS Dominators, SequenceTheorems, FiniteSetTheorems, WellFoundedInduction, TLAPS

-----------------------------------------------------------------------------
(* Numbers and texts.                                                      *)

\* Numbers that have a property have a smallest one with it.
LEMMA Smallest ==
  ASSUME NEW T, T \subseteq Nat, T # {}
  PROVE  \E m \in T : \A k \in T : m <= k
<1>1. IsWellFoundedOn(OpToRel(<, Nat), Nat)
  BY NatLessThanWellFounded, Zenon
<1>2. PICK m \in T : \A k \in T : ~(<<k, m>> \in OpToRel(<, Nat))
  BY <1>1, WFMin
<1>3. \A k \in T : ~(k < m)
  BY <1>2, Zenon DEF OpToRel
<1>4. QED BY <1>3

\* The digits up to a position are counted one by one.
LEMMA RankFacts ==
  ASSUME NEW s, NEW n \in Nat
  PROVE  /\ Rank(s, 0) = 0
         /\ Rank(s, n) \in Nat
         /\ Rank(s, n + 1) = Rank(s, n) + IF s[n + 1] # "junk" THEN 1 ELSE 0
<1> DEFINE D(j) == {h \in 1..j : s[h] # "junk"}
<1>1. ASSUME NEW j \in Nat PROVE IsFiniteSet(D(j)) /\ Rank(s, j) = Cardinality(D(j))
  <2>1. IsFiniteSet(1..j)
    BY FS_Interval
  <2>2. QED BY <2>1, FS_Subset DEF Rank
<1>2. Rank(s, 0) = 0
  <2>1. D(0) = {}
    OBVIOUS
  <2>2. QED BY <1>1, <2>1, FS_EmptySet
<1>3. Rank(s, n) \in Nat
  BY <1>1, FS_CardinalityType
<1>4. Rank(s, n + 1) = Rank(s, n) + IF s[n + 1] # "junk" THEN 1 ELSE 0
  <2>0. /\ Rank(s, n + 1) = Cardinality(D(n + 1)) /\ Rank(s, n) = Cardinality(D(n))
        /\ IsFiniteSet(D(n))
    <3>1. n + 1 \in Nat
      OBVIOUS
    <3> HIDE DEF D
    <3>2. QED BY <3>1, <1>1
  <2>1. CASE s[n + 1] # "junk"
    <3>1. D(n + 1) = D(n) \cup {n + 1} /\ n + 1 \notin D(n)
      BY <2>1
    <3> HIDE DEF D
    <3>2. QED BY <2>0, <2>1, <3>1, FS_AddElement
  <2>2. CASE s[n + 1] = "junk"
    <3>1. D(n + 1) = D(n)
      BY <2>2
    <3> HIDE DEF D
    <3>2. QED BY <2>0, <1>3, <2>2, <3>1
  <2>3. QED BY <2>1, <2>2
<1>5. QED BY <1>2, <1>3, <1>4

\* A digit counts for itself.
LEMMA RankOfDigit ==
  ASSUME NEW s, NEW n \in Nat \ {0}, s[n] # "junk"
  PROVE  Rank(s, n - 1) \in Nat /\ Rank(s, n) = Rank(s, n - 1) + 1
<1>1. PICK m \in Nat : n = m + 1
  <2>1. n - 1 \in Nat /\ n = (n - 1) + 1
    OBVIOUS
  <2>2. QED BY <2>1
<1>2. n - 1 = m /\ s[m + 1] # "junk"
  BY <1>1
<1>3. Rank(s, m) \in Nat /\ Rank(s, m + 1) = Rank(s, m) + 1
  BY <1>2, RankFacts
<1>4. QED BY <1>1, <1>2, <1>3

-----------------------------------------------------------------------------
(* Types.                                                                  *)

\* What a graph the function is called with is.
LEMMA GraphFacts ==
  ASSUME prog \in Programs, c \in DOMAIN prog
  PROVE  /\ graph.n \in Nat \ {0}
         /\ graph.entry \in Blocks
         /\ graph.listed \subseteq Blocks \ {graph.entry}
         /\ Visited \subseteq graph.listed
         /\ graph.order \in [Blocks -> Visited \cup {graph.entry, NoBlock}]
         /\ graph.preds \in [Blocks -> SUBSET Blocks]
<1>1. IsGraph(graph)
  BY DominatorsAssumption DEF graph
<1>2. QED BY <1>1 DEF IsGraph, Blocks, Visited

\* A row has room for the bit of every block.
LEMMA RowWidth ==
  ASSUME prog \in Programs, c \in DOMAIN prog
  PROVE  /\ WordLen \in Nat \ {0}
         /\ Blocks \subseteq Bits
<1>1. graph.n \in Nat \ {0} /\ W \in Nat \ {0}
  BY GraphFacts, DominatorsAssumption
<1>2. PICK m \in Nat : m = graph.n + W - 1 /\ m >= W
  BY <1>1
<1>3. m \div W \in Nat /\ m = W * (m \div W) + (m % W) /\ m % W \in 0..(W - 1)
  BY <1>1
<1>4. WordLen = m \div W
  BY <1>2 DEF WordLen
<1>5. PICK q \in Nat, r \in 0..(W - 1) : q = WordLen /\ m = W * q + r
  BY <1>3, <1>4
<1>6. W * q \in Nat
  BY <1>1, <1>5
<1>7. W * q >= graph.n
  BY <1>1, <1>2, <1>5, <1>6
<1>8. q # 0
  BY <1>1, <1>7
<1>9. Blocks \subseteq Bits
  BY <1>1, <1>5, <1>6, <1>7 DEF Blocks, Bits
<1>10. QED BY <1>5, <1>8, <1>9

\* The bits a visit gives a row are bits of a row.
LEMMA NewRowBits ==
  ASSUME prog \in Programs, c \in DOMAIN prog, NEW y \in Blocks
  PROVE  NewRow(y) \subseteq Bits
BY RowWidth DEF NewRow, Meet

\* What is left of a text after a word has been read from it is a text.
LEMMA RestText ==
  ASSUME NEW s \in Seq(Char)
  PROVE  SubSeq(s, Consumed(s) + 1, Len(s)) \in Seq(Char)
<1>1. Consumed(s) \in 0..Len(s)
  BY DEF Consumed, Taken
<1>2. PICK m \in 1..(Len(s) + 1) : m = Consumed(s) + 1
  BY <1>1
<1>3. SubSeq(s, m, Len(s)) \in Seq(Char)
  BY <1>2, SubSeqProperties
<1>4. QED BY <1>2, <1>3

\* A restored word has bits of its row.
LEMMA RestoredBits ==
  ASSUME prog \in Programs, c \in DOMAIN prog,
         NEW row \in SUBSET Bits, NEW k \in 0..(WordLen - 1), NEW s \in Seq(Char)
  PROVE  Restored(row, k, s) \subseteq Bits
<1>1. W \in Nat \ {0} /\ WordLen \in Nat \ {0}
  BY RowWidth, DominatorsAssumption
<1>2. ASSUME NEW j \in Taken(s)
      PROVE  WordBit(k, Rank(s, j) - 1) \in Bits
  <2>1. Rank(s, j) \in 1..W
    <3>1. j \in 1..Len(s) /\ s[j] # "junk" /\ Rank(s, j) <= W
      BY DEF Taken
    <3>2. Rank(s, j - 1) \in Nat /\ Rank(s, j) = Rank(s, j - 1) + 1
      BY <3>1, RankOfDigit
    <3>3. QED BY <1>1, <3>1, <3>2
  <2>2. PICK r \in 0..(W - 1), v \in Nat : r = Rank(s, j) - 1 /\ v = WordLen /\ v # 0
    BY <1>1, <2>1
  <2>3. k \in Nat /\ k + 1 <= v
    BY <1>1, <2>2
  <2>4. W * k \in Nat /\ W * v \in Nat /\ W * k + W <= W * v
    <3>1. PICK d \in Nat : v = (k + 1) + d
      BY <2>2, <2>3
    <3>2. W * v = (W * k + W) + W * d
      BY <1>1, <2>3, <3>1
    <3>3. W * d \in Nat /\ W * k \in Nat
      BY <1>1, <2>3
    <3>4. QED BY <1>1, <3>2, <3>3
  <2>5. W * k + r \in 0..(W * v - 1)
    BY <1>1, <2>2, <2>4
  <2>6. QED BY <2>2, <2>5 DEF WordBit, Bits
<1>3. QED BY <1>2 DEF Restored

\* Every step keeps the types.
LEMMA TypeStep == TypeOK /\ [Next]_vars => TypeOK'
<1> SUFFICES ASSUME TypeOK, [Next]_vars PROVE TypeOK'
  OBVIOUS
<1>1. Len(prog) \in Nat /\ DOMAIN prog = 1..Len(prog)
  BY DominatorsAssumption DEF TypeOK
<1>2. c \in DOMAIN prog => /\ graph.n \in Nat \ {0} /\ WordLen \in Nat \ {0}
                           /\ Blocks = 0..(graph.n - 1)
  BY GraphFacts, RowWidth DEF TypeOK, Blocks
<1>3. CASE Call
  <2>1. c \in DOMAIN prog
    BY <1>1, <1>3 DEF Call, TypeOK
  <2>2. Blocks \subseteq Bits /\ graph.entry \in Blocks
    BY <2>1, GraphFacts, RowWidth DEF TypeOK
  <2>3. 0 \in Blocks
    BY <1>2, <2>1
  <2>4. rows' \in [Blocks -> SUBSET Bits]
    <3>1. PICK garbage \in [Blocks \ Inited -> SUBSET Bits] :
            rows' = [y \in Blocks |-> IF y \in graph.listed THEN Bits
                                      ELSE IF y = graph.entry THEN {0}
                                      ELSE garbage[y]]
      BY <1>3 DEF Call
    <3>2. ASSUME NEW y \in Blocks
          PROVE  (IF y \in graph.listed THEN Bits
                  ELSE IF y = graph.entry THEN {0} ELSE garbage[y]) \in SUBSET Bits
      BY <2>2, <2>3 DEF Inited
    <3>3. QED BY <3>1, <3>2
  <2>5. /\ pc' \in {"report", "restore"} /\ prog' = prog /\ c' = c /\ i' = 0 /\ x' = 0
        /\ cont' \in BOOLEAN
        /\ UNCHANGED <<process, chk, env, hack, printed>>
    BY <1>3 DEF Call
  <2>6. UNCHANGED <<graph, Blocks, Bits, WordLen>>
    BY <2>5 DEF graph, Blocks, Bits, WordLen
  <2>7. QED BY <1>2, <2>1, <2>4, <2>5, <2>6 DEF TypeOK
<1>4. ASSUME NextWord, c \in DOMAIN prog, i \in 0..graph.n, i < graph.n,
             x \in 0..(WordLen - 1)
      PROVE  i' \in 0..graph.n /\ x' \in 0..(WordLen - 1)
  BY <1>2, <1>4 DEF NextWord
<1>5. CASE ReportWord
  <2>1. /\ c \in DOMAIN prog /\ NextWord /\ i < graph.n /\ pc' = pc /\ pc = "report"
        /\ UNCHANGED <<process, chk, env, hack, prog, c, rows, cont>>
    BY <1>5 DEF ReportWord, TypeOK
  <2>2. UNCHANGED <<graph, Blocks, Bits, WordLen>>
    BY <2>1 DEF graph, Blocks, Bits, WordLen
  <2>3. i' \in 0..graph.n /\ x' \in 0..(WordLen - 1)
    BY <1>4, <2>1 DEF TypeOK
  <2>4. \A row, k : Digits(row, k) \in Seq({"0", "1"})
    <3>1. \A row, k : Digits(row, k) \in [1..W -> {"0", "1"}]
      BY DEF Digits
    <3>2. QED BY <3>1, DominatorsAssumption
  <2>5. printed' \in Seq({"0", "1"})
    BY <1>5, <2>4 DEF ReportWord, TypeOK
  <2>6. QED BY <2>1, <2>2, <2>3, <2>5 DEF TypeOK
<1>6. CASE RestoreWord
  <2>1. /\ c \in DOMAIN prog /\ NextWord /\ i < graph.n /\ pc' = pc /\ pc = "restore"
        /\ UNCHANGED <<process, chk, env, prog, c, cont, printed>>
    BY <1>6 DEF RestoreWord, TypeOK
  <2>2. UNCHANGED <<graph, Blocks, Bits, WordLen>>
    BY <2>1 DEF graph, Blocks, Bits, WordLen
  <2>3. i' \in 0..graph.n /\ x' \in 0..(WordLen - 1)
    BY <1>4, <2>1 DEF TypeOK
  <2>4. hack.text \in Seq(Char)
    BY DEF TypeOK
  <2>5. hack' \in [set : BOOLEAN, text : Seq(Char)]
    <3>1. PICK rest : rest = SubSeq(hack.text, Consumed(hack.text) + 1, Len(hack.text))
      OBVIOUS
    <3>2. rest \in Seq(Char)
      BY <2>4, <3>1, RestText
    <3>3. hack' = hack \/ hack' = Set(rest)
      BY <1>6, <3>1 DEF RestoreWord
    <3>4. Set(rest) \in [set : BOOLEAN, text : Seq(Char)]
      BY <3>2 DEF Set
    <3>5. QED BY <3>3, <3>4 DEF TypeOK
  <2>6. rows' \in [Blocks -> SUBSET Bits]
    <3>1. rows \in [Blocks -> SUBSET Bits] /\ i \in Blocks
      BY <1>2, <2>1 DEF TypeOK
    <3>2. Restored(rows[i], x, hack.text) \subseteq Bits
      BY <2>1, <2>4, <3>1, RestoredBits DEF TypeOK
    <3>3. QED BY <1>6, <3>1, <3>2 DEF RestoreWord
  <2>7. QED BY <2>1, <2>2, <2>3, <2>5, <2>6 DEF TypeOK
<1>7. CASE Visit
  <2>1. /\ c \in DOMAIN prog /\ i < graph.n /\ pc' = pc /\ pc = "visit" /\ i' = i + 1
        /\ UNCHANGED <<process, chk, env, hack, prog, c, x, printed>>
    BY <1>7 DEF Visit, TypeOK
  <2>2. UNCHANGED <<graph, Blocks, Bits, WordLen>>
    BY <2>1 DEF graph, Blocks, Bits, WordLen
  <2>3. i' \in 0..graph.n
    BY <1>2, <2>1 DEF TypeOK
  <2>4. \A y \in Blocks : NewRow(y) \subseteq Bits
    BY <2>1, NewRowBits DEF TypeOK
  <2>5. Visited \subseteq Blocks
    BY <2>1, GraphFacts DEF TypeOK
  <2>6. rows' \in [Blocks -> SUBSET Bits] /\ cont' \in BOOLEAN
    <3>1. rows \in [Blocks -> SUBSET Bits] /\ cont \in BOOLEAN
      BY <2>1 DEF TypeOK
    <3>2. PICK y : y = graph.order[i]
      OBVIOUS
    <3>3. CASE y \in Visited
      <4>1. rows' = [rows EXCEPT ![y] = NewRow(y)]
        BY <1>7, <3>2, <3>3 DEF Visit
      <4>2. cont' = (cont \/ NewRow(y) # rows[y])
        BY <1>7, <3>2, <3>3, Zenon DEF Visit
      <4>3. NewRow(y) \subseteq Bits
        BY <2>4, <2>5, <3>3
      <4>4. QED BY <3>1, <4>1, <4>2, <4>3
    <3>4. CASE y \notin Visited
      BY <1>7, <3>1, <3>2, <3>4 DEF Visit
    <3>5. QED BY <3>3, <3>4
  <2>7. QED BY <2>1, <2>2, <2>3, <2>6 DEF TypeOK
<1>8. CASE StartVisits \/ NextPass \/ LastPass
  <2>1. /\ c \in DOMAIN prog /\ pc' \in {"visit", "fixed"}
        /\ pc \in {"report", "restore", "visit"}
        /\ i' \in {0, i} /\ x' \in {0, x} /\ cont' \in BOOLEAN
        /\ UNCHANGED <<process, chk, env, hack, prog, c, rows, printed>>
    BY <1>8 DEF StartVisits, NextPass, LastPass, TypeOK
  <2>2. UNCHANGED <<graph, Blocks, Bits, WordLen>>
    BY <2>1 DEF graph, Blocks, Bits, WordLen
  <2>3. QED BY <1>2, <2>1, <2>2 DEF TypeOK
<1>9. CASE Return
  <2>1. /\ c \in DOMAIN prog /\ pc' = "call" /\ c' = c + 1
        /\ UNCHANGED <<process, chk, env, hack, prog, cont, printed>>
    BY <1>9 DEF Return, TypeOK
  <2>2. QED BY <1>1, <2>1 DEF TypeOK
<1>10. CASE Rerun
  <2>1. printed \in Seq(Char)
    <3>1. Seq({"0", "1"}) \subseteq Seq(Char)
      BY DEF Char
    <3>2. QED BY <3>1 DEF TypeOK
  <2>2. QED BY <1>1, <1>10, <2>1 DEF Rerun, TypeOK, Set
<1>11. CASE Exit
  BY <1>11 DEF Exit, TypeOK
<1>12. CASE UNCHANGED vars
  BY <1>12 DEF vars, TypeOK, graph, Blocks, Bits, WordLen
<1>13. QED BY <1>3, <1>5, <1>6, <1>7, <1>8, <1>9, <1>10, <1>11, <1>12 DEF Next

-----------------------------------------------------------------------------
(* The inductive invariant: before the loop the rows of the listed blocks  *)
(* are all ones; in it no row lacks a bit of the largest solution, every   *)
(* equation can only take bits away, and while nothing has changed in a    *)
(* pass the equations of the blocks behind are solved.                     *)

AllOnes == \A y \in graph.listed : rows[y] = Bits
Above   == \A b \in Bits : \A S \in SUBSET Blocks : Closed(S, b) => S \subseteq Holders(b)
Falling == \A y \in Visited : NewRow(y) \subseteq rows[y]

Solved(y) == rows[y] = NewRow(y)
Behind    == {graph.order[k] : k \in 0..(i - 1)} \cap Visited

Inv ==
  /\ TypeOK
  /\ pc \in {"report", "restore"} => AllOnes
  /\ pc \in {"visit", "fixed"} => Above /\ Falling
  /\ pc = "visit" /\ ~cont => \A y \in Behind : Solved(y)
  /\ pc = "fixed" => \A y \in Visited : Solved(y)

\* What every action of a call leaves alone.
LEMMA SameGraph ==
  ASSUME UNCHANGED <<prog, c>>
  PROVE  UNCHANGED <<graph, Blocks, Bits, WordLen, Inited, Visited>>
BY DEF graph, Blocks, Bits, WordLen, Inited, Visited

\* Before the first visit no row of a listed block lacks a bit.
LEMMA StartAbove ==
  ASSUME TypeOK, c \in DOMAIN prog, AllOnes
  PROVE  Above /\ Falling
<1>1. Visited \subseteq graph.listed /\ Visited \subseteq Blocks
  BY GraphFacts DEF TypeOK
<1>2. \A y \in Visited : rows[y] = Bits
  BY <1>1 DEF AllOnes
<1>3. Above
  BY <1>2 DEF Above, Closed, Holders
<1>4. Falling
  BY <1>1, <1>2, NewRowBits DEF Falling, TypeOK
<1>5. QED BY <1>3, <1>4

\* A visit leaves the rows above every closed set, and below what they were.
LEMMA VisitRows ==
  ASSUME TypeOK, pc = "visit", Above, Falling, NEW y \in Visited,
         rows' = [rows EXCEPT ![y] = NewRow(y)], UNCHANGED <<prog, c>>
  PROVE  Above' /\ Falling' /\ \A z \in Blocks : rows'[z] \subseteq rows[z]
<1>1. /\ graph' = graph /\ Blocks' = Blocks /\ Bits' = Bits /\ Visited' = Visited
  BY SameGraph
<1>2. c \in DOMAIN prog /\ rows \in [Blocks -> SUBSET Bits]
  BY DEF TypeOK
<1>3. y \in Blocks /\ Visited \subseteq Blocks /\ graph.preds \in [Blocks -> SUBSET Blocks]
  BY <1>2, GraphFacts DEF TypeOK
<1>4. rows'[y] = NewRow(y) /\ \A z \in Blocks \ {y} : rows'[z] = rows[z]
  BY <1>2, <1>3
<1>5. \A z \in Blocks : rows'[z] \subseteq rows[z]
  BY <1>4 DEF Falling
<1>6. Above'
  <2>1. SUFFICES ASSUME NEW b \in Bits, NEW S \in SUBSET Blocks, Closed(S, b)',
                        NEW z \in S
                 PROVE  b \in rows'[z]
    BY <1>1 DEF Above, Holders
  <2>2. Closed(S, b)
    BY <1>1, <1>4, <2>1 DEF Closed
  <2>3. \A u \in S : b \in rows[u]
    BY <2>2 DEF Above, Holders
  <2>4. CASE z # y
    BY <1>4, <2>3, <2>4
  <2>5. CASE z = y
    <3>1. y = b \/ graph.preds[y] \subseteq S
      BY <2>2, <2>5 DEF Closed
    <3>2. b \in NewRow(y)
      BY <2>3, <3>1 DEF NewRow, Meet
    <3>3. QED BY <1>4, <2>5, <3>2
  <2>6. QED BY <2>4, <2>5
<1>7. \A z \in Visited : NewRow(z)' \subseteq NewRow(z)
  BY <1>1, <1>3, <1>5 DEF NewRow, Meet
<1>8. Falling'
  BY <1>1, <1>3, <1>4, <1>7 DEF Falling
<1>9. QED BY <1>5, <1>6, <1>8

\* Rows that stay as they are keep what is true of them.
LEMMA SameRows ==
  ASSUME UNCHANGED <<prog, c, rows>>
  PROVE  /\ AllOnes' <=> AllOnes
         /\ Above' <=> Above
         /\ Falling' <=> Falling
         /\ \A y : Solved(y)' <=> Solved(y)
<1>1. /\ graph' = graph /\ Blocks' = Blocks /\ Bits' = Bits /\ Visited' = Visited
  BY SameGraph
<1>2. \A y : NewRow(y)' = NewRow(y)
  BY <1>1 DEF NewRow, Meet
<1>3. AllOnes' <=> AllOnes
  BY <1>1 DEF AllOnes
<1>4. Above' <=> Above
  BY <1>1 DEF Above, Closed, Holders
<1>5. Falling' <=> Falling
  BY <1>1, <1>2 DEF Falling
<1>6. \A y : Solved(y)' <=> Solved(y)
  BY <1>2 DEF Solved
<1>7. QED BY <1>3, <1>4, <1>5, <1>6

\* The visit of the next block of the order.
LEMMA VisitInv == Inv /\ Visit => Inv'
<1> SUFFICES ASSUME Inv, Visit PROVE Inv'
  OBVIOUS
<1>1. TypeOK'
  BY TypeStep DEF Inv, Next
<1>2. /\ TypeOK /\ pc = "visit" /\ pc' = "visit" /\ Above /\ Falling
      /\ i < graph.n /\ i' = i + 1
      /\ prog' = prog /\ c' = c
  BY DEF Visit, Inv
<1>3. /\ graph' = graph /\ Blocks' = Blocks /\ Bits' = Bits /\ Visited' = Visited
  BY <1>2, SameGraph
<1>4. /\ c \in DOMAIN prog /\ rows \in [Blocks -> SUBSET Bits]
      /\ i \in Nat /\ cont \in BOOLEAN /\ graph.n \in Nat
  BY <1>2, GraphFacts DEF TypeOK
<1>5. PICK y : y = graph.order[i]
  OBVIOUS
<1>6. Behind' \subseteq Behind \cup {y}
  <2>1. \A k \in 0..(i' - 1) : k \in 0..(i - 1) \/ k = i
    BY <1>2, <1>4
  <2>2. QED BY <1>3, <1>5, <2>1 DEF Behind
<1>7. CASE y \in Visited
  <2>1. rows' = [rows EXCEPT ![y] = NewRow(y)]
    BY <1>5, <1>7 DEF Visit
  <2>2. cont' = (cont \/ NewRow(y) # rows[y])
    BY <1>5, <1>7, Zenon DEF Visit
  <2>3. Above' /\ Falling'
    BY <1>2, <1>7, <2>1, VisitRows
  <2>4. ASSUME ~cont' PROVE \A z \in Behind' : Solved(z)'
    <3>1. ~cont /\ NewRow(y) = rows[y]
      BY <1>4, <2>2, <2>4
    <3>2. rows' = rows
      BY <1>4, <2>1, <3>1
    <3>3. \A z \in Behind \cup {y} : Solved(z)
      BY <1>2, <3>1 DEF Inv, Solved
    <3>4. QED BY <1>2, <1>6, <3>2, <3>3, SameRows
  <2>5. QED BY <1>1, <1>2, <2>3, <2>4 DEF Inv
<1>8. CASE y \notin Visited
  <2>1. rows' = rows /\ cont' = cont
    BY <1>5, <1>8 DEF Visit
  <2>2. Above' /\ Falling'
    BY <1>2, <2>1, SameRows
  <2>3. Behind' \subseteq Behind
    BY <1>3, <1>6, <1>8 DEF Behind
  <2>4. ASSUME ~cont' PROVE \A z \in Behind' : Solved(z)'
    <3>1. \A z \in Behind : Solved(z)
      BY <1>2, <2>1, <2>4 DEF Inv
    <3>2. QED BY <1>2, <2>1, <2>3, <3>1, SameRows
  <2>5. QED BY <1>1, <1>2, <2>2, <2>4 DEF Inv
<1>9. QED BY <1>7, <1>8

\* Every step keeps the invariant.
LEMMA Step == Inv /\ [Next]_vars => Inv'
<1> SUFFICES ASSUME Inv, [Next]_vars PROVE Inv'
  OBVIOUS
<1>1. TypeOK /\ TypeOK'
  BY TypeStep DEF Inv
<1>2. CASE Call
  <2>1. pc' \in {"report", "restore"} /\ prog' = prog /\ c' = c
    BY <1>2 DEF Call
  <2>2. /\ graph' = graph /\ Bits' = Bits /\ c \in DOMAIN prog
    BY <1>1, <2>1, SameGraph DEF TypeOK
  <2>3. graph.listed \subseteq Blocks
    BY <1>1, <2>2, GraphFacts DEF TypeOK
  <2>4. AllOnes'
    BY <1>2, <2>2, <2>3 DEF Call, AllOnes
  <2>5. QED BY <1>1, <2>1, <2>4 DEF Inv
<1>3. CASE ReportWord
  <2>1. pc = "report" /\ pc' = "report" /\ UNCHANGED <<prog, c, rows>>
    BY <1>3 DEF ReportWord
  <2>2. AllOnes'
    BY <2>1, SameRows DEF Inv
  <2>3. QED BY <1>1, <2>1, <2>2 DEF Inv
<1>4. CASE RestoreWord
  <2>1. pc = "restore" /\ pc' = "restore" /\ prog' = prog /\ c' = c
    BY <1>4 DEF RestoreWord
  <2>2. graph' = graph /\ Bits' = Bits
    BY <2>1, SameGraph
  <2>3. AllOnes /\ rows \in [Blocks -> SUBSET Bits] /\ graph.listed \subseteq Blocks
    BY <1>1, <2>1, GraphFacts DEF Inv, TypeOK
  <2>4. \A y \in graph.listed : rows'[y] = rows[y]
    BY <1>4, <2>3 DEF RestoreWord, Inited
  <2>5. AllOnes'
    BY <2>2, <2>3, <2>4 DEF AllOnes
  <2>6. QED BY <1>1, <2>1, <2>5 DEF Inv
<1>5. CASE StartVisits
  <2>1. pc \in {"report", "restore"} /\ pc' = "visit" /\ i' = 0
        /\ UNCHANGED <<prog, c, rows>>
    BY <1>5 DEF StartVisits
  <2>2. Above /\ Falling
    BY <1>1, <2>1, StartAbove DEF Inv, TypeOK
  <2>3. Above' /\ Falling'
    BY <2>1, <2>2, SameRows
  <2>4. Behind' = {}
    BY <2>1 DEF Behind
  <2>5. QED BY <1>1, <2>1, <2>3, <2>4 DEF Inv
<1>6. CASE Visit
  BY <1>6, VisitInv
<1>7. CASE NextPass
  <2>1. pc = "visit" /\ pc' = "visit" /\ i' = 0 /\ UNCHANGED <<prog, c, rows>>
    BY <1>7 DEF NextPass
  <2>2. Above' /\ Falling'
    BY <2>1, SameRows DEF Inv
  <2>3. Behind' = {}
    BY <2>1 DEF Behind
  <2>4. QED BY <1>1, <2>1, <2>2, <2>3 DEF Inv
<1>8. CASE LastPass
  <2>1. pc = "visit" /\ ~cont /\ pc' = "fixed" /\ i >= graph.n
        /\ UNCHANGED <<prog, c, rows>>
    BY <1>8 DEF LastPass
  <2>2. Above' /\ Falling'
    BY <2>1, SameRows DEF Inv
  <2>3. Visited \subseteq Behind
    <3>1. i = graph.n /\ graph.n \in Nat
      BY <1>1, <2>1, GraphFacts DEF TypeOK
    <3>2. QED BY <3>1 DEF Visited, Behind, Blocks
  <2>4. \A y \in Visited : Solved(y)'
    BY <2>1, <2>3, SameRows DEF Inv
  <2>5. Visited' = Visited
    BY <2>1, SameGraph
  <2>6. QED BY <1>1, <2>1, <2>2, <2>4, <2>5 DEF Inv
<1>9. CASE Return \/ Rerun \/ Exit
  <2>1. pc' \in {"call", "done"}
    BY <1>9 DEF Return, Rerun, Exit
  <2>2. QED BY <1>1, <2>1 DEF Inv
<1>10. CASE UNCHANGED vars
  <2>1. UNCHANGED <<pc, prog, c, rows, i, cont>>
    BY <1>10 DEF vars
  <2>2. Behind' = Behind /\ Visited' = Visited
    BY <2>1, SameGraph DEF Behind
  <2>3. QED BY <1>1, <2>1, <2>2, SameRows DEF Inv
<1>11. QED BY <1>2, <1>3, <1>4, <1>5, <1>6, <1>7, <1>8, <1>9, <1>10 DEF Next

-----------------------------------------------------------------------------
(* The words of a program.                                                *)

\* The words of the first graphs can be counted.
Counts(p, m, f) == f = [k \in 0..m |-> IF k = 0 THEN 0 ELSE f[k - 1] + GraphWords(p[k])]

\* For every program there is a function that counts its words.
LEMMA CountsExist ==
  ASSUME NEW p, NEW m \in Nat
  PROVE  \E f : Counts(p, m, f)
<1> DEFINE T == {k \in Nat : ~ \E f : Counts(p, k, f)}
<1>1. ASSUME T # {} PROVE FALSE
  <2>1. PICK k \in T : \A j \in T : k <= j
    BY <1>1, Smallest
  <2>2. k # 0
    <3>1. Counts(p, 0, [j \in 0..0 |-> 0])
      BY DEF Counts
    <3>2. QED BY <3>1
  <2>3. k - 1 \in Nat /\ k - 1 \notin T
    BY <2>1, <2>2
  <2>4. PICK f : Counts(p, k - 1, f)
    BY <2>3
  <2>5. f = [j \in 0..(k - 1) |-> IF j = 0 THEN 0 ELSE f[j - 1] + GraphWords(p[j])]
    BY <2>4 DEF Counts
  <2> DEFINE h == [j \in 0..k |-> IF j = k THEN f[k - 1] + GraphWords(p[k]) ELSE f[j]]
  <2>6. \A j \in 0..k : h[j] = IF j = 0 THEN 0 ELSE h[j - 1] + GraphWords(p[j])
    <3>1. SUFFICES ASSUME NEW j \in 0..k
                   PROVE  h[j] = IF j = 0 THEN 0 ELSE h[j - 1] + GraphWords(p[j])
      OBVIOUS
    <3>2. CASE j = k
      <4>1. j # 0 /\ j - 1 \in 0..k /\ j - 1 # k
        BY <2>2, <3>2
      <4>2. QED BY <3>2, <4>1
    <3>3. CASE j # k
      <4>1. j \in 0..(k - 1) /\ h[j] = f[j]
        BY <2>3, <3>3
      <4>2. f[j] = IF j = 0 THEN 0 ELSE f[j - 1] + GraphWords(p[j])
        BY <2>5, <4>1
      <4>3. j # 0 => j - 1 \in 0..k /\ j - 1 # k
        BY <3>3
      <4>4. QED BY <4>1, <4>2, <4>3
    <3>4. QED BY <3>2, <3>3
  <2>7. h = [j \in 0..k |-> IF j = 0 THEN 0 ELSE h[j - 1] + GraphWords(p[j])]
    BY <2>6
  <2>8. Counts(p, k, h)
    BY <2>7 DEF Counts
  <2>9. QED BY <2>1, <2>8
<1>2. QED BY <1>1

\* WordsOf is that function.
LEMMA WordsEquation ==
  ASSUME NEW p, Len(p) \in Nat
  PROVE  WordsOf(p) = [k \in 0..Len(p) |-> IF k = 0 THEN 0 ELSE WordsOf(p)[k - 1] + GraphWords(p[k])]
<1>1. PICK f : Counts(p, Len(p), f)
  BY CountsExist
<1>2. f = [k \in 0..Len(p) |-> IF k = 0 THEN 0 ELSE f[k - 1] + GraphWords(p[k])]
  BY <1>1 DEF Counts
<1>3. QED BY <1>2, Zenon DEF WordsOf

-----------------------------------------------------------------------------
(* The digits of a text.                                                   *)

\* Farther in the text there are not fewer digits.
LEMMA RankMonotone ==
  ASSUME NEW s, NEW m \in Nat, NEW n \in Nat, m <= n
  PROVE  Rank(s, m) <= Rank(s, n)
<1>1. IsFiniteSet(1..n)
  BY FS_Interval
<1>2. IsFiniteSet({h \in 1..n : s[h] # "junk"})
  BY <1>1, FS_Subset
<1>3. {h \in 1..m : s[h] # "junk"} \subseteq {h \in 1..n : s[h] # "junk"}
  OBVIOUS
<1>4. QED BY <1>2, <1>3, FS_Subset DEF Rank

\* In a text with enough digits every number of them is reached, at a digit.
LEMMA RankReaches ==
  ASSUME NEW s, NEW n \in Nat, NEW v \in Nat \ {0}, Rank(s, n) >= v
  PROVE  \E k \in 1..n : s[k] # "junk" /\ Rank(s, k) = v
<1> DEFINE T == {j \in 0..n : Rank(s, j) >= v}
<1>1. T \subseteq Nat /\ n \in T
  OBVIOUS
<1>2. PICK k \in T : \A j \in T : k <= j
  <2> HIDE DEF T
  <2>1. QED BY <1>1, Smallest
<1>3. k \in 0..n /\ Rank(s, k) >= v
  OBVIOUS
<1>4. Rank(s, 0) = 0 /\ \A j \in Nat : Rank(s, j) \in Nat
  BY RankFacts
<1>5. k # 0
  BY <1>3, <1>4
<1>6. PICK m \in Nat : k = m + 1
  <2>1. k - 1 \in Nat /\ k = (k - 1) + 1
    BY <1>3, <1>5
  <2>2. QED BY <2>1
<1>7. m \in 0..n /\ m \notin T
  BY <1>2, <1>3, <1>6
<1>8. Rank(s, m) < v /\ Rank(s, m) \in Nat
  BY <1>4, <1>7
<1>9. Rank(s, m + 1) = Rank(s, m) + IF s[m + 1] # "junk" THEN 1 ELSE 0
  BY RankFacts
<1>10. s[k] # "junk" /\ Rank(s, k) = v
  BY <1>3, <1>6, <1>8, <1>9
<1>11. QED BY <1>3, <1>5, <1>10

\* What is left of a text behind a position is counted from there.
LEMMA RankBehind ==
  ASSUME NEW s \in Seq(Char), NEW p \in 0..Len(s), NEW t, t = SubSeq(s, p + 1, Len(s))
  PROVE  /\ t \in Seq(Char) /\ Len(t) = Len(s) - p
         /\ \A j \in 1..Len(t) : t[j] = s[p + j]
         /\ \A j \in 0..Len(t) : Rank(s, p + j) = Rank(s, p) + Rank(t, j)
<1>1. t \in Seq(Char) /\ Len(t) = Len(s) - p /\ \A j \in 1..Len(t) : t[j] = s[p + j]
  <2>1. \A j \in (p + 1)..Len(s) : s[j] \in Char
    OBVIOUS
  <2>2. p + 1 \in Int /\ Len(s) \in Int
    OBVIOUS
  <2>3. /\ t \in Seq(Char)
        /\ Len(t) = IF p + 1 <= Len(s) THEN Len(s) - (p + 1) + 1 ELSE 0
        /\ \A j \in 1..(Len(s) - (p + 1) + 1) : t[j] = s[(p + 1) + j - 1]
    BY <2>1, <2>2, SubSeqProperties
  <2>4. QED BY <2>3
<1> DEFINE T == {j \in 0..Len(t) : Rank(s, p + j) # Rank(s, p) + Rank(t, j)}
<1>2. ASSUME T # {} PROVE FALSE
  <2>1. T \subseteq Nat
    OBVIOUS
  <2>2. PICK k \in T : \A j \in T : k <= j
    <3> HIDE DEF T
    <3>1. QED BY <1>2, <2>1, Smallest
  <2>3. k \in 0..Len(t) /\ Rank(s, p + k) # Rank(s, p) + Rank(t, k)
    OBVIOUS
  <2>4. Rank(s, p) \in Nat /\ Rank(t, 0) = 0
    BY RankFacts
  <2>5. k # 0
    BY <2>3, <2>4
  <2>6. PICK m \in Nat : k = m + 1
    <3>1. k - 1 \in Nat /\ k = (k - 1) + 1
      BY <2>3, <2>5
    <3>2. QED BY <3>1
  <2>7. m \in 0..Len(t) /\ m \notin T
    BY <2>2, <2>3, <2>6
  <2>8. Rank(s, p + m) = Rank(s, p) + Rank(t, m)
    BY <2>7
  <2>9. p + m \in Nat /\ p + k = (p + m) + 1 /\ t[m + 1] = s[(p + m) + 1]
    BY <1>1, <2>3, <2>6
  <2>10. /\ Rank(s, (p + m) + 1) = Rank(s, p + m) + IF s[(p + m) + 1] # "junk" THEN 1 ELSE 0
         /\ Rank(t, m + 1) = Rank(t, m) + IF t[m + 1] # "junk" THEN 1 ELSE 0
         /\ Rank(t, m) \in Nat
    BY <2>9, RankFacts
  <2>11. QED BY <2>3, <2>4, <2>6, <2>8, <2>9, <2>10
<1>3. QED BY <1>1, <1>2

\* In a text without anything else the digits are counted by their positions.
LEMMA RankOfDigits ==
  ASSUME NEW s \in Seq({"0", "1"}), NEW n \in 0..Len(s)
  PROVE  Rank(s, n) = n
<1>1. {h \in 1..n : s[h] # "junk"} = 1..n
  OBVIOUS
<1>2. Cardinality(1..n) = n
  BY FS_Interval
<1>3. QED BY <1>1, <1>2 DEF Rank

-----------------------------------------------------------------------------
(* The bits a text says.                                                   *)

\* Its digit m, counted from 0, is there and is 1.
TextBit(s, m) == \E j \in 1..Len(s) : s[j] = "1" /\ Rank(s, j) = m + 1

\* The first v bits of a row are those of the text from digit m on.
RowFrom(r, s, m, v) == \A b \in 0..(v - 1) : b \in r <=> TextBit(s, m + b)

\* What a text says behind a position is what its rest says.
LEMMA TextBehind ==
  ASSUME NEW s \in Seq(Char), NEW p \in 0..Len(s), NEW t, t = SubSeq(s, p + 1, Len(s)),
         NEW z \in Nat
  PROVE  TextBit(s, Rank(s, p) + z) <=> TextBit(t, z)
<1>1. /\ t \in Seq(Char) /\ Len(t) = Len(s) - p
      /\ \A j \in 1..Len(t) : t[j] = s[p + j]
      /\ \A j \in 0..Len(t) : Rank(s, p + j) = Rank(s, p) + Rank(t, j)
  BY RankBehind, ZenonT(40)
<1>2. p \in Nat /\ Len(s) \in Nat /\ Len(t) \in Nat
  BY <1>1
<1>3. ASSUME NEW j \in Nat PROVE Rank(s, j) \in Nat /\ Rank(t, j) \in Nat
  BY RankFacts
<1>4. Rank(s, p) \in Nat
  BY <1>2, <1>3
<1>5. ASSUME TextBit(t, z) PROVE TextBit(s, Rank(s, p) + z)
  <2>1. PICK j \in 1..Len(t) : t[j] = "1" /\ Rank(t, j) = z + 1
    BY <1>5 DEF TextBit
  <2>2. p + j \in 1..Len(s) /\ j \in 0..Len(t)
    BY <1>1, <1>2
  <2>3. s[p + j] = "1" /\ Rank(s, p + j) = Rank(s, p) + Rank(t, j)
    BY <1>1, <2>1, <2>2
  <2>4. Rank(s, p + j) = (Rank(s, p) + z) + 1
    BY <1>4, <2>1, <2>3
  <2>5. QED BY <2>2, <2>3, <2>4 DEF TextBit
<1>6. ASSUME TextBit(s, Rank(s, p) + z) PROVE TextBit(t, z)
  <2>1. PICK i0 \in 1..Len(s) : s[i0] = "1" /\ Rank(s, i0) = (Rank(s, p) + z) + 1
    BY <1>6 DEF TextBit
  <2>2. i0 > p
    <3>1. i0 <= p => Rank(s, i0) <= Rank(s, p)
      BY <1>2, RankMonotone
    <3>2. Rank(s, i0) > Rank(s, p)
      BY <1>4, <2>1
    <3>3. i0 \in Nat /\ Rank(s, i0) \in Nat
      BY <1>2, <1>3
    <3>4. QED BY <1>4, <1>2, <3>1, <3>2, <3>3
  <2>3. PICK j \in 1..Len(t) : i0 = p + j
    <3>1. i0 - p \in 1..Len(t) /\ i0 = p + (i0 - p)
      BY <1>1, <1>2, <2>2
    <3>2. QED BY <3>1
  <2>4. t[j] = "1" /\ Rank(s, p + j) = Rank(s, p) + Rank(t, j)
    BY <1>1, <2>1, <2>3
  <2>5. Rank(t, j) \in Nat
    BY <1>2, <1>3
  <2>6. Rank(t, j) = z + 1
    <3>1. Rank(s, p) + Rank(t, j) = (Rank(s, p) + z) + 1
      BY <2>1, <2>3, <2>4
    <3>2. QED BY <1>4, <2>5, <3>1
  <2>7. QED BY <2>4, <2>6 DEF TextBit
<1>7. QED BY <1>5, <1>6

\* A word takes its digits, when there are enough.
LEMMA ConsumedWord ==
  ASSUME NEW t \in Seq(Char)
  PROVE  /\ Consumed(t) \in 0..Len(t)
         /\ Rank(t, Len(t)) >= W => Rank(t, Consumed(t)) = W
<1>1. Consumed(t) \in 0..Len(t)
  BY DEF Consumed, Taken
<1>2. ASSUME Rank(t, Len(t)) >= W PROVE Rank(t, Consumed(t)) = W
  <2>1. W \in Nat \ {0} /\ Len(t) \in Nat
    BY DominatorsAssumption
  <2>2. PICK k \in 1..Len(t) : t[k] # "junk" /\ Rank(t, k) = W
    BY <1>2, <2>1, RankReaches
  <2>3. k \in Taken(t)
    BY <2>1, <2>2 DEF Taken
  <2>4. QED BY <2>2, <2>3 DEF Consumed
<1>3. QED BY <1>1, <1>2

\* A word that finds a digit is what the text says, and the other bits stay.
LEMMA RestoredWord ==
  ASSUME NEW t \in Seq(Char), Rank(t, Len(t)) > 0, NEW row, NEW k \in Nat, NEW b \in Nat
  PROVE  b \in Restored(row, k, t) <=>
           IF W * k <= b /\ b < W * k + W THEN TextBit(t, b - W * k) ELSE b \in row
<1>1. W \in Nat \ {0} /\ Len(t) \in Nat /\ \A j \in Nat : Rank(t, j) \in Nat
  <2>1. \A j \in Nat : Rank(t, j) \in Nat
    BY RankFacts
  <2>2. QED BY <2>1, DominatorsAssumption
<1>2. PICK base \in Nat : base = W * k
  BY <1>1
<1>3. Taken(t) # {}
  <2>1. Rank(t, Len(t)) >= 1
    BY <1>1
  <2>2. PICK j \in 1..Len(t) : t[j] # "junk" /\ Rank(t, j) = 1
    BY <1>1, <2>1, RankReaches
  <2>3. j \in Taken(t)
    BY <1>1, <2>2 DEF Taken
  <2>4. QED BY <2>3
<1>4. b \in WordBits(k) <=> base <= b /\ b < base + W
  <2>1. ASSUME base <= b, b < base + W PROVE b \in WordBits(k)
    <3>1. b - base \in 0..(W - 1) /\ b = base + (b - base)
      BY <1>1, <2>1
    <3>2. QED BY <1>2, <3>1 DEF WordBits, WordBit
  <2>2. ASSUME b \in WordBits(k) PROVE base <= b /\ b < base + W
    BY <1>1, <1>2, <2>2 DEF WordBits, WordBit
  <2>3. QED BY <2>1, <2>2
<1> DEFINE ones == {WordBit(k, Rank(t, j) - 1) : j \in {j \in Taken(t) : t[j] = "1"}}
<1>5. b \in Restored(row, k, t) <=> (b \in row /\ b \notin WordBits(k)) \/ b \in ones
  BY <1>3 DEF Restored
<1>6. ASSUME b \in ones PROVE base <= b /\ b < base + W /\ TextBit(t, b - base)
  <2>1. PICK j \in Taken(t) : t[j] = "1" /\ b = base + (Rank(t, j) - 1)
    BY <1>2, <1>6 DEF WordBit
  <2>2. j \in 1..Len(t) /\ Rank(t, j) <= W /\ t[j] # "junk"
    BY DEF Taken
  <2>3. PICK q \in Nat : Rank(t, j) = q + 1
    <3>1. j \in Nat \ {0}
      BY <2>2
    <3>2. Rank(t, j - 1) \in Nat /\ Rank(t, j) = Rank(t, j - 1) + 1
      BY <2>2, <3>1, RankOfDigit
    <3>3. QED BY <3>2
  <2>4. b = base + q /\ q < W /\ b - base = q
    BY <1>1, <2>1, <2>2, <2>3
  <2>5. QED BY <1>1, <2>1, <2>2, <2>3, <2>4, SMTT(30) DEF TextBit
<1>7. ASSUME base <= b, b < base + W, TextBit(t, b - base) PROVE b \in ones
  <2>1. PICK j \in 1..Len(t) : t[j] = "1" /\ Rank(t, j) = (b - base) + 1
    BY <1>7 DEF TextBit
  <2>2. j \in Taken(t)
    <3>1. (b - base) + 1 <= W
      BY <1>1, <1>7
    <3>2. t[j] # "junk" /\ Rank(t, j) <= W /\ j \in DOMAIN t
      BY <2>1, <3>1
    <3>3. QED BY <3>2 DEF Taken
  <2>3. b = WordBit(k, Rank(t, j) - 1)
    BY <1>1, <1>2, <2>1 DEF WordBit
  <2>4. QED BY <2>1, <2>2, <2>3
<1> HIDE DEF ones
<1>8. QED BY <1>2, <1>4, <1>5, <1>6, <1>7

\* So one more word of a row is the text's.
LEMMA RowRestored ==
  ASSUME NEW s \in Seq(Char), NEW p \in 0..Len(s), NEW t, t = SubSeq(s, p + 1, Len(s)),
         Rank(t, Len(t)) > 0, NEW row, NEW k \in Nat, NEW m \in Nat,
         Rank(s, p) = m + W * k, RowFrom(row, s, m, W * k)
  PROVE  RowFrom(Restored(row, k, t), s, m, W * k + W)
<1>1. W \in Nat \ {0} /\ t \in Seq(Char)
  BY DominatorsAssumption, RankBehind
<1>2. PICK base \in Nat : base = W * k
  BY <1>1
<1>3. ASSUME NEW b \in 0..(base + W - 1)
      PROVE  b \in Restored(row, k, t) <=> TextBit(s, m + b)
  <2>1. b \in Nat /\ b < base + W
    BY <1>1
  <2>2. b \in Restored(row, k, t) <=> IF base <= b THEN TextBit(t, b - base) ELSE b \in row
    BY <1>1, <1>2, <2>1, RestoredWord
  <2>3. CASE base <= b
    <3>1. b - base \in Nat /\ Rank(s, p) + (b - base) = m + b
      BY <1>2, <2>1, <2>3
    <3>2. TextBit(s, m + b) <=> TextBit(t, b - base)
      BY <3>1, TextBehind
    <3>3. QED BY <2>2, <2>3, <3>2
  <2>4. CASE b < base
    <3>1. b \in 0..(base - 1)
      BY <2>1, <2>4
    <3>2. b \in row <=> TextBit(s, m + b)
      BY <1>2, <3>1 DEF RowFrom
    <3>3. QED BY <2>1, <2>2, <2>4, <3>2
  <2>5. QED BY <2>1, <2>3, <2>4
<1>4. PICK new : new = Restored(row, k, t)
  OBVIOUS
<1>5. \A b \in 0..(base + W - 1) : b \in new <=> TextBit(s, m + b)
  BY <1>3, <1>4
<1>6. RowFrom(new, s, m, base + W)
  BY <1>1, <1>5 DEF RowFrom
<1>7. QED BY <1>2, <1>4, <1>6

\* A text that is only digits says them in their places.
LEMMA DigitText ==
  ASSUME NEW s \in Seq({"0", "1"}), NEW m \in Nat
  PROVE  TextBit(s, m) <=> m < Len(s) /\ s[m + 1] = "1"
<1>1. Len(s) \in Nat /\ \A j \in 0..Len(s) : Rank(s, j) = j
  BY RankOfDigits
<1>2. ASSUME TextBit(s, m) PROVE m < Len(s) /\ s[m + 1] = "1"
  <2>1. PICK j \in 1..Len(s) : s[j] = "1" /\ Rank(s, j) = m + 1
    BY <1>2 DEF TextBit
  <2>2. j = m + 1
    BY <1>1, <2>1
  <2>3. QED BY <1>1, <2>1, <2>2
<1>3. ASSUME m < Len(s), s[m + 1] = "1" PROVE TextBit(s, m)
  <2>1. m + 1 \in 1..Len(s)
    BY <1>1, <1>3
  <2>2. QED BY <1>1, <1>3, <2>1 DEF TextBit
<1>4. QED BY <1>2, <1>3

\* What is printed behind it changes nothing of what it says.
LEMMA RowKeptByText ==
  ASSUME NEW s \in Seq({"0", "1"}), NEW d \in Seq({"0", "1"}), NEW r,
         NEW m \in Nat, NEW v \in Nat, m + v <= Len(s)
  PROVE  RowFrom(r, s, m, v) <=> RowFrom(r, s \o d, m, v)
<1>1. /\ s \o d \in Seq({"0", "1"}) /\ Len(s) \in Nat /\ Len(d) \in Nat
      /\ Len(s \o d) = Len(s) + Len(d)
      /\ \A k \in 1..(Len(s) + Len(d)) : (s \o d)[k] = IF k <= Len(s) THEN s[k] ELSE d[k - Len(s)]
  BY ConcatProperties
<1>2. ASSUME NEW b \in 0..(v - 1)
      PROVE  TextBit(s, m + b) <=> TextBit(s \o d, m + b)
  <2>1. m + b \in Nat /\ m + b < Len(s) /\ (m + b) + 1 \in 1..(Len(s) + Len(d))
        /\ (m + b) + 1 <= Len(s)
    BY <1>1
  <2>2. (s \o d)[(m + b) + 1] = s[(m + b) + 1] /\ m + b < Len(s \o d)
    BY <1>1, <2>1
  <2>3. QED BY <1>1, <2>1, <2>2, DigitText
<1>3. QED BY <1>2 DEF RowFrom

\* A word that is printed is what the text says of it.
LEMMA RowPrinted ==
  ASSUME NEW s \in Seq({"0", "1"}), NEW row, NEW k \in Nat, NEW m \in Nat,
         Len(s) = m + W * k, RowFrom(row, s, m, W * k)
  PROVE  /\ Digits(row, k) \in Seq({"0", "1"}) /\ Len(Digits(row, k)) = W
         /\ RowFrom(row, s \o Digits(row, k), m, W * k + W)
<1>1. W \in Nat \ {0}
  BY DominatorsAssumption
<1>2. PICK base \in Nat : base = W * k
  BY <1>1
<1>3. PICK d : d = Digits(row, k)
  OBVIOUS
<1>4. /\ d \in Seq({"0", "1"}) /\ Len(d) = W
      /\ \A z \in 1..W : d[z] = IF base + (z - 1) \in row THEN "1" ELSE "0"
  BY <1>1, <1>2, <1>3 DEF Digits, WordBit
<1>5. /\ s \o d \in Seq({"0", "1"}) /\ Len(s) \in Nat
      /\ Len(s \o d) = Len(s) + W
      /\ \A j \in 1..(Len(s) + W) : (s \o d)[j] = IF j <= Len(s) THEN s[j] ELSE d[j - Len(s)]
  <2>1. /\ s \o d \in Seq({"0", "1"})
        /\ Len(s \o d) = Len(s) + Len(d)
        /\ \A j \in 1..(Len(s) + Len(d)) : (s \o d)[j] = IF j <= Len(s) THEN s[j] ELSE d[j - Len(s)]
    BY <1>4, ConcatProperties
  <2>2. Len(d) = W /\ Len(s) \in Nat
    BY <1>4
  <2>3. QED BY <2>1, <2>2
<1>6. RowFrom(row, s \o d, m, base)
  <2>1. m + base <= Len(s)
    BY <1>2, <1>5
  <2>2. QED BY <1>2, <1>4, <2>1, RowKeptByText
<1>7. ASSUME NEW b \in 0..(base + W - 1)
      PROVE  b \in row <=> TextBit(s \o d, m + b)
  <2>1. CASE b < base
    <3>1. b \in 0..(base - 1)
      BY <2>1
    <3>2. QED BY <1>6, <3>1 DEF RowFrom
  <2>2. CASE base <= b
    <3>1. PICK z \in 0..(W - 1) : b = base + z
      <4>1. b - base \in 0..(W - 1) /\ b = base + (b - base)
        BY <1>1, <2>2
      <4>2. QED BY <4>1
    <3>2. /\ (m + b) + 1 \in 1..(Len(s) + W) /\ ~((m + b) + 1 <= Len(s))
          /\ (m + b) + 1 - Len(s) = z + 1 /\ m + b \in Nat /\ m + b < Len(s) + W
      BY <1>1, <1>2, <1>5, <3>1
    <3>3. (s \o d)[(m + b) + 1] = d[z + 1]
      BY <1>5, <3>2, SMTT(30)
    <3>4. z + 1 \in 1..W /\ base + ((z + 1) - 1) = b
      BY <1>1, <3>1
    <3>5. d[z + 1] = IF b \in row THEN "1" ELSE "0"
      BY <1>4, <3>4
    <3>6. TextBit(s \o d, m + b) <=> d[z + 1] = "1"
      BY <1>5, <3>2, <3>3, DigitText
    <3>7. QED BY <3>5, <3>6
  <2>3. QED BY <2>1, <2>2
<1>8. QED BY <1>2, <1>3, <1>4, <1>7 DEF RowFrom

-----------------------------------------------------------------------------
(* Where in the text a row stands.                                         *)

\* The blocks of a graph whose rows nothing initialises, how many of them are in
\* front of a block, and how many words a row has.
Uninit(g)    == (0..(g.n - 1)) \ (g.listed \cup {g.entry})
Before(g, y) == Cardinality({j \in Uninit(g) : j < y})
Width(g)     == (g.n + W - 1) \div W

\* The words in front of a block's row in call k, and in front of one of its words.
RowAt(p, k, y)     == WordsOf(p)[k - 1] + Width(p[k]) * Before(p[k], y)
WordAt(p, k, y, z) == RowAt(p, k, y) + IF y \in Uninit(p[k]) THEN z ELSE 0

\* A row has at least one word.
LEMMA WidthFacts ==
  ASSUME NEW g, IsGraph(g)
  PROVE  Width(g) \in Nat \ {0}
<1>1. g.n \in Nat \ {0} /\ W \in Nat \ {0}
  BY DominatorsAssumption DEF IsGraph
<1>2. PICK m \in Nat : m = g.n + W - 1 /\ m >= W
  BY <1>1
<1>3. m \div W \in Nat /\ m = W * (m \div W) + (m % W) /\ m % W \in 0..(W - 1)
  BY <1>1
<1>4. PICK q \in Nat, r \in 0..(W - 1) : q = m \div W /\ m = W * q + r
  BY <1>3
<1>5. q # 0
  <2>1. q = 0 => W * q = 0
    BY <1>1
  <2>2. QED BY <1>1, <1>2, <1>4, <2>1
<1>6. QED BY <1>2, <1>4, <1>5 DEF Width

\* The rows nothing initialises are counted block by block.
LEMMA BeforeFacts ==
  ASSUME NEW g, IsGraph(g), NEW y \in Nat
  PROVE  /\ Before(g, 0) = 0
         /\ Before(g, y) \in Nat
         /\ Before(g, y + 1) = Before(g, y) + IF y \in Uninit(g) THEN 1 ELSE 0
         /\ \A j \in Nat : y <= j => Before(g, y) <= Before(g, j)
         /\ GraphWords(g) = Width(g) * Before(g, g.n)
<1> DEFINE D(j) == {h \in Uninit(g) : h < j}
<1>1. /\ g.n \in Nat \ {0} /\ g.entry \in 0..(g.n - 1)
      /\ g.listed \subseteq 0..(g.n - 1)
  BY DEF IsGraph
<1>2. IsFiniteSet(0..(g.n - 1)) /\ Cardinality(0..(g.n - 1)) = g.n
  <2>1. PICK m \in Int : m = g.n - 1 /\ m >= 0 /\ g.n = m - 0 + 1
    <3>1. g.n - 1 \in Int /\ g.n - 1 >= 0 /\ g.n = (g.n - 1) - 0 + 1
      BY <1>1
    <3>2. QED BY <3>1
  <2>2. IsFiniteSet(0..m) /\ Cardinality(0..m) = IF 0 > m THEN 0 ELSE m - 0 + 1
    BY FS_Interval
  <2>3. QED BY <2>1, <2>2
<1>3. IsFiniteSet(Uninit(g)) /\ Uninit(g) \subseteq 0..(g.n - 1)
  BY <1>2, FS_Subset DEF Uninit
<1>4. \A j : IsFiniteSet(D(j)) /\ Before(g, j) = Cardinality(D(j))
  <2>1. \A j : D(j) \in SUBSET Uninit(g)
    OBVIOUS
  <2>2. QED BY <1>3, <2>1, FS_Subset DEF Before
<1>5. Before(g, 0) = 0
  <2>1. D(0) = {}
    BY <1>3
  <2> HIDE DEF D
  <2>2. QED BY <1>4, <2>1, FS_EmptySet
<1>6. Before(g, y) \in Nat
  <2> HIDE DEF D
  <2>1. QED BY <1>4, FS_CardinalityType
<1>7. Before(g, y + 1) = Before(g, y) + IF y \in Uninit(g) THEN 1 ELSE 0
  <2>1. D(y + 1) = IF y \in Uninit(g) THEN D(y) \cup {y} ELSE D(y)
    BY <1>3
  <2>2. y \notin D(y)
    BY <1>3
  <2> HIDE DEF D
  <2>3. IsFiniteSet(D(y)) /\ Before(g, y) = Cardinality(D(y)) /\ Before(g, y + 1) = Cardinality(D(y + 1))
    BY <1>4
  <2>4. CASE y \in Uninit(g)
    <3>1. Cardinality(D(y) \cup {y}) = Cardinality(D(y)) + 1
      BY <2>2, <2>3, FS_AddElement
    <3>2. QED BY <2>1, <2>3, <2>4, <3>1
  <2>5. CASE y \notin Uninit(g)
    BY <1>6, <2>1, <2>3, <2>5
  <2>6. QED BY <2>4, <2>5
<1>8. ASSUME NEW j \in Nat, y <= j PROVE Before(g, y) <= Before(g, j)
  <2>1. D(y) \subseteq D(j)
    BY <1>3, <1>8
  <2> HIDE DEF D
  <2>2. QED BY <1>4, <2>1, FS_Subset
<1>9. GraphWords(g) = Width(g) * Before(g, g.n)
  <2>1. D(g.n) = Uninit(g)
    BY <1>1, <1>3
  <2>2. (0..(g.n - 1)) \cap (g.listed \cup {g.entry}) = g.listed \cup {g.entry}
    BY <1>1
  <2>3. Cardinality(Uninit(g)) = g.n - Cardinality(g.listed \cup {g.entry})
    <3>1. PICK all, some : all = 0..(g.n - 1) /\ some = g.listed \cup {g.entry}
      OBVIOUS
    <3>2. Cardinality(all \ some) = Cardinality(all) - Cardinality(all \cap some)
      BY <1>2, <3>1, FS_Difference
    <3>3. all \cap some = some /\ Cardinality(all) = g.n /\ Uninit(g) = all \ some
      BY <1>2, <2>2, <3>1 DEF Uninit
    <3>4. QED BY <3>1, <3>2, <3>3
  <2> HIDE DEF D
  <2>4. Before(g, g.n) = g.n - Cardinality(g.listed \cup {g.entry})
    BY <1>4, <2>1, <2>3
  <2>5. QED BY <2>4 DEF GraphWords, Width
<1>10. QED BY <1>5, <1>6, <1>7, <1>8, <1>9

\* The graphs of a program are graphs.
LEMMA ProgramFacts ==
  ASSUME prog \in Programs
  PROVE  /\ Len(prog) \in Nat /\ DOMAIN prog = 1..Len(prog)
         /\ \A k \in DOMAIN prog : IsGraph(prog[k])
<1>1. Len(prog) \in Nat /\ DOMAIN prog = 1..Len(prog)
  BY DominatorsAssumption
<1>2. \A k \in DOMAIN prog : IsGraph(prog[k])
  BY DominatorsAssumption
<1>3. QED BY <1>1, <1>2

\* The words are counted up graph by graph.
LEMMA WordsFacts ==
  ASSUME prog \in Programs
  PROVE  /\ WordsOf(prog)[0] = 0
         /\ \A k \in DOMAIN prog : WordsOf(prog)[k] = WordsOf(prog)[k - 1] + GraphWords(prog[k])
         /\ \A k \in 0..Len(prog) : WordsOf(prog)[k] \in Nat
         /\ \A k \in 0..Len(prog) : WordsOf(prog)[k] <= GarbageWords
<1>1. Len(prog) \in Nat /\ DOMAIN prog = 1..Len(prog)
  BY ProgramFacts
<1>2. WordsOf(prog) = [k \in 0..Len(prog) |-> IF k = 0 THEN 0 ELSE WordsOf(prog)[k - 1] + GraphWords(prog[k])]
  BY <1>1, WordsEquation
<1>3. \A k \in 0..Len(prog) : WordsOf(prog)[k] = IF k = 0 THEN 0 ELSE WordsOf(prog)[k - 1] + GraphWords(prog[k])
  BY <1>2
<1>4. WordsOf(prog)[0] = 0 /\ \A k \in DOMAIN prog : WordsOf(prog)[k] = WordsOf(prog)[k - 1] + GraphWords(prog[k])
  BY <1>1, <1>3
<1>5. ASSUME NEW k \in DOMAIN prog PROVE GraphWords(prog[k]) \in Nat
  <2>1. IsGraph(prog[k]) /\ prog[k].n \in Nat
    BY ProgramFacts DEF IsGraph
  <2>2. Width(prog[k]) \in Nat /\ Before(prog[k], prog[k].n) \in Nat
        /\ GraphWords(prog[k]) = Width(prog[k]) * Before(prog[k], prog[k].n)
    BY <2>1, WidthFacts, BeforeFacts
  <2>3. QED BY <2>2
<1>6. \A k \in 0..Len(prog) : WordsOf(prog)[k] \in Nat
  <2> DEFINE T == {k \in 0..Len(prog) : WordsOf(prog)[k] \notin Nat}
  <2>1. ASSUME T # {} PROVE FALSE
    <3>1. T \subseteq Nat
      BY <1>1
    <3>2. PICK k \in T : \A j \in T : k <= j
      <4> HIDE DEF T
      <4>1. QED BY <2>1, <3>1, Smallest
    <3>3. k \in 0..Len(prog) /\ WordsOf(prog)[k] \notin Nat /\ k # 0
      BY <1>4
    <3>4. k \in DOMAIN prog /\ k - 1 \in 0..Len(prog) /\ ~(k <= k - 1)
      BY <1>1, <3>3
    <3>5. WordsOf(prog)[k - 1] \in Nat
      BY <3>2, <3>4
    <3>6. QED BY <1>4, <1>5, <3>3, <3>4, <3>5
  <2>2. QED BY <2>1
<1>7. \A k \in 0..Len(prog) : WordsOf(prog)[k] <= GarbageWords
  <2> DEFINE T == {j \in 0..Len(prog) : ~(WordsOf(prog)[Len(prog) - j] <= GarbageWords)}
  <2>1. ASSUME T # {} PROVE FALSE
    <3>1. T \subseteq Nat
      BY <1>1
    <3>2. PICK j \in T : \A h \in T : j <= h
      <4> HIDE DEF T
      <4>1. QED BY <2>1, <3>1, Smallest
    <3>3. j \in 0..Len(prog) /\ ~(WordsOf(prog)[Len(prog) - j] <= GarbageWords)
      OBVIOUS
    <3>4. WordsOf(prog)[Len(prog)] \in Nat /\ GarbageWords = WordsOf(prog)[Len(prog)]
      BY <1>1, <1>6 DEF GarbageWords
    <3>5. j # 0
      <4>1. j = 0 => Len(prog) - j = Len(prog)
        BY <1>1
      <4>2. QED BY <3>3, <3>4, <4>1
    <3>6. PICK k \in DOMAIN prog : k = Len(prog) - (j - 1)
      <4>1. Len(prog) - (j - 1) \in 1..Len(prog)
        BY <1>1, <3>3, <3>5
      <4>2. QED BY <1>1, <4>1
    <3>7. j - 1 \in 0..Len(prog) /\ ~(j <= j - 1) /\ k - 1 = Len(prog) - j /\ k - 1 \in 0..Len(prog)
          /\ k \in 0..Len(prog)
      BY <1>1, <3>3, <3>5, <3>6
    <3>8. WordsOf(prog)[k] <= GarbageWords
      BY <3>2, <3>6, <3>7
    <3>9. WordsOf(prog)[k] = WordsOf(prog)[k - 1] + GraphWords(prog[k])
      BY <1>4
    <3>10. WordsOf(prog)[k - 1] \in Nat /\ GraphWords(prog[k]) \in Nat /\ WordsOf(prog)[k] \in Nat
      BY <1>5, <1>6, <3>7
    <3>11. ~(WordsOf(prog)[k - 1] <= GarbageWords)
      BY <3>3, <3>7
    <3>12. QED BY <3>4, <3>8, <3>9, <3>10, <3>11
  <2>2. ASSUME NEW k \in 0..Len(prog) PROVE WordsOf(prog)[k] <= GarbageWords
    <3>1. Len(prog) - k \in 0..Len(prog) /\ Len(prog) - (Len(prog) - k) = k
      BY <1>1
    <3>2. Len(prog) - k \notin T
      BY <2>1
    <3>3. WordsOf(prog)[Len(prog) - (Len(prog) - k)] <= GarbageWords
      BY <3>1, <3>2
    <3>4. QED BY <3>1, <3>3
  <2>3. QED BY <2>2
<1>8. QED BY <1>4, <1>6, <1>7

\* A row is behind the words of the calls and of the rows in front of it, and in
\* front of the others.
LEMMA RowFacts ==
  ASSUME prog \in Programs, NEW k \in DOMAIN prog, NEW y \in Nat
  PROVE  /\ RowAt(prog, k, y) \in Nat
         /\ y \in Uninit(prog[k]) =>
              /\ RowAt(prog, k, y) + Width(prog[k]) <= WordsOf(prog)[k]
              /\ \A j \in Nat : y < j => RowAt(prog, k, y) + Width(prog[k]) <= RowAt(prog, k, j)
<1>1. IsGraph(prog[k]) /\ k - 1 \in 0..Len(prog) /\ k \in 0..Len(prog) /\ prog[k].n \in Nat
  <2>1. IsGraph(prog[k]) /\ k - 1 \in 0..Len(prog) /\ k \in 0..Len(prog)
    BY ProgramFacts
  <2>2. QED BY <2>1 DEF IsGraph
<1>2. PICK w \in Nat, base \in Nat :
        w = Width(prog[k]) /\ base = WordsOf(prog)[k - 1]
  BY <1>1, WidthFacts, WordsFacts
<1>3. \A j \in Nat : /\ Before(prog[k], j) \in Nat
                     /\ \A h \in Nat : j <= h => Before(prog[k], j) <= Before(prog[k], h)
  BY <1>1, BeforeFacts
<1>4. \A j \in Nat : RowAt(prog, k, j) = base + w * Before(prog[k], j)
  BY <1>2 DEF RowAt
<1>5. RowAt(prog, k, y) \in Nat
  <2>1. PICK b \in Nat : b = Before(prog[k], y)
    BY <1>3
  <2>2. w * b \in Nat
    BY <1>2, <2>1
  <2>3. QED BY <1>2, <1>4, <2>1, <2>2
<1>6. ASSUME y \in Uninit(prog[k]), NEW j \in Nat, y < j
      PROVE  RowAt(prog, k, y) + w <= base + w * Before(prog[k], j)
  <2>1. Before(prog[k], y + 1) = Before(prog[k], y) + 1
    BY <1>1, <1>6, BeforeFacts
  <2>2. PICK b \in Nat, d \in Nat : b = Before(prog[k], y) /\ Before(prog[k], j) = (b + 1) + d
    <3>1. y + 1 \in Nat /\ y + 1 <= j
      BY <1>6
    <3>2. /\ Before(prog[k], y) \in Nat /\ Before(prog[k], j) \in Nat
          /\ Before(prog[k], y) + 1 <= Before(prog[k], j)
      BY <1>3, <2>1, <3>1
    <3>3. PICK b \in Nat, e \in Nat : b = Before(prog[k], y) /\ e = Before(prog[k], j)
      BY <3>2
    <3>4. e - (b + 1) \in Nat /\ e = (b + 1) + (e - (b + 1))
      BY <3>2, <3>3
    <3>5. QED BY <3>3, <3>4
  <2>3. w * ((b + 1) + d) = w * b + w + w * d /\ w * b \in Nat /\ w * d \in Nat
    BY <1>2, <2>2
  <2>4. QED BY <1>2, <1>4, <2>2, <2>3
<1>7. ASSUME y \in Uninit(prog[k]) PROVE RowAt(prog, k, y) + w <= WordsOf(prog)[k]
  <2>1. y < prog[k].n
    BY <1>1, <1>7 DEF Uninit
  <2>2. RowAt(prog, k, y) + w <= base + w * Before(prog[k], prog[k].n)
    BY <1>1, <1>6, <1>7, <2>1
  <2>3. WordsOf(prog)[k] = base + w * Before(prog[k], prog[k].n)
    BY <1>1, <1>2, WordsFacts, BeforeFacts
  <2>4. QED BY <2>2, <2>3
<1>8. ASSUME y \in Uninit(prog[k]), NEW j \in Nat, y < j
      PROVE  RowAt(prog, k, y) + w <= RowAt(prog, k, j)
  BY <1>4, <1>6, <1>8
<1>9. QED BY <1>2, <1>5, <1>7, <1>8

\* The words of a row come one after the other, and then those of the next row.
LEMMA WordSteps ==
  ASSUME prog \in Programs, NEW k \in DOMAIN prog, NEW y \in Nat, NEW z \in Nat
  PROVE  /\ WordAt(prog, k, y, z) \in Nat
         /\ WordAt(prog, k, y, z + 1) = WordAt(prog, k, y, z) + IF y \in Uninit(prog[k]) THEN 1 ELSE 0
         /\ z + 1 = Width(prog[k]) =>
              WordAt(prog, k, y + 1, 0) = WordAt(prog, k, y, z) + IF y \in Uninit(prog[k]) THEN 1 ELSE 0
<1>1. IsGraph(prog[k]) /\ k - 1 \in 0..Len(prog)
  BY ProgramFacts
<1>2. RowAt(prog, k, y) \in Nat
  BY RowFacts
<1>3. PICK w \in Nat, base \in Nat, b \in Nat :
        w = Width(prog[k]) /\ base = WordsOf(prog)[k - 1] /\ b = Before(prog[k], y)
  BY <1>1, WidthFacts, WordsFacts, BeforeFacts
<1>4. Before(prog[k], y + 1) = b + IF y \in Uninit(prog[k]) THEN 1 ELSE 0
  BY <1>1, <1>3, BeforeFacts
<1>5. RowAt(prog, k, y) = base + w * b /\ w * b \in Nat
  BY <1>3 DEF RowAt
<1>6. RowAt(prog, k, y + 1) = RowAt(prog, k, y) + IF y \in Uninit(prog[k]) THEN w ELSE 0
  <2>1. w * (b + 1) = w * b + w /\ w * (b + 0) = w * b
    BY <1>3
  <2>2. RowAt(prog, k, y + 1) = base + w * (b + IF y \in Uninit(prog[k]) THEN 1 ELSE 0)
    BY <1>3, <1>4 DEF RowAt
  <2>3. CASE y \in Uninit(prog[k])
    BY <1>3, <1>5, <2>1, <2>2, <2>3
  <2>4. CASE y \notin Uninit(prog[k])
    BY <1>3, <1>5, <2>1, <2>2, <2>4
  <2>5. QED BY <2>3, <2>4
<1>7. WordAt(prog, k, y + 1, 0) = RowAt(prog, k, y + 1)
  <2>1. RowAt(prog, k, y + 1) \in Int
    BY <1>2, <1>3, <1>6
  <2>2. QED BY <2>1 DEF WordAt
<1>8. QED BY <1>2, <1>3, <1>6, <1>7 DEF WordAt

\* A call begins with the words of the calls before it, and ends with its own.
LEMMA WordEnds ==
  ASSUME prog \in Programs, NEW k \in DOMAIN prog
  PROVE  /\ WordAt(prog, k, 0, 0) = WordsOf(prog)[k - 1]
         /\ \A z : WordAt(prog, k, prog[k].n, z) = WordsOf(prog)[k]
<1>1. /\ IsGraph(prog[k]) /\ k - 1 \in 0..Len(prog) /\ k \in 0..Len(prog)
      /\ prog[k].n \in Nat
  <2>1. IsGraph(prog[k]) /\ k - 1 \in 0..Len(prog) /\ k \in 0..Len(prog)
    BY ProgramFacts
  <2>2. QED BY <2>1 DEF IsGraph
<1>2. PICK w \in Nat, base \in Nat, b \in Nat :
        w = Width(prog[k]) /\ base = WordsOf(prog)[k - 1] /\ b = Before(prog[k], prog[k].n)
  BY <1>1, WidthFacts, WordsFacts, BeforeFacts
<1>3. Before(prog[k], 0) = 0 /\ WordsOf(prog)[k] = base + w * b /\ w * b \in Nat
  <2>1. Before(prog[k], 0) = 0
    BY <1>1, BeforeFacts
  <2>2. WordsOf(prog)[k] = WordsOf(prog)[k - 1] + GraphWords(prog[k])
    BY WordsFacts
  <2>3. GraphWords(prog[k]) = Width(prog[k]) * Before(prog[k], prog[k].n)
    BY <1>1, BeforeFacts
  <2>4. QED BY <1>2, <2>1, <2>2, <2>3
<1>4. RowAt(prog, k, 0) = base /\ RowAt(prog, k, prog[k].n) = WordsOf(prog)[k]
  BY <1>2, <1>3 DEF RowAt
<1>5. prog[k].n \notin Uninit(prog[k])
  BY <1>1 DEF Uninit
<1>6. QED BY <1>2, <1>3, <1>4, <1>5 DEF WordAt

\* A word of a row that nothing initialises is one of the program's.
LEMMA WordBelow ==
  ASSUME prog \in Programs, NEW k \in DOMAIN prog, NEW y \in Uninit(prog[k]),
         NEW z \in Nat, z < Width(prog[k])
  PROVE  /\ WordAt(prog, k, y, z) = RowAt(prog, k, y) + z
         /\ WordAt(prog, k, y, z) < GarbageWords
<1>1. y \in Nat /\ IsGraph(prog[k]) /\ k \in 0..Len(prog)
  BY ProgramFacts DEF Uninit
<1>2. /\ RowAt(prog, k, y) \in Nat /\ Width(prog[k]) \in Nat /\ WordsOf(prog)[k] \in Nat
      /\ RowAt(prog, k, y) + Width(prog[k]) <= WordsOf(prog)[k] /\ WordsOf(prog)[k] <= GarbageWords
  BY <1>1, RowFacts, WidthFacts, WordsFacts
<1>3. GarbageWords \in Nat
  <2>1. Len(prog) \in 0..Len(prog)
    BY ProgramFacts
  <2>2. QED BY <2>1, WordsFacts DEF GarbageWords
<1>4. WordAt(prog, k, y, z) = RowAt(prog, k, y) + z
  BY DEF WordAt
<1>5. QED BY <1>2, <1>3, <1>4

\* When there is none, every row is initialised.
LEMMA NoneUninit ==
  ASSUME prog \in Programs, GarbageWords = 0, NEW k \in DOMAIN prog
  PROVE  Uninit(prog[k]) = {}
<1>1. SUFFICES ASSUME NEW y \in Uninit(prog[k]) PROVE FALSE
  OBVIOUS
<1>2. Width(prog[k]) \in Nat \ {0} /\ y \in Nat
  BY ProgramFacts, WidthFacts DEF Uninit
<1>3. 0 \in Nat /\ 0 < Width(prog[k])
  BY <1>2
<1>4. WordAt(prog, k, y, 0) < 0
  BY <1>3, WordBelow
<1>5. WordAt(prog, k, y, 0) \in Nat
  BY <1>2, WordSteps
<1>6. QED BY <1>4, <1>5

-----------------------------------------------------------------------------
(* The invariant of the texts.                                             *)

\* What is true of the rows a call returns with, and of nothing else: for its
\* graph g, that they are the largest solution above what they started with.
RowBits(g)   == 0..(W * Width(g) - 1)
VisitedIn(g) == {g.order[k] : k \in 0..(g.n - 1)} \ {NoBlock, g.entry}

HoldersIn(g, r, b)   == {y \in 0..(g.n - 1) : b \in r[y]}
ClosedIn(g, r, S, b) == \A y \in S : IF y \in VisitedIn(g) THEN y = b \/ g.preds[y] \subseteq S
                                                           ELSE b \in r[y]
LargestIn(g, r) == \A b \in RowBits(g) :
                     /\ ClosedIn(g, r, HoldersIn(g, r, b), b)
                     /\ \A S \in SUBSET (0..(g.n - 1)) :
                          ClosedIn(g, r, S, b) => S \subseteq HoldersIn(g, r, b)
StartIn(g, r)   == /\ r[g.entry] = {0}
                   /\ \A y \in g.listed \ VisitedIn(g) : r[y] = RowBits(g)

\* In call k the rows nothing initialises are those of the text s.
FromText(p, k, r, s) == \A y \in Uninit(p[k]) :
                          RowFrom(r[y], s, W * RowAt(p, k, y), W * Width(p[k]))

Result(p, k, r, s) == /\ r \in [0..(p[k].n - 1) -> SUBSET RowBits(p[k])]
                      /\ LargestIn(p[k], r)
                      /\ StartIn(p[k], r)
                      /\ FromText(p, k, r, s)

\* The words of the program that this process has come to, the text that says
\* what they are, and whether it says so of all of them.
InCall == pc \in {"report", "restore", "visit", "fixed"}
Words  == IF pc \in {"report", "restore"} THEN WordAt(prog, c, i, x)
          ELSE IF pc \in {"visit", "fixed"} THEN WordsOf(prog)[c] ELSE WordsOf(prog)[c - 1]
Source == IF env.set THEN env.text ELSE printed
Known  == Covers(env) \/ (~env.set /\ chk)

\* How many bits of a row are already those of the text.
Done(y) == IF pc \in {"visit", "fixed"} \/ y < i THEN W * Width(prog[c])
           ELSE IF y = i THEN W * x ELSE 0

Modes ==
  /\ hack.set = env.set
  /\ process = 2 /\ chk => env.set
  /\ pc = "report" => ~env.set
  /\ pc = "restore" => env.set
  /\ pc = "done" => process = 2 /\ c = Len(prog) + 1

\* hack_data is the rest of the text behind the words restored.
TextPlace ==
  env.set /\ Covers(env) =>
    \E q \in 0..Len(env.text) :
      /\ hack.text = SubSeq(env.text, q + 1, Len(env.text))
      /\ Words < GarbageWords => Rank(env.text, q) = W * Words
ReportPlace == ~env.set /\ chk => Len(printed) = W * Words

RowsStart == InCall => StartIn(prog[c], rows)
RowsText  == InCall /\ Known => \A y \in Uninit(prog[c]) :
                                  RowFrom(rows[y], Source, W * RowAt(prog, c, y), Done(y))

AnyRows == UNION {[0..(n - 1) -> SUBSET Nat] : n \in Nat}
ResultsTyped ==
  /\ results \in [1..2 -> Seq(AnyRows)]
  /\ Len(results[1]) = IF process = 1 THEN c - 1 ELSE Len(prog)
  /\ Len(results[2]) = IF process = 1 THEN 0 ELSE c - 1
ResultsKnown ==
  Known => \A p \in 1..2 : \A k \in 1..Len(results[p]) : Result(prog, k, results[p][k], Source)

Repro == Modes /\ TextPlace /\ ReportPlace /\ RowsStart /\ RowsText
         /\ ResultsTyped /\ ResultsKnown

-----------------------------------------------------------------------------
(* What the invariant rests on.                                            *)

\* The same in the words of the model.
LEMMA GraphNames ==
  /\ graph = prog[c] /\ Blocks = 0..(prog[c].n - 1) /\ Visited = VisitedIn(prog[c])
  /\ Bits = RowBits(prog[c]) /\ WordLen = Width(prog[c])
  /\ \A y \in Blocks : y \notin Inited <=> y \in Uninit(prog[c])
  /\ \A b : Holders(b) = HoldersIn(prog[c], rows, b)
  /\ \A S, b : Closed(S, b) <=> ClosedIn(prog[c], rows, S, b)
<1>1. graph = prog[c]
  BY DEF graph
<1>2. Blocks = 0..(prog[c].n - 1)
  BY <1>1 DEF Blocks
<1>3. Visited = VisitedIn(prog[c])
  BY <1>1, <1>2 DEF Visited, VisitedIn
<1>4. WordLen = Width(prog[c])
  BY <1>1 DEF WordLen, Width
<1>5. Bits = RowBits(prog[c])
  BY <1>4 DEF Bits, RowBits
<1>6. \A y \in Blocks : y \notin Inited <=> y \in Uninit(prog[c])
  BY <1>1, <1>2 DEF Inited, Uninit
<1>7. \A b : Holders(b) = HoldersIn(prog[c], rows, b)
  BY <1>2 DEF Holders, HoldersIn
<1>8. \A S, b : Closed(S, b) <=> ClosedIn(prog[c], rows, S, b)
  BY <1>1, <1>3 DEF Closed, ClosedIn
<1>9. QED BY <1>1, <1>2, <1>3, <1>4, <1>5, <1>6, <1>7, <1>8

\* Numbers of words and of bits.
LEMMA Times ==
  ASSUME NEW m \in Nat, NEW n \in Nat
  PROVE  /\ W * m \in Nat
         /\ W * (m + n) = W * m + W * n
         /\ W * (m + 1) = W * m + W
         /\ m <= n => W * m <= W * n
<1>1. W \in Nat \ {0}
  BY DominatorsAssumption
<1>2. W * m \in Nat /\ W * (m + n) = W * m + W * n /\ W * (m + 1) = W * m + W
  BY <1>1
<1>3. ASSUME m <= n PROVE W * m <= W * n
  <2>1. PICK d \in Nat : n = m + d
    <3>1. n - m \in Nat /\ n = m + (n - m)
      BY <1>3
    <3>2. QED BY <3>1
  <2>2. W * n = W * m + W * d /\ W * d \in Nat
    BY <1>1, <2>1
  <2>3. QED BY <1>2, <2>2
<1>4. QED BY <1>2, <1>3

\* The words of fewer calls are fewer.
LEMMA WordsMonotone ==
  ASSUME prog \in Programs, NEW m \in 0..Len(prog), NEW n \in 0..Len(prog), m <= n
  PROVE  WordsOf(prog)[m] <= WordsOf(prog)[n]
<1>1. Len(prog) \in Nat /\ DOMAIN prog = 1..Len(prog)
  BY ProgramFacts
<1>2. \A k \in 0..Len(prog) : WordsOf(prog)[k] \in Nat
  BY WordsFacts
<1>3. ASSUME NEW k \in DOMAIN prog
      PROVE  WordsOf(prog)[k - 1] <= WordsOf(prog)[k]
  <2>1. IsGraph(prog[k]) /\ prog[k].n \in Nat
    BY ProgramFacts DEF IsGraph
  <2>2. /\ Width(prog[k]) \in Nat /\ Before(prog[k], prog[k].n) \in Nat
        /\ GraphWords(prog[k]) = Width(prog[k]) * Before(prog[k], prog[k].n)
    BY <2>1, WidthFacts, BeforeFacts
  <2>3. GraphWords(prog[k]) \in Nat
    BY <2>2
  <2>4. WordsOf(prog)[k] = WordsOf(prog)[k - 1] + GraphWords(prog[k])
    BY WordsFacts
  <2>5. WordsOf(prog)[k - 1] \in Nat
    BY <1>1, <1>2
  <2>6. QED BY <2>3, <2>4, <2>5
<1> DEFINE T == {k \in m..Len(prog) : ~(WordsOf(prog)[m] <= WordsOf(prog)[k])}
<1>4. ASSUME T # {} PROVE FALSE
  <2>1. T \subseteq Nat
    BY <1>1
  <2>2. PICK k \in T : \A j \in T : k <= j
    <3> HIDE DEF T
    <3>1. QED BY <1>4, <2>1, Smallest
  <2>3. k \in m..Len(prog) /\ ~(WordsOf(prog)[m] <= WordsOf(prog)[k])
    OBVIOUS
  <2>4. k # m
    BY <1>2, <2>3
  <2>5. PICK j \in m..Len(prog) : j = k - 1 /\ j < k
    <3>1. k - 1 \in m..Len(prog) /\ k - 1 < k
      BY <1>1, <2>3, <2>4
    <3>2. QED BY <3>1
  <2>6. WordsOf(prog)[m] <= WordsOf(prog)[j]
    <3>1. j \notin T
      BY <1>1, <2>2, <2>3, <2>5
    <3>2. QED BY <3>1
  <2>7. k \in DOMAIN prog /\ j \in 0..Len(prog) /\ k \in 0..Len(prog)
    BY <1>1, <2>3, <2>4, <2>5
  <2>8. WordsOf(prog)[j] <= WordsOf(prog)[k]
    BY <1>3, <2>5, <2>7
  <2>9. QED BY <1>2, <2>3, <2>6, <2>7, <2>8
<1>5. n \notin T
  BY <1>4
<1>6. QED BY <1>1, <1>5

\* Two calls for the same graph whose rows nothing initialises are the same
\* return with the same rows.
LEMMA OneResult ==
  ASSUME NEW k \in DOMAIN prog, prog \in Programs, NEW s, NEW r1, NEW r2,
         Result(prog, k, r1, s), Result(prog, k, r2, s)
  PROVE  r1 = r2
<1>1. PICK g : g = prog[k]
  OBVIOUS
<1> DEFINE B == 0..(g.n - 1)
<1>2. IsGraph(g) /\ g.listed \subseteq B /\ g.entry \in B
  BY <1>1, ProgramFacts DEF IsGraph
<1>3. /\ r1 \in [B -> SUBSET RowBits(g)] /\ r2 \in [B -> SUBSET RowBits(g)]
      /\ StartIn(g, r1) /\ StartIn(g, r2) /\ LargestIn(g, r1) /\ LargestIn(g, r2)
      /\ FromText(prog, k, r1, s) /\ FromText(prog, k, r2, s)
  BY <1>1 DEF Result
<1>4. ASSUME NEW y \in B, y \notin VisitedIn(g), NEW b \in RowBits(g)
      PROVE  b \in r1[y] <=> b \in r2[y]
  <2>1. CASE y = g.entry
    BY <1>3, <2>1 DEF StartIn
  <2>2. CASE y \in g.listed
    BY <1>3, <1>4, <2>2 DEF StartIn
  <2>3. CASE y \in Uninit(g)
    <3>1. PICK v, m : v = W * Width(g) /\ m = W * RowAt(prog, k, y)
      OBVIOUS
    <3>2. RowFrom(r1[y], s, m, v) /\ RowFrom(r2[y], s, m, v)
      BY <1>1, <1>3, <2>3, <3>1 DEF FromText
    <3>3. b \in 0..(v - 1)
      BY <1>4, <3>1 DEF RowBits
    <3>4. QED BY <3>2, <3>3 DEF RowFrom
  <2>4. QED BY <2>1, <2>2, <2>3 DEF Uninit
<1>5. ASSUME NEW b \in RowBits(g), NEW S \in SUBSET B
      PROVE  ClosedIn(g, r1, S, b) <=> ClosedIn(g, r2, S, b)
  BY <1>4 DEF ClosedIn
<1>6. ASSUME NEW b \in RowBits(g)
      PROVE  HoldersIn(g, r1, b) = HoldersIn(g, r2, b)
  <2>1. PICK H1, H2 : H1 = HoldersIn(g, r1, b) /\ H2 = HoldersIn(g, r2, b)
    OBVIOUS
  <2>2. H1 \in SUBSET B /\ H2 \in SUBSET B
    BY <2>1 DEF HoldersIn
  <2>3. ClosedIn(g, r1, H1, b) /\ ClosedIn(g, r2, H2, b)
    BY <1>3, <2>1 DEF LargestIn
  <2>4. ClosedIn(g, r2, H1, b) /\ ClosedIn(g, r1, H2, b)
    BY <1>5, <2>2, <2>3
  <2>5. H1 \subseteq H2
    BY <1>3, <2>1, <2>2, <2>4 DEF LargestIn
  <2>6. H2 \subseteq H1
    BY <1>3, <2>1, <2>2, <2>4 DEF LargestIn
  <2>7. QED BY <2>1, <2>5, <2>6
<1>7. ASSUME NEW y \in B PROVE r1[y] = r2[y]
  <2>1. r1[y] \subseteq RowBits(g) /\ r2[y] \subseteq RowBits(g)
    BY <1>3
  <2>2. ASSUME NEW b \in RowBits(g) PROVE b \in r1[y] <=> b \in r2[y]
    BY <1>6 DEF HoldersIn
  <2>3. QED BY <2>1, <2>2
<1>8. r1 = [y \in B |-> r1[y]] /\ r2 = [y \in B |-> r2[y]]
  BY <1>3
<1>9. QED BY <1>7, <1>8

\* What is left of what is left of a text.
LEMMA RestOfRest ==
  ASSUME NEW s \in Seq(Char), NEW p \in 0..Len(s), NEW t, t = SubSeq(s, p + 1, Len(s)),
         NEW u \in 0..Len(t)
  PROVE  p + u \in 0..Len(s) /\ SubSeq(t, u + 1, Len(t)) = SubSeq(s, p + u + 1, Len(s))
<1>1. /\ t \in Seq(Char) /\ Len(t) = Len(s) - p
      /\ \A j \in 1..Len(t) : t[j] = s[p + j]
  BY RankBehind
<1>2. p \in Nat /\ u \in Nat /\ Len(s) \in Nat /\ Len(t) \in Nat
  BY <1>1
<1>3. PICK q \in 0..Len(s) : q = p + u
  <2>1. p + u \in 0..Len(s)
    BY <1>1, <1>2
  <2>2. QED BY <2>1
<1>4. PICK a, b : a = SubSeq(t, u + 1, Len(t)) /\ b = SubSeq(s, q + 1, Len(s))
  OBVIOUS
<1>5. a \in Seq(Char) /\ Len(a) = Len(t) - u /\ \A j \in 1..Len(a) : a[j] = t[u + j]
  <2>1. t \in Seq(Char) /\ u \in 0..Len(t) /\ a = SubSeq(t, u + 1, Len(t))
    BY <1>1, <1>4
  <2>2. QED BY <2>1, RankBehind
<1>6. b \in Seq(Char) /\ Len(b) = Len(s) - q /\ \A j \in 1..Len(b) : b[j] = s[q + j]
  BY <1>4, RankBehind
<1>7. Len(a) = Len(b) /\ Len(a) \in Nat
  BY <1>1, <1>2, <1>3, <1>5, <1>6
<1>8. ASSUME NEW j \in 1..Len(a) PROVE a[j] = b[j]
  <2>1. u + j \in 1..Len(t) /\ q + j = p + (u + j)
    BY <1>2, <1>3, <1>5
  <2>2. QED BY <1>1, <1>5, <1>6, <1>7, <2>1
<1>9. a = b
  BY <1>5, <1>6, <1>7, <1>8, SeqEqual
<1>10. QED BY <1>3, <1>4, <1>9

\* Word n of g can be taken from t, the rest of s, and leaves the rest behind it.
WordTaken(s, t, n, g) ==
  /\ Rank(t, Len(t)) > 0
  /\ \E q \in 0..Len(s) :
       /\ SubSeq(t, Consumed(t) + 1, Len(t)) = SubSeq(s, q + 1, Len(s))
       /\ n + 1 < g => Rank(s, q) = W * (n + 1)

\* A text that covers the program has the next word.
LEMMA TextAdvances ==
  ASSUME NEW s \in Seq(Char), NEW p \in 0..Len(s), NEW t, t = SubSeq(s, p + 1, Len(s))
  PROVE  \A n \in Nat, g \in Nat :
           n < g /\ Rank(s, p) = W * n /\ Rank(s, Len(s)) > W * (g - 1)
             => WordTaken(s, t, n, g)
<1>1. /\ t \in Seq(Char) /\ Len(t) = Len(s) - p
      /\ \A j \in 0..Len(t) : Rank(s, p + j) = Rank(s, p) + Rank(t, j)
  BY RankBehind, ZenonT(40)
<1>2. /\ p \in Nat /\ Len(s) \in Nat /\ Len(t) \in Nat /\ W \in Nat \ {0}
      /\ p + Len(t) = Len(s) /\ Len(t) \in 0..Len(t)
  BY <1>1, DominatorsAssumption
<1>3. PICK u \in 0..Len(t) : u = Consumed(t) /\ (Rank(t, Len(t)) >= W => Rank(t, u) = W)
  BY <1>1, ConsumedWord
<1>4. PICK q \in 0..Len(s) : q = p + u /\ SubSeq(t, u + 1, Len(t)) = SubSeq(s, q + 1, Len(s))
  BY RestOfRest
<1>5. Rank(s, q) = Rank(s, p) + Rank(t, u)
  BY <1>1, <1>3, <1>4
<1>6. Rank(s, Len(s)) = Rank(s, p) + Rank(t, Len(t))
  BY <1>1, <1>2
<1>7. PICK d \in Nat : d = Rank(t, Len(t))
  BY <1>2, RankFacts
<1>8. SUFFICES ASSUME NEW n \in Nat, NEW g \in Nat, n < g, Rank(s, p) = W * n,
                      Rank(s, Len(s)) > W * (g - 1)
               PROVE  d > 0 /\ (n + 1 < g => Rank(s, q) = W * (n + 1))
  BY <1>3, <1>4, <1>7 DEF WordTaken
<1>9. PICK h \in Nat : h = g - 1 /\ n <= h /\ (n + 1 < g => n + 1 <= h)
  <2>1. g - 1 \in Nat /\ n <= g - 1 /\ (n + 1 < g => n + 1 <= g - 1)
    BY <1>8
  <2>2. QED BY <2>1
<1>10. PICK a \in Nat, b \in Nat : a = W * n /\ b = W * h /\ a <= b
  BY <1>9, Times
<1>11. a + d > b
  BY <1>6, <1>7, <1>8, <1>9, <1>10
<1>12. ASSUME n + 1 < g PROVE Rank(s, q) = W * (n + 1)
  <2>1. n + 1 \in Nat /\ n + 1 <= h
    BY <1>9, <1>12
  <2>2. W * (n + 1) = a + W
    BY <1>10, Times
  <2>3. W * (n + 1) <= b
    BY <1>9, <1>10, <2>1, Times
  <2>4. a + W <= b /\ W \in Nat
    BY <1>2, <2>2, <2>3
  <2>5. d >= W
    BY <1>11, <2>4
  <2>6. QED BY <1>3, <1>5, <1>7, <1>8, <1>10, <2>2, <2>5
<1>13. QED BY <1>10, <1>11, <1>12

\* What is known of a call.
LEMMA CallFacts ==
  ASSUME TypeOK, InCall
  PROVE  /\ prog \in Programs /\ c \in DOMAIN prog /\ IsGraph(prog[c])
         /\ prog[c].n \in Nat \ {0} /\ Width(prog[c]) \in Nat \ {0}
         /\ i \in 0..prog[c].n /\ x \in 0..(Width(prog[c]) - 1)
         /\ rows \in [0..(prog[c].n - 1) -> SUBSET RowBits(prog[c])]
         /\ i < prog[c].n => (i \notin Inited <=> i \in Uninit(prog[c]))
<1>1. prog \in Programs /\ c \in DOMAIN prog
  BY DEF TypeOK, InCall
<1>2. IsGraph(prog[c]) /\ prog[c].n \in Nat \ {0}
  BY <1>1, ProgramFacts DEF IsGraph
<1>3. i \in 0..prog[c].n /\ x \in 0..(Width(prog[c]) - 1)
      /\ rows \in [0..(prog[c].n - 1) -> SUBSET RowBits(prog[c])]
  <2>1. i \in 0..graph.n /\ x \in 0..(WordLen - 1) /\ rows \in [Blocks -> SUBSET Bits]
    BY DEF TypeOK, InCall
  <2>2. QED BY <2>1, GraphNames
<1>4. i < prog[c].n => i \in 0..(prog[c].n - 1)
  BY <1>2, <1>3
<1>5. QED BY <1>1, <1>2, <1>3, <1>4, WidthFacts, GraphNames

\* The next word, and what is then done of each row.
LEMMA WordNext ==
  ASSUME TypeOK, pc \in {"report", "restore"}, i < graph.n, NextWord,
         pc' = pc, prog' = prog, c' = c
  PROVE  /\ WordAt(prog, c, i, x) \in Nat
         /\ Words = WordAt(prog, c, i, x)
         /\ Words' = WordAt(prog, c, i, x) + IF i \in Uninit(prog[c]) THEN 1 ELSE 0
         /\ \A y \in Nat : Done(y)' = IF y = i THEN W * x + W ELSE Done(y)
         /\ \A y \in Nat : y < i => Done(y) = W * Width(prog[c])
         /\ Done(i) = W * x
         /\ \A y \in Nat : i < y => Done(y) = 0
<1>1. InCall /\ graph = prog[c] /\ WordLen = Width(prog[c])
  BY GraphNames DEF InCall
<1>2. /\ prog \in Programs /\ c \in DOMAIN prog
      /\ i \in Nat /\ x \in Nat /\ x < Width(prog[c]) /\ Width(prog[c]) \in Nat
  BY <1>1, CallFacts
<1>3. /\ WordAt(prog, c, i, x) \in Nat
      /\ WordAt(prog, c, i, x + 1) = WordAt(prog, c, i, x) + IF i \in Uninit(prog[c]) THEN 1 ELSE 0
      /\ x + 1 = Width(prog[c]) =>
           WordAt(prog, c, i + 1, 0) = WordAt(prog, c, i, x) + IF i \in Uninit(prog[c]) THEN 1 ELSE 0
  BY <1>2, WordSteps
<1>4. Words = WordAt(prog, c, i, x)
  BY DEF Words
<1>5. Words' = WordAt(prog, c, i', x')
  BY DEF Words, WordAt, RowAt
<1>6. \/ x + 1 < Width(prog[c]) /\ i' = i /\ x' = x + 1
      \/ x + 1 = Width(prog[c]) /\ i' = i + 1 /\ x' = 0
  BY <1>1, <1>2 DEF NextWord
<1>7. Words' = WordAt(prog, c, i, x) + IF i \in Uninit(prog[c]) THEN 1 ELSE 0
  BY <1>3, <1>5, <1>6
<1>8. W \in Nat /\ W * (x + 1) = W * x + W /\ W * 0 = 0
  BY <1>2, Times, DominatorsAssumption
<1>9. ASSUME NEW y \in Nat
      PROVE  /\ Done(y)' = IF y < i' THEN W * Width(prog[c]) ELSE IF y = i' THEN W * x' ELSE 0
             /\ Done(y) = IF y < i THEN W * Width(prog[c]) ELSE IF y = i THEN W * x ELSE 0
  BY DEF Done
<1>10. ASSUME NEW y \in Nat
       PROVE  Done(y)' = IF y = i THEN W * x + W ELSE Done(y)
  <2>1. CASE x + 1 < Width(prog[c]) /\ i' = i /\ x' = x + 1
    BY <1>2, <1>8, <1>9, <2>1
  <2>2. CASE x + 1 = Width(prog[c]) /\ i' = i + 1 /\ x' = 0
    <3>1. CASE y < i
      BY <1>2, <1>9, <2>2, <3>1
    <3>2. CASE y = i
      <4>1. W * Width(prog[c]) = W * x + W
        BY <1>8, <2>2
      <4>2. QED BY <1>2, <1>9, <2>2, <3>2, <4>1
    <3>3. CASE y > i
      BY <1>2, <1>8, <1>9, <2>2, <3>3
    <3>4. QED BY <1>2, <3>1, <3>2, <3>3
  <2>3. QED BY <1>6, <2>1, <2>2
<1>11. QED BY <1>2, <1>3, <1>4, <1>7, <1>9, <1>10

-----------------------------------------------------------------------------
(* The steps.                                                              *)

\* What a step that leaves SKREW_HACK01 alone keeps.
LEMMA SameText ==
  ASSUME UNCHANGED <<env, chk, prog>>
  PROVE  /\ Covers(env)' <=> Covers(env)
         /\ Known' <=> Known
         /\ GarbageWords' = GarbageWords
<1>1. GarbageWords' = GarbageWords
  BY DEF GarbageWords
<1>2. Covers(env)' <=> Covers(env)
  BY <1>1 DEF Covers
<1>3. QED BY <1>1, <1>2 DEF Known

\* A word of a row that nothing initialises is restored.
LEMMA RestoreStep ==
  ASSUME TypeOK, Repro, RestoreWord
  PROVE  Repro'
<1>1. /\ pc = "restore" /\ pc' = pc /\ InCall /\ InCall' /\ i < graph.n /\ NextWord
      /\ UNCHANGED <<process, chk, env, prog, c, printed, results>>
  BY DEF RestoreWord, InCall
<1>2. /\ prog \in Programs /\ c \in DOMAIN prog /\ i \in Nat /\ x \in Nat /\ x < Width(prog[c])
      /\ prog[c].n \in Nat /\ i < prog[c].n /\ i \in 0..(prog[c].n - 1)
      /\ rows \in [0..(prog[c].n - 1) -> SUBSET RowBits(prog[c])]
      /\ i \notin Inited <=> i \in Uninit(prog[c])
  <2>1. graph = prog[c]
    BY DEF graph
  <2>2. QED BY <1>1, <2>1, CallFacts
<1>3. /\ WordAt(prog, c, i, x) \in Nat
      /\ Words = WordAt(prog, c, i, x)
      /\ Words' = WordAt(prog, c, i, x) + IF i \in Uninit(prog[c]) THEN 1 ELSE 0
      /\ \A y \in Nat : Done(y)' = IF y = i THEN W * x + W ELSE Done(y)
      /\ Done(i) = W * x
  BY <1>1, WordNext
<1>4. /\ Covers(env)' <=> Covers(env)
      /\ Known' <=> Known
      /\ GarbageWords' = GarbageWords /\ Source' = Source
  BY <1>1, SameText DEF Source
<1>5. env.set /\ env.text \in Seq(Char) /\ Source = env.text /\ (Known <=> Covers(env))
      /\ hack.set = env.set
  BY <1>1 DEF Repro, Modes, Source, Known, TypeOK
<1>6. ReportPlace' /\ ResultsTyped' /\ ResultsKnown'
  <2>1. ReportPlace'
    BY <1>1, <1>5 DEF ReportPlace
  <2>2. ResultsTyped'
    BY <1>1 DEF Repro, ResultsTyped
  <2>3. ResultsKnown'
    BY <1>1, <1>4 DEF Repro, ResultsKnown
  <2>4. QED BY <2>1, <2>2, <2>3
<1>7. CASE i \in Inited
  <2>1. rows' = rows /\ hack' = hack /\ Words' = Words
    BY <1>2, <1>3, <1>7 DEF RestoreWord
  <2>2. Modes'
    BY <1>1, <2>1 DEF Repro, Modes
  <2>3. TextPlace'
    BY <1>1, <1>4, <2>1 DEF Repro, TextPlace
  <2>4. RowsStart'
    BY <1>1, <2>1 DEF Repro, RowsStart
  <2>5. RowsText'
    <3>1. SUFFICES ASSUME Known, NEW y \in Uninit(prog[c])
                   PROVE  RowFrom(rows[y], Source, W * RowAt(prog, c, y), Done(y)')
      BY <1>1, <1>4, <2>1 DEF RowsText
    <3>2. Done(y)' = Done(y)
      BY <1>2, <1>3, <1>7, <3>1 DEF Uninit
    <3>3. QED BY <1>1, <3>1, <3>2 DEF Repro, RowsText
  <2>6. QED BY <1>6, <2>2, <2>3, <2>4, <2>5 DEF Repro
<1>8. CASE i \notin Inited
  <2>1. PICK t : t = hack.text
    OBVIOUS
  <2>2. /\ rows' = [rows EXCEPT ![i] = Restored(rows[i], x, t)]
        /\ hack' = Set(SubSeq(t, Consumed(t) + 1, Len(t)))
    BY <1>8, <2>1 DEF RestoreWord
  <2>3. i \in Uninit(prog[c]) /\ Words' = Words + 1
    BY <1>2, <1>3, <1>8
  <2>4. Words \in Nat /\ Words = RowAt(prog, c, i) + x /\ Words < GarbageWords
        /\ RowAt(prog, c, i) \in Nat /\ GarbageWords \in Nat
    <3>1. WordAt(prog, c, i, x) = RowAt(prog, c, i) + x /\ WordAt(prog, c, i, x) < GarbageWords
      BY <1>2, <2>3, WordBelow
    <3>2. RowAt(prog, c, i) \in Nat
      BY <1>2, RowFacts
    <3>3. GarbageWords \in Nat
      <4>1. Len(prog) \in 0..Len(prog)
        BY <1>2, ProgramFacts
      <4>2. QED BY <1>2, <4>1, WordsFacts DEF GarbageWords
    <3>4. QED BY <1>3, <3>1, <3>2, <3>3
  <2>5. ASSUME Covers(env)
        PROVE  /\ \E q \in 0..Len(env.text) :
                    /\ hack'.text = SubSeq(env.text, q + 1, Len(env.text))
                    /\ Words' < GarbageWords => Rank(env.text, q) = W * Words'
               /\ RowFrom(rows'[i], env.text, W * RowAt(prog, c, i), W * x + W)
    <3>1. PICK s \in Seq(Char) : s = env.text
      BY <1>5
    <3>2. PICK p \in 0..Len(s) : t = SubSeq(s, p + 1, Len(s)) /\ Rank(s, p) = W * Words
      BY <1>5, <2>1, <2>4, <2>5, <3>1 DEF Repro, TextPlace
    <3>3. Rank(s, Len(s)) > W * (GarbageWords - 1)
      BY <2>4, <2>5, <3>1 DEF Covers
    <3>4. /\ Rank(t, Len(t)) > 0
          /\ \E q \in 0..Len(s) :
               /\ SubSeq(t, Consumed(t) + 1, Len(t)) = SubSeq(s, q + 1, Len(s))
               /\ Words + 1 < GarbageWords => Rank(s, q) = W * (Words + 1)
      <4>1. PICK n \in Nat, g \in Nat : n = Words /\ g = GarbageWords
        BY <2>4
      <4>2. n < g /\ Rank(s, p) = W * n /\ Rank(s, Len(s)) > W * (g - 1)
        BY <2>4, <3>2, <3>3, <4>1
      <4>3. t = SubSeq(s, p + 1, Len(s))
        BY <3>2
      <4>4. WordTaken(s, t, n, g)
        BY <4>2, <4>3, TextAdvances
      <4>5. QED BY <4>1, <4>4 DEF WordTaken
    <3>5. hack'.text = SubSeq(t, Consumed(t) + 1, Len(t))
      BY <2>2 DEF Set
    <3>6. PICK m \in Nat : m = W * RowAt(prog, c, i) /\ Rank(s, p) = m + W * x
      <4>1. PICK a \in Nat : a = RowAt(prog, c, i)
        BY <2>4
      <4>2. W * a \in Nat /\ W * (a + x) = W * a + W * x
        BY <1>2, Times
      <4>3. Words = a + x
        BY <2>4, <4>1
      <4>4. QED BY <3>2, <4>1, <4>2, <4>3
    <3>7. RowFrom(rows[i], s, m, W * x)
      BY <1>1, <1>3, <1>5, <2>3, <2>5, <3>1, <3>6 DEF Repro, RowsText
    <3>8. RowFrom(Restored(rows[i], x, t), s, m, W * x + W)
      BY <1>2, <3>2, <3>4, <3>6, <3>7, RowRestored
    <3>9. rows'[i] = Restored(rows[i], x, t)
      BY <1>2, <2>2
    <3>10. QED BY <2>3, <3>1, <3>4, <3>5, <3>6, <3>8, <3>9
  <2>6. Modes'
    <3>1. hack'.set
      BY <2>2 DEF Set
    <3>2. QED BY <1>1, <1>5, <3>1 DEF Repro, Modes
  <2>7. TextPlace'
    BY <1>1, <1>4, <2>5 DEF TextPlace
  <2>8. RowsStart'
    <3>1. /\ prog[c].entry \in 0..(prog[c].n - 1) /\ prog[c].listed \subseteq 0..(prog[c].n - 1)
      BY <1>1, CallFacts DEF IsGraph
    <3>2. i # prog[c].entry /\ i \notin prog[c].listed
      BY <2>3 DEF Uninit
    <3>3. rows'[prog[c].entry] = rows[prog[c].entry]
          /\ \A y \in prog[c].listed : rows'[y] = rows[y]
      BY <1>2, <2>2, <3>1, <3>2
    <3>4. StartIn(prog[c], rows)
      BY <1>1 DEF Repro, RowsStart
    <3>5. StartIn(prog[c], rows')
      BY <3>3, <3>4 DEF StartIn
    <3>6. QED BY <1>1, <3>5 DEF RowsStart
  <2>9. RowsText'
    <3>1. SUFFICES ASSUME Known, NEW y \in Uninit(prog[c])
                   PROVE  RowFrom(rows'[y], Source, W * RowAt(prog, c, y), Done(y)')
      BY <1>1, <1>4 DEF RowsText
    <3>2. y \in Nat /\ y \in 0..(prog[c].n - 1)
      BY <3>1 DEF Uninit
    <3>3. CASE y = i
      <4>1. RowFrom(rows'[i], env.text, W * RowAt(prog, c, i), W * x + W)
        BY <1>5, <2>5, <3>1
      <4>2. Done(y)' = W * x + W
        BY <1>3, <3>2, <3>3
      <4>3. QED BY <1>5, <3>3, <4>1, <4>2
    <3>4. CASE y # i
      <4>1. rows'[y] = rows[y] /\ Done(y)' = Done(y)
        BY <1>2, <1>3, <2>2, <3>2, <3>4
      <4>2. QED BY <1>1, <3>1, <4>1 DEF Repro, RowsText
    <3>5. QED BY <3>3, <3>4
  <2>10. QED BY <1>6, <2>6, <2>7, <2>8, <2>9 DEF Repro
<1>9. QED BY <1>7, <1>8

\* What is printed behind the words of a call changes nothing of its result.
LEMMA ResultKept ==
  ASSUME prog \in Programs, NEW k \in DOMAIN prog, NEW r,
         NEW s \in Seq({"0", "1"}), NEW d \in Seq({"0", "1"}),
         W * WordsOf(prog)[k] <= Len(s), Result(prog, k, r, s)
  PROVE  Result(prog, k, r, s \o d)
<1>1. Len(s) \in Nat /\ IsGraph(prog[k]) /\ k \in 0..Len(prog)
  BY ProgramFacts
<1>2. ASSUME NEW y \in Uninit(prog[k])
      PROVE  RowFrom(r[y], s \o d, W * RowAt(prog, k, y), W * Width(prog[k]))
  <2>1. PICK a \in Nat, w \in Nat, e \in Nat :
          a = RowAt(prog, k, y) /\ w = Width(prog[k]) /\ e = WordsOf(prog)[k] /\ a + w <= e
    <3>1. y \in Nat
      BY <1>1 DEF Uninit
    <3>2. /\ RowAt(prog, k, y) \in Nat /\ Width(prog[k]) \in Nat /\ WordsOf(prog)[k] \in Nat
          /\ RowAt(prog, k, y) + Width(prog[k]) <= WordsOf(prog)[k]
      BY <1>1, <3>1, RowFacts, WidthFacts, WordsFacts
    <3>3. QED BY <3>2
  <2>2. PICK m \in Nat, v \in Nat : m = W * a /\ v = W * w
    BY Times
  <2>3. m + v <= Len(s)
    <3>1. W * (a + w) = W * a + W * w
      BY Times
    <3>2. W * (a + w) <= W * e
      <4>1. PICK f \in Nat : f = a + w /\ f <= e
        BY <2>1
      <4>2. QED BY <4>1, Times
    <3>3. W * e \in Nat /\ W * e <= Len(s)
      BY <2>1, Times
    <3>4. QED BY <1>1, <2>2, <3>1, <3>2, <3>3
  <2>4. RowFrom(r[y], s, m, v)
    BY <2>1, <2>2 DEF Result, FromText
  <2>5. PICK row : row = r[y]
    OBVIOUS
  <2>6. RowFrom(row, s \o d, m, v)
    BY <2>3, <2>4, <2>5, RowKeptByText
  <2>7. QED BY <2>1, <2>2, <2>5, <2>6
<1>3. QED BY <1>2 DEF Result, FromText

\* A word of a row that nothing initialises is reported.
LEMMA ReportStep ==
  ASSUME TypeOK, Repro, ReportWord
  PROVE  Repro'
<1>1. /\ pc = "report" /\ pc' = pc /\ InCall /\ InCall' /\ i < graph.n /\ NextWord /\ chk
      /\ UNCHANGED <<process, chk, env, hack, prog, c, rows, results>>
  BY DEF ReportWord, InCall
<1>2. /\ prog \in Programs /\ c \in DOMAIN prog /\ i \in Nat /\ x \in Nat /\ x < Width(prog[c])
      /\ prog[c].n \in Nat /\ i < prog[c].n /\ i \in 0..(prog[c].n - 1)
      /\ i \notin Inited <=> i \in Uninit(prog[c])
  <2>1. graph = prog[c]
    BY DEF graph
  <2>2. QED BY <1>1, <2>1, CallFacts
<1>3. /\ WordAt(prog, c, i, x) \in Nat
      /\ Words = WordAt(prog, c, i, x)
      /\ Words' = WordAt(prog, c, i, x) + IF i \in Uninit(prog[c]) THEN 1 ELSE 0
      /\ \A y \in Nat : Done(y)' = IF y = i THEN W * x + W ELSE Done(y)
      /\ \A y \in Nat : y < i => Done(y) = W * Width(prog[c])
      /\ Done(i) = W * x
      /\ \A y \in Nat : i < y => Done(y) = 0
  BY <1>1, WordNext
<1>4. /\ ~env.set /\ Known /\ Known' /\ process = 1
      /\ Source = printed /\ Source' = printed'
      /\ printed \in Seq({"0", "1"}) /\ Len(printed) = W * Words /\ Len(printed) \in Nat
  <2>1. ~env.set /\ process \in 1..2 /\ (process = 2 => env.set) /\ printed \in Seq({"0", "1"})
    BY <1>1 DEF Repro, Modes, TypeOK
  <2>2. Len(printed) = W * Words
    BY <1>1, <2>1 DEF Repro, ReportPlace
  <2>3. QED BY <1>1, <2>1, <2>2 DEF Source, Known
<1>5. Modes' /\ TextPlace' /\ RowsStart' /\ ResultsTyped'
  <2>1. Modes'
    BY <1>1 DEF Repro, Modes
  <2>2. TextPlace'
    BY <1>1, <1>4 DEF TextPlace
  <2>3. RowsStart'
    BY <1>1 DEF Repro, RowsStart
  <2>4. ResultsTyped'
    BY <1>1 DEF Repro, ResultsTyped
  <2>5. QED BY <2>1, <2>2, <2>3, <2>4
<1>6. CASE i \in Inited
  <2>1. printed' = printed /\ Words' = Words
    BY <1>2, <1>3, <1>6 DEF ReportWord
  <2>2. ReportPlace'
    BY <1>1, <2>1 DEF Repro, ReportPlace
  <2>3. ResultsKnown'
    BY <1>1, <1>4, <2>1 DEF Repro, ResultsKnown
  <2>4. RowsText'
    <3>1. SUFFICES ASSUME NEW y \in Uninit(prog[c])
                   PROVE  RowFrom(rows[y], Source, W * RowAt(prog, c, y), Done(y)')
      BY <1>1, <1>4, <2>1 DEF RowsText
    <3>2. Done(y)' = Done(y)
      BY <1>2, <1>3, <1>6, <3>1 DEF Uninit
    <3>3. QED BY <1>1, <1>4, <3>1, <3>2 DEF Repro, RowsText
  <2>5. QED BY <1>5, <2>2, <2>3, <2>4 DEF Repro
<1>7. CASE i \notin Inited
  <2>1. PICK d : d = Digits(rows[i], x)
    OBVIOUS
  <2>2. /\ printed' = printed \o d /\ Words' = Words + 1 /\ i \in Uninit(prog[c])
    BY <1>2, <1>3, <1>7, <2>1 DEF ReportWord
  <2>3. PICK a \in Nat : a = RowAt(prog, c, i) /\ Words = a + x
    <3>1. RowAt(prog, c, i) \in Nat /\ WordAt(prog, c, i, x) = RowAt(prog, c, i) + x
      BY <1>2, <2>2, RowFacts, WordBelow
    <3>2. QED BY <1>3, <3>1
  <2>4. PICK m \in Nat : m = W * a /\ Len(printed) = m + W * x
    <3>1. W * a \in Nat /\ W * (a + x) = W * a + W * x
      BY <1>2, Times
    <3>2. QED BY <1>4, <2>3, <3>1
  <2>5. /\ d \in Seq({"0", "1"}) /\ Len(d) = W
        /\ RowFrom(rows[i], printed \o d, m, W * x + W)
    <3>1. RowFrom(rows[i], printed, m, W * x)
      BY <1>1, <1>3, <1>4, <2>2, <2>3, <2>4 DEF Repro, RowsText
    <3>2. QED BY <1>2, <1>4, <2>1, <2>4, <3>1, RowPrinted
  <2>6. ReportPlace'
    <3>1. W \in Nat /\ Len(printed') = Len(printed) + W
      BY <1>4, <2>2, <2>5, ConcatProperties, DominatorsAssumption
    <3>2. PICK n \in Nat : n = Words
      BY <1>3
    <3>3. W * (n + 1) = W * n + W
      BY Times
    <3>4. Len(printed') = W * Words'
      BY <1>4, <2>2, <3>1, <3>2, <3>3
    <3>5. QED BY <3>4 DEF ReportPlace
  <2>7. ResultsKnown'
    <3>1. SUFFICES ASSUME NEW p \in 1..2, NEW k \in 1..Len(results[p])
                   PROVE  Result(prog, k, results[p][k], printed \o d)
      BY <1>1, <1>4, <2>2 DEF ResultsKnown
    <3>2. c \in Nat /\ c <= Len(prog) /\ c \in 1..Len(prog) /\ DOMAIN prog = 1..Len(prog)
      BY <1>2, ProgramFacts
    <3>3. p = 1 /\ k \in 1..(c - 1)
      BY <1>4, <3>1, <3>2 DEF Repro, ResultsTyped
    <3>4. k \in DOMAIN prog /\ k \in 0..Len(prog) /\ c - 1 \in 0..Len(prog) /\ k <= c - 1
      BY <3>2, <3>3
    <3>5. WordsOf(prog)[k] <= WordsOf(prog)[c - 1] /\ WordsOf(prog)[k] \in Nat
          /\ WordsOf(prog)[c - 1] \in Nat
      BY <1>2, <3>4, WordsMonotone, WordsFacts
    <3>6. WordsOf(prog)[c - 1] <= a
      <4>1. PICK w \in Nat, b \in Nat, e \in Nat :
              w = Width(prog[c]) /\ b = Before(prog[c], i) /\ e = WordsOf(prog)[c - 1]
        BY <1>2, <3>5, ProgramFacts, WidthFacts, BeforeFacts
      <4>2. a = e + w * b
        BY <2>3, <4>1 DEF RowAt
      <4>3. w * b \in Nat
        BY <4>1
      <4>4. QED BY <4>1, <4>2, <4>3
    <3>7. W * WordsOf(prog)[k] <= Len(printed)
      <4>1. PICK e \in Nat, n \in Nat : e = WordsOf(prog)[k] /\ n = Words /\ e <= n
        <5>1. WordsOf(prog)[k] <= a + x /\ a + x \in Nat
          BY <1>2, <3>5, <3>6
        <5>2. QED BY <2>3, <3>5, <5>1
      <4>2. W * e <= W * n
        BY <4>1, Times
      <4>3. QED BY <1>4, <4>1, <4>2
    <3>8. Result(prog, k, results[p][k], printed)
      BY <1>4, <3>1 DEF Repro, ResultsKnown
    <3>9. PICK r : r = results[p][k]
      OBVIOUS
    <3>10. QED BY <1>2, <1>4, <2>5, <3>4, <3>7, <3>8, <3>9, ResultKept
  <2>8. RowsText'
    <3>1. SUFFICES ASSUME NEW y \in Uninit(prog[c])
                   PROVE  RowFrom(rows[y], printed \o d, W * RowAt(prog, c, y), Done(y)')
      BY <1>1, <1>4, <2>2 DEF RowsText
    <3>2. y \in Nat
      BY <1>2, <3>1 DEF Uninit
    <3>3. CASE y = i
      <4>1. Done(y)' = W * x + W
        BY <1>3, <3>2, <3>3
      <4>2. QED BY <2>3, <2>4, <2>5, <3>3, <4>1
    <3>4. CASE y < i
      <4>1. PICK b \in Nat, w \in Nat :
              b = RowAt(prog, c, y) /\ w = Width(prog[c]) /\ b + w <= a
        <5>1. IsGraph(prog[c])
          BY <1>2, ProgramFacts
        <5>2. RowAt(prog, c, y) \in Nat /\ Width(prog[c]) \in Nat
              /\ RowAt(prog, c, y) + Width(prog[c]) <= RowAt(prog, c, i)
          BY <1>2, <3>1, <3>2, <3>4, <5>1, RowFacts, WidthFacts
        <5>3. QED BY <2>3, <5>2
      <4>2. PICK h \in Nat, v \in Nat : h = W * b /\ v = W * w
        BY Times
      <4>3. h + v <= Len(printed)
        <5>1. W * (b + w) = W * b + W * w
          BY Times
        <5>2. W * (b + w) <= W * a
          <6>1. PICK f \in Nat : f = b + w /\ f <= a
            BY <4>1
          <6>2. QED BY <6>1, Times
        <5>3. W * x \in Nat
          BY <1>2, Times
        <5>4. QED BY <1>4, <2>4, <4>2, <5>1, <5>2, <5>3, SMTT(30)
      <4>4. Done(y) = v /\ Done(y)' = v
        BY <1>2, <1>3, <3>2, <3>4, <4>1, <4>2
      <4>5. PICK row : row = rows[y]
        OBVIOUS
      <4>6. RowFrom(row, printed, h, v)
        BY <1>1, <1>4, <3>1, <4>1, <4>2, <4>4, <4>5 DEF Repro, RowsText
      <4>7. RowFrom(row, printed \o d, h, v)
        BY <1>4, <2>5, <4>3, <4>6, RowKeptByText
      <4>8. QED BY <4>1, <4>2, <4>4, <4>5, <4>7
    <3>5. CASE y > i
      <4>1. Done(y)' = 0
        BY <1>2, <1>3, <3>2, <3>5
      <4>2. QED BY <4>1 DEF RowFrom
    <3>6. QED BY <1>2, <3>2, <3>3, <3>4, <3>5
  <2>9. QED BY <1>5, <2>6, <2>7, <2>8 DEF Repro
<1>8. QED BY <1>6, <1>7

\* What a step keeps that reads and writes no text.
LEMMA SamePlaces ==
  ASSUME Repro, UNCHANGED <<process, chk, env, hack, prog, c, printed, results>>
  PROVE  /\ ResultsTyped' /\ ResultsKnown' /\ Source' = Source /\ (Known' <=> Known)
         /\ Words' = Words => TextPlace' /\ ReportPlace'
<1>1. (Known' <=> Known) /\ (Covers(env)' <=> Covers(env)) /\ GarbageWords' = GarbageWords
      /\ Source' = Source
  BY SameText DEF Source
<1>2. ResultsTyped'
  BY DEF Repro, ResultsTyped
<1>3. ResultsKnown'
  BY <1>1 DEF Repro, ResultsKnown
<1>4. ASSUME Words' = Words PROVE TextPlace'
  BY <1>1, <1>4 DEF Repro, TextPlace
<1>5. ASSUME Words' = Words PROVE ReportPlace'
  BY <1>5 DEF Repro, ReportPlace
<1>6. QED BY <1>1, <1>2, <1>3, <1>4, <1>5

\* A call begins.
LEMMA CallStep ==
  ASSUME TypeOK, Repro, Call
  PROVE  Repro'
<1>1. /\ pc = "call" /\ pc' \in {"report", "restore"} /\ (pc' = "restore" <=> hack.set)
      /\ c <= Len(prog) /\ i' = 0 /\ x' = 0
      /\ UNCHANGED <<process, chk, env, hack, prog, c, printed, results>>
  BY DEF Call
<1>2. prog \in Programs /\ c \in DOMAIN prog
  <2>1. prog \in Programs /\ c \in 1..(Len(prog) + 1)
    BY DEF TypeOK
  <2>2. QED BY <1>1, <2>1, ProgramFacts
<1>3. Words' = Words
  <2>1. Words = WordsOf(prog)[c - 1] /\ Words' = WordAt(prog, c, 0, 0)
    BY <1>1 DEF Words
  <2>2. QED BY <1>2, <2>1, WordEnds
<1>4. TextPlace' /\ ReportPlace' /\ ResultsTyped' /\ ResultsKnown'
  BY <1>1, <1>3, SamePlaces
<1>5. Modes'
  <2>1. hack.set \in BOOLEAN
    BY DEF TypeOK
  <2>2. QED BY <1>1, <2>1 DEF Repro, Modes
<1>6. RowsStart'
  <2>1. /\ graph = prog[c] /\ Blocks = 0..(prog[c].n - 1) /\ Bits = RowBits(prog[c])
    BY GraphNames
  <2>2. /\ prog[c].entry \in 0..(prog[c].n - 1) /\ prog[c].entry \notin prog[c].listed
        /\ prog[c].listed \subseteq 0..(prog[c].n - 1)
    BY <1>2, ProgramFacts DEF IsGraph
  <2>3. StartIn(prog[c], rows')
    BY <2>1, <2>2 DEF Call, StartIn
  <2>4. QED BY <1>1, <2>3 DEF RowsStart
<1>7. RowsText'
  <2>1. SUFFICES ASSUME NEW y \in Uninit(prog[c])
                 PROVE  Done(y)' = 0
    BY <1>1 DEF RowsText, RowFrom
  <2>2. y \in Nat
    BY <1>2, ProgramFacts DEF Uninit
  <2>3. W * 0 = 0
    BY DominatorsAssumption
  <2>4. QED BY <1>1, <2>2, <2>3 DEF Done
<1>8. QED BY <1>4, <1>5, <1>6, <1>7 DEF Repro

\* The rows nothing initialises are restored or reported, or nobody asked.
LEMMA StartStep ==
  ASSUME TypeOK, Repro, StartVisits
  PROVE  Repro'
<1>1. /\ pc \in {"report", "restore"} /\ pc' = "visit" /\ InCall /\ InCall'
      /\ UNCHANGED <<process, chk, env, hack, prog, c, rows, printed, results>>
  BY DEF StartVisits, InCall
<1>2. /\ prog \in Programs /\ c \in DOMAIN prog
      /\ i \in 0..prog[c].n /\ prog[c].n \in Nat /\ graph = prog[c]
  BY <1>1, CallFacts, GraphNames
<1>3. ResultsTyped' /\ ResultsKnown' /\ Source' = Source /\ (Known' <=> Known)
      /\ (Words' = Words => TextPlace' /\ ReportPlace')
  BY <1>1, SamePlaces
<1>4. Modes'
  BY <1>1 DEF Repro, Modes
<1>5. RowsStart'
  BY <1>1 DEF Repro, RowsStart
<1>6. ASSUME NEW y PROVE Done(y)' = W * Width(prog[c])
  BY <1>1 DEF Done
<1>7. CASE i >= graph.n
  <2>1. Words' = Words
    <3>1. Words = WordAt(prog, c, prog[c].n, x) /\ Words' = WordsOf(prog)[c]
      BY <1>1, <1>2, <1>7 DEF Words
    <3>2. QED BY <1>2, <3>1, WordEnds
  <2>2. RowsText'
    <3>1. SUFFICES ASSUME Known, NEW y \in Uninit(prog[c])
                   PROVE  RowFrom(rows[y], Source, W * RowAt(prog, c, y), W * Width(prog[c]))
      BY <1>1, <1>3, <1>6 DEF RowsText
    <3>2. y < i
      BY <1>2, <1>7 DEF Uninit
    <3>3. Done(y) = W * Width(prog[c])
      BY <3>2 DEF Done
    <3>4. QED BY <1>1, <3>1, <3>3 DEF Repro, RowsText
  <2>3. QED BY <1>3, <1>4, <1>5, <2>1, <2>2 DEF Repro
<1>8. CASE ~(i >= graph.n)
  <2>1. ~chk /\ ~env.set
    BY <1>8 DEF StartVisits, Repro, Modes
  <2>2. TextPlace' /\ ReportPlace'
    BY <1>1, <2>1 DEF TextPlace, ReportPlace
  <2>3. RowsText'
    <3>1. SUFFICES ASSUME Known, NEW y \in Uninit(prog[c])
                   PROVE  FALSE
      BY <1>1, <1>3 DEF RowsText
    <3>2. GarbageWords = 0
      BY <2>1, <3>1 DEF Known, Covers
    <3>3. QED BY <1>2, <3>1, <3>2, NoneUninit
  <2>4. QED BY <1>3, <1>4, <1>5, <2>2, <2>3 DEF Repro
<1>9. QED BY <1>7, <1>8

\* The loop visits listed blocks only.
LEMMA LoopStep ==
  ASSUME TypeOK, Repro, Visit \/ NextPass \/ LastPass
  PROVE  Repro'
<1>1. /\ pc = "visit" /\ pc' \in {"visit", "fixed"} /\ InCall /\ InCall'
      /\ UNCHANGED <<process, chk, env, hack, prog, c, printed, results>>
  BY DEF Visit, NextPass, LastPass, InCall
<1>2. ResultsTyped' /\ ResultsKnown' /\ Source' = Source /\ (Known' <=> Known)
      /\ TextPlace' /\ ReportPlace'
  <2>1. Words' = Words
    BY <1>1 DEF Words
  <2>2. QED BY <1>1, <2>1, SamePlaces
<1>3. Modes'
  BY <1>1 DEF Repro, Modes
<1>4. /\ IsGraph(prog[c]) /\ rows \in [0..(prog[c].n - 1) -> SUBSET RowBits(prog[c])]
      /\ Visited = VisitedIn(prog[c]) /\ graph = prog[c]
  BY <1>1, CallFacts, GraphNames
<1>5. VisitedIn(prog[c]) \subseteq prog[c].listed /\ prog[c].entry \notin prog[c].listed
  BY <1>4 DEF IsGraph, VisitedIn
<1>6. \A y \in 0..(prog[c].n - 1) : y \notin VisitedIn(prog[c]) => rows'[y] = rows[y]
  BY <1>4 DEF Visit, NextPass, LastPass
<1>7. RowsStart'
  <2>1. prog[c].entry \in 0..(prog[c].n - 1) /\ prog[c].listed \subseteq 0..(prog[c].n - 1)
    BY <1>4 DEF IsGraph
  <2>2. StartIn(prog[c], rows)
    BY <1>1 DEF Repro, RowsStart
  <2>3. StartIn(prog[c], rows')
    BY <1>5, <1>6, <2>1, <2>2 DEF StartIn
  <2>4. QED BY <1>1, <2>3 DEF RowsStart
<1>8. RowsText'
  <2>1. SUFFICES ASSUME Known, NEW y \in Uninit(prog[c])
                 PROVE  RowFrom(rows'[y], Source, W * RowAt(prog, c, y), Done(y)')
    BY <1>1, <1>2 DEF RowsText
  <2>2. rows'[y] = rows[y]
    BY <1>5, <1>6, <2>1 DEF Uninit
  <2>3. Done(y)' = Done(y)
    BY <1>1 DEF Done
  <2>4. QED BY <1>1, <2>1, <2>2, <2>3 DEF Repro, RowsText
<1>9. QED BY <1>2, <1>3, <1>7, <1>8 DEF Repro

\* A call returns with its result.
LEMMA ReturnStep ==
  ASSUME TypeOK, Repro, LargestSolution, Return
  PROVE  Repro'
<1>1. /\ pc = "fixed" /\ pc' = "call" /\ InCall /\ ~InCall' /\ c' = c + 1
      /\ UNCHANGED <<process, chk, env, hack, prog, rows, printed>>
      /\ results' = [results EXCEPT ![process] = Append(@, rows)]
  BY DEF Return, InCall
<1>2. /\ prog \in Programs /\ c \in DOMAIN prog /\ c \in 1..Len(prog) /\ Len(prog) \in Nat
      /\ prog[c].n \in Nat
      /\ rows \in [0..(prog[c].n - 1) -> SUBSET RowBits(prog[c])]
  BY <1>1, CallFacts, ProgramFacts
<1>3. (Known' <=> Known) /\ (Covers(env)' <=> Covers(env)) /\ GarbageWords' = GarbageWords
      /\ Source' = Source
  BY <1>1, SameText DEF Source
<1>4. Words' = Words
  <2>1. Words = WordsOf(prog)[c] /\ Words' = WordsOf(prog)[c' - 1]
    BY <1>1 DEF Words
  <2>2. c' - 1 = c
    BY <1>1, <1>2
  <2>3. QED BY <2>1, <2>2
<1>5. Modes' /\ TextPlace' /\ ReportPlace' /\ RowsStart' /\ RowsText'
  <2>1. Modes'
    BY <1>1 DEF Repro, Modes
  <2>2. TextPlace'
    BY <1>1, <1>3, <1>4 DEF Repro, TextPlace
  <2>3. ReportPlace'
    BY <1>1, <1>4 DEF Repro, ReportPlace
  <2>4. RowsStart' /\ RowsText'
    BY <1>1 DEF RowsStart, RowsText
  <2>5. QED BY <2>1, <2>2, <2>3, <2>4
<1>6. rows \in AnyRows
  <2>1. RowBits(prog[c]) \subseteq Nat
    BY DEF RowBits
  <2>2. rows \in [0..(prog[c].n - 1) -> SUBSET Nat]
    BY <1>2, <2>1
  <2>3. QED BY <1>2, <2>2 DEF AnyRows
<1>7. /\ results \in [1..2 -> Seq(AnyRows)] /\ process \in 1..2
      /\ Len(results[1]) = IF process = 1 THEN c - 1 ELSE Len(prog)
      /\ Len(results[2]) = IF process = 1 THEN 0 ELSE c - 1
  BY DEF TypeOK, Repro, ResultsTyped
<1>8. PICK old \in Seq(AnyRows) : old = results[process] /\ Len(old) = c - 1
  BY <1>7
<1>9. PICK new \in Seq(AnyRows) : new = Append(old, rows)
  <2>1. Append(old, rows) \in Seq(AnyRows)
    BY <1>6, AppendProperties
  <2>2. QED BY <2>1
<1>10. /\ Len(new) = c /\ new[c] = rows
       /\ \A k \in 1..(c - 1) : new[k] = old[k]
  <2>1. /\ Len(new) = Len(old) + 1 /\ new[Len(old) + 1] = rows
        /\ \A k \in 1..Len(old) : new[k] = old[k]
    BY <1>6, <1>9, AppendProperties
  <2>2. Len(old) + 1 = c
    BY <1>2, <1>8
  <2>3. QED BY <1>8, <2>1, <2>2
<1>11. /\ results' \in [1..2 -> Seq(AnyRows)] /\ results'[process] = new
       /\ \A p \in 1..2 : p # process => results'[p] = results[p]
  BY <1>1, <1>7, <1>8, <1>9
<1>12. ResultsTyped'
  <2>1. c' - 1 = c
    BY <1>1, <1>2
  <2>2. CASE process = 1
    BY <1>1, <1>7, <1>10, <1>11, <2>1, <2>2 DEF ResultsTyped
  <2>3. CASE process = 2
    BY <1>1, <1>7, <1>10, <1>11, <2>1, <2>3 DEF ResultsTyped
  <2>4. QED BY <1>7, <2>2, <2>3
<1>13. ResultsKnown'
  <2>1. SUFFICES ASSUME Known, NEW p \in 1..2, NEW k \in 1..Len(results'[p])
                 PROVE  Result(prog, k, results'[p][k], Source)
    BY <1>1, <1>3 DEF ResultsKnown
  <2>2. CASE p # process
    BY <1>11, <2>1, <2>2 DEF Repro, ResultsKnown
  <2>3. CASE p = process /\ k # c
    <3>1. k \in 1..(c - 1) /\ k \in 1..Len(results[p])
      BY <1>2, <1>8, <1>10, <1>11, <2>1, <2>3
    <3>2. results'[p][k] = results[p][k]
      BY <1>8, <1>10, <1>11, <2>3, <3>1
    <3>3. QED BY <2>1, <3>1, <3>2 DEF Repro, ResultsKnown
  <2>4. CASE p = process /\ k = c
    <3>1. LargestIn(prog[c], rows)
      <4>1. /\ Bits = RowBits(prog[c]) /\ Blocks = 0..(prog[c].n - 1)
            /\ \A b : Holders(b) = HoldersIn(prog[c], rows, b)
            /\ \A S, b : Closed(S, b) <=> ClosedIn(prog[c], rows, S, b)
        BY GraphNames
      <4>2. \A b \in Bits : /\ Closed(Holders(b), b)
                            /\ \A S \in SUBSET Blocks : Closed(S, b) => S \subseteq Holders(b)
        BY <1>1 DEF LargestSolution
      <4>3. QED BY <4>1, <4>2 DEF LargestIn
    <3>2. StartIn(prog[c], rows)
      BY <1>1 DEF Repro, RowsStart
    <3>3. FromText(prog, c, rows, Source)
      <4>1. \A y : Done(y) = W * Width(prog[c])
        BY <1>1 DEF Done
      <4>2. QED BY <1>1, <2>1, <4>1 DEF Repro, RowsText, FromText
    <3>4. Result(prog, c, rows, Source)
      BY <1>2, <3>1, <3>2, <3>3 DEF Result
    <3>5. QED BY <1>10, <1>11, <2>4, <3>4
  <2>5. QED BY <2>2, <2>3, <2>4
<1>14. QED BY <1>5, <1>12, <1>13 DEF Repro

\* The second process begins; when the first reported, with the report.
LEMMA RerunStep ==
  ASSUME TypeOK, Repro, Rerun
  PROVE  Repro'
<1>1. /\ pc = "call" /\ pc' = pc /\ ~InCall' /\ process = 1 /\ process' = 2
      /\ c > Len(prog) /\ c' = 1 /\ hack' = env'
      /\ UNCHANGED <<chk, prog, printed, results>>
      /\ env' = IF ~env.set /\ chk THEN Set(printed) ELSE env
  BY DEF Rerun, InCall
<1>2. /\ prog \in Programs /\ Len(prog) \in Nat /\ c = Len(prog) + 1
      /\ env \in [set : BOOLEAN, text : Seq(Char)] /\ printed \in Seq({"0", "1"})
  BY <1>1, ProgramFacts DEF TypeOK
<1>3. GarbageWords' = GarbageWords
  BY <1>1 DEF GarbageWords
<1>4. Source' = Source /\ (env'.set <=> env.set \/ chk)
  <2>1. CASE ~env.set /\ chk
    BY <1>1, <2>1 DEF Source, Set
  <2>2. CASE ~(~env.set /\ chk)
    BY <1>1, <1>2, <2>2 DEF Source
  <2>3. QED BY <2>1, <2>2
<1>5. Known' => Known
  <2>1. CASE ~env.set /\ chk
    BY <2>1 DEF Known
  <2>2. CASE ~(~env.set /\ chk)
    <3>1. env' = env /\ chk' = chk
      BY <1>1, <2>2
    <3>2. QED BY <1>1, <3>1, SameText
  <2>3. QED BY <2>1, <2>2
<1>6. Modes'
  <2>1. pc' = "call"
    BY <1>1
  <2>2. chk => env'.set
    BY <1>4
  <2>3. QED BY <1>1, <2>1, <2>2 DEF Modes
<1>7. TextPlace'
  <2>1. env' \in [set : BOOLEAN, text : Seq(Char)]
    <3>1. printed \in Seq(Char)
      <4>1. Seq({"0", "1"}) \subseteq Seq(Char)
        BY DEF Char
      <4>2. QED BY <1>2, <4>1
    <3>2. QED BY <1>1, <1>2, <3>1 DEF Set
  <2>2. PICK s \in Seq(Char) : s = env'.text
    BY <2>1
  <2>3. hack'.text = SubSeq(s, 0 + 1, Len(s)) /\ 0 \in 0..Len(s)
    <3>1. SubSeq(s, 1, Len(s)) = s
      OBVIOUS
    <3>2. QED BY <1>1, <2>2, <3>1
  <2>4. Words' = 0 /\ Rank(s, 0) = W * 0
    <3>1. Words' = WordsOf(prog)[0]
      BY <1>1 DEF Words
    <3>2. W * 0 = 0 /\ Rank(s, 0) = 0
      BY DominatorsAssumption, RankFacts
    <3>3. QED BY <1>2, <3>1, <3>2, WordsFacts
  <2>5. QED BY <2>2, <2>3, <2>4 DEF TextPlace
<1>8. ReportPlace'
  BY <1>1, <1>4 DEF ReportPlace
<1>9. RowsStart' /\ RowsText'
  BY <1>1 DEF RowsStart, RowsText
<1>10. ResultsTyped'
  BY <1>1, <1>2 DEF Repro, ResultsTyped
<1>11. ResultsKnown'
  BY <1>1, <1>4, <1>5 DEF Repro, ResultsKnown
<1>12. QED BY <1>6, <1>7, <1>8, <1>9, <1>10, <1>11 DEF Repro

\* Every step of a process keeps the place in the text.
LEMMA ReproStep == Inv /\ LargestSolution /\ Repro /\ [Next]_vars => Repro'
<1> SUFFICES ASSUME Inv, LargestSolution, Repro, [Next]_vars PROVE Repro'
  OBVIOUS
<1>1. TypeOK
  BY DEF Inv
<1>2. CASE Call
  BY <1>1, <1>2, CallStep
<1>3. CASE ReportWord
  BY <1>1, <1>3, ReportStep
<1>4. CASE RestoreWord
  BY <1>1, <1>4, RestoreStep
<1>5. CASE StartVisits
  BY <1>1, <1>5, StartStep
<1>6. CASE Visit \/ NextPass \/ LastPass
  BY <1>1, <1>6, LoopStep
<1>7. CASE Return
  BY <1>1, <1>7, ReturnStep
<1>8. CASE Rerun
  BY <1>1, <1>8, RerunStep
<1>9. CASE Exit \/ UNCHANGED vars
  <2>1. UNCHANGED <<process, chk, env, hack, prog, c, i, x, rows, printed, results>>
    BY <1>9 DEF Exit, vars
  <2>2. \/ pc' = pc
        \/ pc = "call" /\ pc' = "done" /\ process = 2 /\ c > Len(prog)
    BY <1>9 DEF Exit, vars
  <2>3. Words' = Words /\ InCall' = InCall
    BY <2>1, <2>2 DEF Words, InCall
  <2>4. /\ TextPlace' /\ ReportPlace' /\ ResultsTyped' /\ ResultsKnown'
        /\ Source' = Source /\ (Known' <=> Known)
    BY <2>1, <2>3, SamePlaces
  <2>5. Modes'
    <3>1. c \in 1..(Len(prog) + 1) /\ Len(prog) \in Nat
      BY <1>1, ProgramFacts DEF TypeOK
    <3>2. QED BY <2>1, <2>2, <3>1 DEF Repro, Modes
  <2>6. RowsStart'
    BY <2>1, <2>3 DEF Repro, RowsStart
  <2>7. RowsText'
    <3>1. InCall => \A y : Done(y)' = Done(y)
      BY <2>1, <2>2 DEF Done, InCall
    <3>2. QED BY <2>1, <2>3, <2>4, <3>1 DEF Repro, RowsText
  <2>8. QED BY <2>4, <2>5, <2>6, <2>7 DEF Repro
<1>10. QED BY <1>2, <1>3, <1>4, <1>5, <1>6, <1>7, <1>8, <1>9 DEF Next

\* In the beginning no word has been read or written.
LEMMA ReproInit == Init => Repro
<1> SUFFICES ASSUME Init PROVE Repro
  OBVIOUS
<1>1. /\ pc = "call" /\ process = 1 /\ ~InCall /\ c = 1 /\ hack = env /\ prog \in Programs
      /\ printed = <<>> /\ results = [p \in 1..2 |-> <<>>]
      /\ (~env.set \/ env.text \in Seq(Char))
  <2>1. ~env.set \/ env.text \in Seq(Char)
    BY DominatorsAssumption DEF Init, Unset, Set
  <2>2. QED BY <2>1 DEF Init, InCall
<1>2. Words = 0 /\ W * 0 = 0
  <2>1. Words = WordsOf(prog)[0]
    BY <1>1 DEF Words
  <2>2. QED BY <1>1, <2>1, WordsFacts, DominatorsAssumption
<1>3. TextPlace
  <2>1. ASSUME env.set
        PROVE  \E q \in 0..Len(env.text) : /\ hack.text = SubSeq(env.text, q + 1, Len(env.text))
                                           /\ Rank(env.text, q) = W * Words
    <3>1. PICK s \in Seq(Char) : s = env.text
      BY <1>1, <2>1
    <3>2. SubSeq(s, 0 + 1, Len(s)) = s /\ 0 \in 0..Len(s)
      OBVIOUS
    <3>3. Rank(s, 0) = 0
      BY RankFacts
    <3>4. QED BY <1>1, <1>2, <3>1, <3>2, <3>3
  <2>2. QED BY <2>1 DEF TextPlace
<1>4. Modes
  BY <1>1 DEF Modes
<1>5. ReportPlace
  BY <1>1, <1>2 DEF ReportPlace
<1>6. RowsStart /\ RowsText
  BY <1>1 DEF RowsStart, RowsText
<1>7. ResultsTyped
  <2>1. <<>> \in Seq(AnyRows) /\ Len(<<>>) = 0
    BY EmptySeq
  <2>2. QED BY <1>1, <2>1 DEF ResultsTyped
<1>8. ResultsKnown
  <2>1. \A p \in 1..2 : 1..Len(results[p]) = {}
    BY <1>1
  <2>2. QED BY <2>1 DEF ResultsKnown
<1>9. QED BY <1>3, <1>4, <1>5, <1>6, <1>7, <1>8 DEF Repro

-----------------------------------------------------------------------------
(* The theorems.                                                           *)

\* Every state of the two processes satisfies the invariant.
THEOREM Invariance == Spec => []Inv
<1>1. Init => Inv
  <2>1. Unset \in [set : BOOLEAN, text : Seq(Char)]
    BY EmptySeq DEF Unset
  <2>2. \A s \in Hacks : Set(s) \in [set : BOOLEAN, text : Seq(Char)]
    BY DominatorsAssumption DEF Set
  <2>3. ASSUME Init PROVE TypeOK
    <3>1. Len(prog) \in Nat
      BY <2>3, DominatorsAssumption DEF Init
    <3>2. printed \in Seq({"0", "1"})
      BY <2>3, EmptySeq DEF Init
    <3>3. env \in [set : BOOLEAN, text : Seq(Char)] /\ hack = env
      BY <2>1, <2>2, <2>3 DEF Init
    <3>4. c \in 1..(Len(prog) + 1)
      BY <2>3, <3>1 DEF Init
    <3>5. /\ pc = "call" /\ process = 1 /\ chk \in BOOLEAN /\ prog \in Programs
          /\ cont \in BOOLEAN
      BY <2>3 DEF Init
    <3>6. QED BY <3>2, <3>3, <3>4, <3>5 DEF TypeOK
  <2>4. QED BY <2>3 DEF Init, Inv
<1>2. QED BY <1>1, Step, PTL DEF Spec

\* The types of the state of FUN_00505340 and of the texts it reads and writes.
THEOREM TypeCorrect == Spec => []TypeOK
<1>1. Inv => TypeOK
  BY DEF Inv
<1>2. QED BY <1>1, Invariance, PTL

\* FUN_00505340: for every flow graph, every order of the visits and whatever
\* malloc returns, the rows the loop ends with are the largest solution.
THEOREM LargestReached == Spec => []LargestSolution
<1>1. Inv => LargestSolution
  <2>1. SUFFICES ASSUME Inv, pc = "fixed", NEW b \in Bits
                 PROVE  /\ Closed(Holders(b), b)
                        /\ \A S \in SUBSET Blocks : Closed(S, b) => S \subseteq Holders(b)
    BY DEF LargestSolution
  <2>2. graph.preds \in [Blocks -> SUBSET Blocks] /\ Visited \subseteq Blocks
    BY <2>1, GraphFacts DEF Inv, TypeOK
  <2>3. ASSUME NEW y \in Holders(b), y \in Visited
        PROVE  y = b \/ graph.preds[y] \subseteq Holders(b)
    <3>1. b \in NewRow(y)
      BY <2>1, <2>3 DEF Inv, Solved, Holders
    <3>2. QED BY <2>2, <2>3, <3>1 DEF NewRow, Meet, Holders
  <2>4. Closed(Holders(b), b)
    BY <2>3 DEF Closed, Holders
  <2>5. QED BY <2>1, <2>4 DEF Inv, Above
<1>2. QED BY <1>1, Invariance, PTL

\* FUN_00505340: whatever the rows start with, no visit puts a bit into a row.
THEOREM Shrinking == Spec => RowsShrink
<1>1. Inv /\ Inv' /\ [Next]_vars
        => [pc = "visit" => \A y \in Blocks : rows'[y] \subseteq rows[y]]_vars
  <2>1. SUFFICES ASSUME Inv, [Next]_vars, pc = "visit", NEW y \in Blocks
                 PROVE  rows'[y] \subseteq rows[y]
    OBVIOUS
  <2>2. CASE Visit
    <3>1. PICK z : z = graph.order[i]
      OBVIOUS
    <3>2. CASE z \in Visited
      <4>1. rows' = [rows EXCEPT ![z] = NewRow(z)] /\ UNCHANGED <<prog, c>>
        BY <2>2, <3>1, <3>2 DEF Visit
      <4>2. QED BY <2>1, <3>2, <4>1, VisitRows DEF Inv
    <3>3. CASE z \notin Visited
      BY <2>2, <3>1, <3>3 DEF Visit
    <3>4. QED BY <3>2, <3>3
  <2>3. CASE ~Visit
    <3>1. rows' = rows
      BY <2>1, <2>3 DEF Next, Call, ReportWord, RestoreWord, StartVisits, NextPass,
                        LastPass, Return, Rerun, Exit, vars
    <3>2. QED BY <3>1
  <2>4. QED BY <2>2, <2>3
<1>2. QED BY <1>1, Invariance, PTL DEF Spec, RowsShrink

\* SKREW_HACK01: with a text that has digits for every word, both processes get
\* the same rows in every call, for every program, every order of the visits
\* and whatever malloc returns, and the report of a process is such a text.
THEOREM ProcessesAgree == Spec => []Reproduced
<1>1. Inv /\ Repro => Reproduced
  <2>1. SUFFICES ASSUME Inv, Repro PROVE Reproduced
    OBVIOUS
  <2>2. prog \in Programs /\ Len(prog) \in Nat /\ DOMAIN prog = 1..Len(prog)
        /\ c \in 1..(Len(prog) + 1) /\ printed \in Seq({"0", "1"})
    BY <2>1, ProgramFacts DEF Inv, TypeOK
  <2>3. ASSUME pc = "done", Covers(env) PROVE results[1] = results[2]
    <3>1. PICK r1 \in Seq(AnyRows), r2 \in Seq(AnyRows) :
            /\ r1 = results[1] /\ r2 = results[2]
            /\ Len(r1) = Len(prog) /\ Len(r2) = Len(prog)
      <4>1. process = 2 /\ c - 1 = Len(prog)
        BY <2>1, <2>2, <2>3 DEF Repro, Modes
      <4>2. QED BY <2>1, <4>1 DEF Repro, ResultsTyped
    <3>2. ASSUME NEW k \in 1..Len(prog) PROVE r1[k] = r2[k]
      <4>1. Result(prog, k, r1[k], Source) /\ Result(prog, k, r2[k], Source)
        BY <2>1, <2>3, <3>1, <3>2 DEF Repro, ResultsKnown, Known
      <4>2. PICK s, u, v : s = Source /\ u = r1[k] /\ v = r2[k]
        OBVIOUS
      <4>3. QED BY <2>2, <4>1, <4>2, OneResult
    <3>3. QED BY <3>1, <3>2, SeqEqual
  <2>4. ASSUME pc = "call", process = 1, c > Len(prog), chk, ~env.set
        PROVE  Covers(Set(printed))
    <3>1. PICK g \in Nat : g = GarbageWords
      <4>1. Len(prog) \in 0..Len(prog)
        BY <2>2
      <4>2. QED BY <2>2, <4>1, WordsFacts DEF GarbageWords
    <3>2. Words = g
      <4>1. c - 1 = Len(prog) /\ Words = WordsOf(prog)[c - 1]
        BY <2>2, <2>4 DEF Words
      <4>2. QED BY <3>1, <4>1 DEF GarbageWords
    <3>3. Len(printed) = W * g
      BY <2>1, <2>4, <3>2 DEF Repro, ReportPlace
    <3>4. Rank(printed, Len(printed)) = W * g
      <4>1. Len(printed) \in 0..Len(printed)
        BY <2>2
      <4>2. QED BY <2>2, <3>3, <4>1, RankOfDigits
    <3>5. CASE g = 0
      BY <3>1, <3>5 DEF Covers
    <3>6. CASE g # 0
      <4>1. PICK h \in Nat : h = g - 1 /\ g = h + 1
        <5>1. g - 1 \in Nat /\ g = (g - 1) + 1
          BY <3>6
        <5>2. QED BY <5>1
      <4>2. W * g = W * h + W /\ W * h \in Nat /\ W \in Nat \ {0}
        BY <4>1, Times, DominatorsAssumption
      <4>3. Rank(printed, Len(printed)) > W * (g - 1)
        BY <3>4, <4>1, <4>2
      <4>4. Set(printed).set /\ Set(printed).text = printed
        BY DEF Set
      <4>5. QED BY <3>1, <4>3, <4>4 DEF Covers
    <3>7. QED BY <3>5, <3>6
  <2>5. QED BY <2>3, <2>4 DEF Reproduced
<1>2. Spec => []LargestSolution
  BY LargestReached
<1>3. Spec => []Repro
  BY ReproInit, ReproStep, Invariance, <1>2, PTL DEF Spec
<1>4. QED BY <1>1, <1>3, Invariance, PTL

=============================================================================
