----------------------------- MODULE Dominators -----------------------------
(***************************************************************************)
(* patch/FUN_00505340.c replaces a function of the compiler that computes  *)
(* a row of bits for every basic block: which blocks lie on every way to   *)
(* it.  The original reads rows it never initialised, those of blocks that *)
(* have a number and are no longer listed, so its output depends on what   *)
(* malloc returns.  The replacement keeps that, can report what it read    *)
(* there (SKREW_HACK_CHK) and can be told what to read (SKREW_HACK01).     *)
(*                                                                         *)
(* A process calls the function once for every function of the program it  *)
(* compiles.  A second process compiles the same program, with the same    *)
(* SKREW_HACK01, or, when the first had none and reported, with the report *)
(* as SKREW_HACK01.                                                        *)
(***************************************************************************)
EXTENDS Integers, Sequences, FiniteSets

CONSTANTS
  W,         \* bits of a word, 32 in the code; a digit of the text is one bit
  Programs,  \* the programs compiled: for each a sequence of flow graphs
  Hacks      \* the values of SKREW_HACK01 tried

NoBlock == -1            \* a null pointer in DAT_0063ccb0
Unset   == [set |-> FALSE, text |-> <<>>]    \* what getenv returns
Set(s)  == [set |-> TRUE, text |-> s]
Char == {"0", "1", "junk"}

\* DAT_0063a798; the unk_1c of DAT_0063a828 and of the blocks listed after it;
\* DAT_0063ccb0, which FUN_004f8b60 fills in; the blocks that edges come from.
IsGraph(g) ==
  /\ g.n \in Nat \ {0}
  /\ g.entry \in 0..(g.n - 1)
  /\ g.listed \subseteq (0..(g.n - 1)) \ {g.entry}
  /\ g.order \in [0..(g.n - 1) -> g.listed \cup {g.entry, NoBlock}]
  /\ g.preds \in [0..(g.n - 1) -> SUBSET (0..(g.n - 1))]
  \* an edge comes into every block that is visited
  /\ \A k \in 0..(g.n - 1) :
        g.order[k] \in g.listed => g.preds[g.order[k]] # {}

ASSUME DominatorsAssumption ==
  /\ W \in Nat \ {0}
  /\ \A p \in Programs : p \in Seq({p[k] : k \in DOMAIN p})
                         /\ \A k \in DOMAIN p : IsGraph(p[k])
  /\ Hacks \subseteq Seq(Char)

-----------------------------------------------------------------------------
VARIABLES
  pc,       \* "call": before a call, "report", "restore", "visit": in the
            \* loops of these names, "fixed": after the last, "done"
  process,  \* 1, and then 2
  chk,      \* hack_chk: SKREW_HACK_CHK is set
  env,      \* SKREW_HACK01
  hack,     \* hack_data: what is left of SKREW_HACK01
  prog,     \* the graphs of the program
  c,        \* the call
  i, x,     \* loop indices: a block or a place in the order, and a word
  rows,     \* DAT_0063ccf0
  cont,     \* a row changed in this pass
  printed,  \* the digits reported
  results   \* results[p]: the rows each call of process p returned with

vars == <<pc, process, chk, env, hack, prog, c, i, x, rows, cont, printed, results>>

graph   == prog[c]
Blocks  == 0..(graph.n - 1)
WordLenDown == graph.n \div W   \* mutant: no room for the last block's bit
WordLen == (graph.n + W - 1) \div W
Bits    == 0..(W * WordLen - 1)
Inited  == graph.listed \cup {graph.entry}
Visited == {graph.order[k] : k \in Blocks} \ {NoBlock, graph.entry}

\* The bits of word k of a row, the lowest first.
WordBit(k, z) == W * k + z
WordBits(k)   == {WordBit(k, z) : z \in 0..(W - 1)}

Init ==
  /\ pc = "call"
  /\ process = 1
  /\ chk \in BOOLEAN
  /\ env \in {Unset} \cup {Set(s) : s \in Hacks}
  /\ hack = env
  /\ prog \in Programs
  /\ c = 1
  /\ i = 0 /\ x = 0
  /\ rows = <<>>
  /\ cont = FALSE
  /\ printed = <<>>
  /\ results = [p \in 1..2 |-> <<>>]

\* Mutant: the rows of the listed blocks start empty.
CallEmpty ==
  /\ pc = "call" /\ c <= Len(prog)
  /\ \E garbage \in [Blocks \ Inited -> SUBSET Bits] :
        rows' = [y \in Blocks |-> IF y \in graph.listed THEN {}
                                  ELSE IF y = graph.entry THEN {0}
                                  ELSE garbage[y]]
  /\ i' = 0 /\ x' = 0
  /\ cont' = FALSE
  /\ pc' = IF hack.set THEN "restore" ELSE "report"
  /\ UNCHANGED <<process, chk, env, hack, prog, c, printed, results>>

\* malloc's memory, the entry's row and the rows of the listed blocks.
Call ==
  /\ pc = "call" /\ c <= Len(prog)
  /\ \E garbage \in [Blocks \ Inited -> SUBSET Bits] :
        rows' = [y \in Blocks |-> IF y \in graph.listed THEN Bits
                                  ELSE IF y = graph.entry THEN {0}
                                  ELSE garbage[y]]
  /\ i' = 0 /\ x' = 0
  /\ cont' = FALSE
  /\ pc' = IF hack.set THEN "restore" ELSE "report"
  /\ UNCHANGED <<process, chk, env, hack, prog, c, printed, results>>

\* The next word of the rows, row after row.
NextWord == IF x + 1 < WordLen THEN i' = i /\ x' = x + 1 ELSE i' = i + 1 /\ x' = 0

\* Mutant: the word as %08x prints it without the reversal.
DigitsUnreversed(row, k) == [z \in 1..W |-> IF WordBit(k, W - z) \in row THEN "1" ELSE "0"]

\* The bits of a word as %08x prints it after the reversal: lowest bit first.
Digits(row, k) == [z \in 1..W |-> IF WordBit(k, z - 1) \in row THEN "1" ELSE "0"]

ReportWord ==
  /\ pc = "report" /\ chk /\ i < graph.n
  /\ NextWord
  /\ printed' = IF i \in Inited THEN printed ELSE printed \o Digits(rows[i], x)
  /\ UNCHANGED <<pc, process, chk, env, hack, prog, c, rows, cont, results>>

\* Digits up to and with position k of a text, the digits that make the next
\* word, and where the reading of them stops.
Rank(s, k)  == Cardinality({j \in 1..k : s[j] # "junk"})
Taken(s)    == {k \in DOMAIN s : s[k] # "junk" /\ Rank(s, k) <= W}
Consumed(s) == IF \E k \in Taken(s) : Rank(s, k) = W
                 THEN CHOOSE k \in Taken(s) : Rank(s, k) = W
                 ELSE Len(s)

\* A word out of the text: the digits missing at its end are zeros, and
\* without any digit it stays what it was.
Restored(row, k, s) ==
  IF Taken(s) = {} THEN row
  ELSE (row \ WordBits(k)) \cup {WordBit(k, Rank(s, j) - 1) :
                                   j \in {j \in Taken(s) : s[j] = "1"}}

RestoreWord ==
  /\ pc = "restore" /\ i < graph.n
  /\ NextWord
  /\ IF i \in Inited
       THEN UNCHANGED <<rows, hack>>
       ELSE LET s == hack.text
            IN  /\ rows' = [rows EXCEPT ![i] = Restored(@, x, s)]
                /\ hack' = Set(SubSeq(s, Consumed(s) + 1, Len(s)))
  /\ UNCHANGED <<pc, process, chk, env, prog, c, cont, printed, results>>

StartVisits ==
  /\ \/ pc = "report" /\ (~chk \/ i >= graph.n)
     \/ pc = "restore" /\ i >= graph.n
  /\ pc' = "visit"
  /\ i' = 0 /\ x' = 0
  /\ UNCHANGED <<process, chk, env, hack, prog, c, rows, cont, printed, results>>

\* bitarr_cpy of the first row, bitarr_and of the others, and the own bit.
Meet(P)  == {b \in Bits : \A y \in P : b \in rows[y]}
NewRow(y) == Meet(graph.preds[y]) \cup {y}

\* Mutants of Visit: whether the last block changed instead of whether any did,
\* and a comparison before the block's own bit is set.
VisitLastOnly ==
  /\ pc = "visit" /\ i < graph.n
  /\ LET y == graph.order[i]
     IN  IF y \in Visited
           THEN /\ rows' = [rows EXCEPT ![y] = NewRow(y)]
                /\ cont' = (NewRow(y) # rows[y])
           ELSE UNCHANGED <<rows, cont>>
  /\ i' = i + 1
  /\ UNCHANGED <<pc, process, chk, env, hack, prog, c, x, printed, results>>
VisitEarlyCompare ==
  /\ pc = "visit" /\ i < graph.n
  /\ LET y == graph.order[i]
     IN  IF y \in Visited
           THEN /\ rows' = [rows EXCEPT ![y] = NewRow(y)]
                /\ cont' = (cont \/ Meet(graph.preds[y]) # rows[y])
           ELSE UNCHANGED <<rows, cont>>
  /\ i' = i + 1
  /\ UNCHANGED <<pc, process, chk, env, hack, prog, c, x, printed, results>>

\* One block of the order.
Visit ==
  /\ pc = "visit" /\ i < graph.n
  /\ LET y == graph.order[i]
     IN  IF y \in Visited
           THEN /\ rows' = [rows EXCEPT ![y] = NewRow(y)]
                /\ cont' = (cont \/ NewRow(y) # rows[y])
           ELSE UNCHANGED <<rows, cont>>
  /\ i' = i + 1
  /\ UNCHANGED <<pc, process, chk, env, hack, prog, c, x, printed, results>>

NextPass ==
  /\ pc = "visit" /\ i >= graph.n
  /\ cont
  /\ i' = 0
  /\ cont' = FALSE
  /\ UNCHANGED <<pc, process, chk, env, hack, prog, c, x, rows, printed, results>>

LastPass ==
  /\ pc = "visit" /\ i >= graph.n
  /\ ~cont
  /\ pc' = "fixed"
  /\ UNCHANGED <<process, chk, env, hack, prog, c, i, x, rows, cont, printed, results>>

\* The compiler takes the rows and compiles the next function.
Return ==
  /\ pc = "fixed"
  /\ results' = [results EXCEPT ![process] = Append(@, rows)]
  /\ c' = c + 1
  /\ pc' = "call"
  /\ UNCHANGED <<process, chk, env, hack, prog, i, x, rows, cont, printed>>

\* The second process: what was reported is passed, or the same text again.
Rerun ==
  /\ pc = "call" /\ c > Len(prog)
  /\ process = 1
  /\ process' = 2
  /\ c' = 1
  /\ env' = IF ~env.set /\ chk THEN Set(printed) ELSE env
  /\ hack' = env'
  /\ UNCHANGED <<pc, chk, prog, i, x, rows, cont, printed, results>>

Exit ==
  /\ pc = "call" /\ c > Len(prog)
  /\ process = 2
  /\ pc' = "done"
  /\ UNCHANGED <<process, chk, env, hack, prog, c, i, x, rows, cont, printed, results>>

Next == \/ Call \/ ReportWord \/ RestoreWord \/ StartVisits
        \/ Visit \/ NextPass \/ LastPass \/ Return
        \/ Rerun \/ Exit

Spec == Init /\ [][Next]_vars /\ WF_vars(Next)

-----------------------------------------------------------------------------
\* Types of the state.
TypeOK ==
  /\ pc \in {"call", "report", "restore", "visit", "fixed", "done"}
  /\ process \in 1..2 /\ chk \in BOOLEAN
  /\ env \in [set : BOOLEAN, text : Seq(Char)]
  /\ hack \in [set : BOOLEAN, text : Seq(Char)]
  /\ prog \in Programs
  /\ c \in 1..(Len(prog) + 1)
  /\ pc \in {"report", "restore", "visit", "fixed"} =>
       /\ c \in DOMAIN prog
       /\ i \in 0..graph.n
       /\ x \in 0..(WordLen - 1)
       /\ rows \in [Blocks -> SUBSET Bits]
  /\ cont \in BOOLEAN
  /\ printed \in Seq({"0", "1"})

\* The blocks whose row has bit b.  A set of blocks is closed for b when the bit
\* can be in all their rows: a row that no visit computes has it, and one that a
\* visit computes is b's own, or those of all its predecessors have it.
Holders(b) == {y \in Blocks : b \in rows[y]}

Closed(S, b) ==
  \A y \in S : IF y \in Visited THEN y = b \/ graph.preds[y] \subseteq S
                                ELSE b \in rows[y]

\* FUN_00505340, the loop until nothing changes: in whatever order the blocks
\* are visited, and whatever is in the rows never initialised, it ends with the
\* largest solution of the equations: a block has exactly the bits that are on
\* every way to it from the entry or from such a row.
LargestSolution ==
  pc = "fixed" => \A b \in Bits : /\ Closed(Holders(b), b)
                                  /\ \A S \in SUBSET Blocks :
                                       Closed(S, b) => S \subseteq Holders(b)

\* FUN_00505340: no pass of the loop puts a bit into a row, so the loop cannot
\* go back and forth between two results.
RowsShrink == [][pc = "visit" => \A y \in Blocks : rows'[y] \subseteq rows[y]]_vars

\* How many words of the rows of a graph nothing initialises, and of the rows of
\* the first graphs of a program.
GraphWords(g) == ((g.n + W - 1) \div W) * (g.n - Cardinality(g.listed \cup {g.entry}))
WordsOf(p) ==
  LET words[k \in 0..Len(p)] == IF k = 0 THEN 0 ELSE words[k - 1] + GraphWords(p[k])
  IN  words
GarbageWords == WordsOf(prog)[Len(prog)]

\* A text that has a digit for each of these words: only the last can be short.
Covers(e) == \/ GarbageWords = 0
             \/ e.set /\ Rank(e.text, Len(e.text)) > W * (GarbageWords - 1)

\* SKREW_HACK01: a text with digits for every word makes two processes compute
\* the same rows in every call, whatever malloc returns to them, and the report
\* of a process is such a text.
Reproduced ==
  /\ pc = "done" /\ Covers(env) => results[1] = results[2]
  /\ (pc = "call" /\ process = 1 /\ c > Len(prog) /\ chk /\ ~env.set)
       => Covers(Set(printed))

\* The loop until nothing changes ends, in every call.
Termination == <>(pc = "done")

=============================================================================
