---------------------------- MODULE DepfileBuild ----------------------------
(***************************************************************************)
(* depfile_build: a rule of a makefile is put together in a string that    *)
(* grows in global memory (GlobalAlloc, GlobalReAlloc of dlls/kernel32.c). *)
(*                                                                         *)
(* A byte of the text is a piece of it: a name, a colon, a continuation    *)
(* (" \"), a line end.  What becomes of a header's path is in DepfilePath; *)
(* here it is one name, escaped or not.                                    *)
(***************************************************************************)
EXTENDS Naturals, Sequences, FiniteSets, SequencesExt

CONSTANTS
  Inputs,      \* what the compiler has: target, source, headers
  NoTarget,    \* the empty name that depfile_get_target leaves
  Spaced,      \* the names with a space
  Addresses    \* where blocks of memory can be

ASSUME BuildAssumption ==
  /\ IsFiniteSet(Addresses)
  /\ \A i \in Inputs : i.headers \in Seq({i.headers[k] : k \in DOMAIN i.headers})
  /\ NoTarget \notin Spaced

Name(n) == [kind |-> "name", name |-> n]
Colon   == [kind |-> "colon"]
Cont    == [kind |-> "cont"]
End     == [kind |-> "end"]
\* What GMEM_ZEROINIT stores.
Zero    == [kind |-> "zero"]

\* The conversions of a name: slashes for backslashes, relpath.
Unx(n) == <<"unx", n>>
Rel(n) == <<"rel", n>>

VARIABLES
  step,       \* "start", "target", "source", "headers", "done"; "exit" is
            \* exit(233), "crash" a null pointer, "overrun" a buffer run over
  in,
  target,   \* the buffer of that name, as left by the compiler or converted
  cur,      \* headers printed, cur_header
  heap,     \* struct alloc at each address, or NoBlock
  string    \* the mwstring

buildVars == <<step, in, target, cur, heap, string>>

NoBlock == [live |-> FALSE]
Unused  == {a \in Addresses : ~heap[a].live}

BuildInit ==
  /\ step = "start"
  /\ in \in Inputs
  /\ target = NoTarget
  /\ cur = 0
  /\ heap = [a \in Addresses |-> NoBlock]
  /\ string = [data |-> 0, size |-> 0]

-----------------------------------------------------------------------------
(* Global memory.                                                          *)

\* realloc keeps what was there; the rest is cleared from the old size on.
Cleared(b, n) == [k \in 1..n |-> IF k <= b.size THEN b.bytes[k] ELSE Zero]

Block(n, bytes) == [live |-> TRUE, size |-> n, bytes |-> bytes]

\* Mutant: the string is not told where its block has gone.
AppendStale(text) ==
  LET n == string.size + Len(text)
  IN  \E a \in Unused \cup {string.data} :
        /\ heap' = [heap EXCEPT ![string.data] = NoBlock,
                                ![a] = Block(n, Cleared(heap[string.data], n))]
        /\ string' = [string EXCEPT !.size = n]

\* string_append: the block grows, where it is or elsewhere, and its new end is
\* the text.
StringAppend(text) ==
  LET old == heap[string.data]
      n   == string.size + Len(text)
      new == Cleared(old, n)
  IN  \E a \in Unused \cup {string.data} :
        /\ heap' = [heap EXCEPT
             ![string.data] = NoBlock,
             ![a] = Block(n, [k \in 1..n |-> IF k > string.size THEN text[k - string.size]
                                             ELSE new[k]])]
        /\ string' = [data |-> a, size |-> n]

-----------------------------------------------------------------------------
\* string_alloc(0).
Begin ==
  /\ step = "start"
  /\ \E a \in Addresses :
       /\ heap' = [heap EXCEPT ![a] = Block(0, <<>>)]
       /\ string' = [data |-> a, size |-> 0]
  /\ target' = in.target
  /\ step' = "target"
  /\ UNCHANGED <<in, cur>>

More == IF Len(in.headers) > 0 THEN <<Cont>> ELSE <<>>

\* Without a target the source is the target, and the rule has no other.
SourceAlone ==
  /\ step = "target" /\ target = NoTarget /\ in.source \notin Spaced
  /\ target' = Unx(in.source)
  /\ StringAppend(<<Name(target'), Colon>> \o More \o <<End>>)
  /\ step' = "headers"
  /\ UNCHANGED <<in, cur>>

\* Mutant: the buffer has the source already.
TargetTextLate ==
  /\ step = "target" /\ target # NoTarget /\ target \notin Spaced
  /\ target' = Unx(in.source)
  /\ StringAppend(<<Name(target'), Colon>>)
  /\ step' = "source"
  /\ UNCHANGED <<in, cur>>

TargetText ==
  /\ step = "target" /\ target # NoTarget /\ target \notin Spaced
  /\ target' = Unx(target)
  /\ StringAppend(<<Name(target'), Colon>>)
  /\ step' = "source"
  /\ UNCHANGED <<in, cur>>

\* The buffer of the target is used for the source.
SourceText ==
  /\ step = "source" /\ in.source \notin Spaced
  /\ target' = Unx(in.source)
  /\ StringAppend(<<Name(target')>> \o More \o <<End>>)
  /\ step' = "headers"
  /\ UNCHANGED <<in, cur>>

\* Mutant: every header's line is continued.
LastContinued == <<Cont>>

\* A header's line is continued if another follows.
Continued == IF cur < Len(in.headers) - 1 THEN <<Cont>> ELSE <<>>

HeaderLine ==
  /\ step = "headers" /\ cur < Len(in.headers) /\ in.headers[cur + 1] \notin Spaced
  /\ StringAppend(<<Name(Rel(in.headers[cur + 1]))>> \o Continued \o <<End>>)
  /\ cur' = cur + 1
  /\ UNCHANGED <<step, in, target>>

EndHeaders ==
  /\ step = "headers" /\ cur >= Len(in.headers)
  /\ step' = "done"
  /\ UNCHANGED <<in, target, cur, heap, string>>

\* getcwd fails: "Out of memory", exit(233).
NoDirectory ==
  /\ step = "headers" /\ cur < Len(in.headers)
  /\ step' = "exit"
  /\ UNCHANGED <<in, target, cur, heap, string>>

\* malloc or realloc fails: GlobalAlloc and GlobalReAlloc use its result.
NullBlock ==
  /\ step \in {"start", "target", "source"} \/ (step = "headers" /\ cur < Len(in.headers))
  /\ step' = "crash"
  /\ UNCHANGED <<in, target, cur, heap, string>>

\* The name to be printed next.
NextName == CASE step = "target" -> IF target = NoTarget THEN in.source ELSE target
              [] step = "source" -> in.source
              [] step = "headers" /\ cur < Len(in.headers) -> in.headers[cur + 1]
              [] OTHER -> NoTarget

\* depfile_escape_spaces does not end.
NameOverrun ==
  /\ NextName \in Spaced
  /\ step' = "overrun"
  /\ UNCHANGED <<in, target, cur, heap, string>>

BuildNext == \/ Begin \/ SourceAlone \/ TargetText \/ SourceText \/ HeaderLine
             \/ EndHeaders \/ NoDirectory \/ NullBlock \/ NameOverrun

BuildSpec == BuildInit /\ [][BuildNext]_buildVars

-----------------------------------------------------------------------------
\* The one block there is is the string's, and as long as the string says.
BuildTypeOK ==
  /\ step \in {"start", "target", "source", "headers", "done", "exit", "crash", "overrun"}
  /\ cur \in 0..Len(in.headers)
  /\ step \notin {"start", "crash"} =>
       /\ {a \in Addresses : heap[a].live} = {string.data}
       /\ heap[string.data].size = string.size
       /\ DOMAIN heap[string.data].bytes = 1..string.size

Text == heap[string.data].bytes

\* How make reads it: a rule ends at the first line end without a continuation.
RuleEnds  == {k \in DOMAIN Text : Text[k] = End /\ (k = 1 \/ Text[k - 1] # Cont)}
Layout    == {"colon", "cont", "end"}
Shown(s)  == FlattenSeq([k \in DOMAIN s |-> IF s[k].kind \in Layout THEN <<>> ELSE <<s[k]>>])

\* The whole text is one rule: only its last line is not continued, whatever the
\* numbers of headers (depfile_build.c:272, 302, 342: three places decide it).  It is
\* for the target, or for the source where there is none, and names the source and
\* each header, once, in order; nothing of the memory the string grew into shows
\* (depfile_build.c:107-123, kernel32.c:557-572).
OneRule ==
  step = "done" =>
    /\ RuleEnds = {Len(Text)}
    /\ Shown(Text) = (IF in.target = NoTarget THEN <<>> ELSE <<Name(Unx(in.target))>>)
                    \o <<Name(Unx(in.source))>>
                    \o [k \in 1..Len(in.headers) |-> Name(Rel(in.headers[k]))]

=============================================================================
