------------------------------ MODULE WrapLine ------------------------------
(***************************************************************************)
(* win_argv_build of wrap/wrap.c: the arguments of a program become one    *)
(* line, which the C runtime of the program splits again.  The line is     *)
(* written character by character, and then read.                          *)
(*                                                                         *)
(* The reader is external: the runtime that the tools were linked with.    *)
(***************************************************************************)
EXTENDS Naturals, Sequences, SequencesExt

CONSTANTS
  Argvs,   \* lists of arguments, the path of the tool first
  Space,   \* a space or a tab, where the reader splits
  Line,    \* a line end, which is quoted too
  Quote,
  Slash    \* a backslash

\* The path of the tool is the name of a file, which has no quotes and does not end
\* with a separator.
ASSUME LineAssumption ==
  /\ Space \notin {Line, Quote, Slash} /\ Line \notin {Quote, Slash} /\ Quote # Slash
  /\ {Space, Line, Quote, Slash} \subseteq STRING \ {"end"}
  /\ \A argv \in Argvs :
       /\ argv \in Seq(Seq(STRING \ {"end"})) /\ argv # <<>> /\ argv[1] # <<>>
       /\ \A k \in DOMAIN argv[1] : argv[1][k] # Quote
       /\ argv[1][Len(argv[1])] # Slash

VARIABLES
  argv,
  arg,      \* the argument being written, by number
  pos,      \* characters of it written
  quoted,   \* it is written between quotes
  back,     \* backslashes: how many were the last characters of it
  line,     \* args[0 .. args_pos - 1]
  pc,       \* "next", "copy", "read", "done"
  at,       \* characters of the line read
  open,     \* the reader is between quotes
  inside,   \* the reader is in an argument
  got       \* the arguments read

built == <<argv, arg, pos, quoted, back, line>>
reader == <<at, open, inside, got>>
vars == <<built, pc, reader>>

Init ==
  /\ argv \in Argvs
  /\ arg = 0 /\ pos = 0 /\ quoted = FALSE /\ back = 0
  /\ line = <<>>
  /\ pc = "next"
  /\ at = 0 /\ open = FALSE /\ inside = FALSE /\ got = <<>>

Here == argv[arg]
Backslashes(n) == [k \in 1..n |-> Slash]
Blank(s)       == \E k \in DOMAIN s : s[k] \in {Space, Line}
Separated      == IF arg = 0 THEN line ELSE Append(line, Space)

-----------------------------------------------------------------------------
\* An argument without white space is copied as it is.
CopyPlain ==
  /\ pc = "next" /\ arg < Len(argv) /\ ~Blank(argv[arg + 1])
  /\ arg' = arg + 1
  /\ line' = Separated \o argv[arg + 1]
  /\ UNCHANGED <<argv, pos, quoted, back, pc, reader>>

OpenQuote ==
  /\ pc = "next" /\ arg < Len(argv) /\ Blank(argv[arg + 1])
  /\ arg' = arg + 1
  /\ pos' = 0 /\ back' = 0 /\ quoted' = TRUE
  /\ line' = Append(Separated, Quote)
  /\ pc' = "copy"
  /\ UNCHANGED <<argv, reader>>

CopySlash ==
  /\ pc = "copy" /\ pos < Len(Here) /\ Here[pos + 1] = Slash
  /\ back' = back + 1
  /\ line' = Append(line, Slash)
  /\ pos' = pos + 1
  /\ UNCHANGED <<argv, arg, quoted, pc, reader>>

\* A quote gets a backslash, and those before it are doubled.
CopyQuote ==
  /\ pc = "copy" /\ pos < Len(Here) /\ Here[pos + 1] = Quote
  /\ line' = Append(line \o Backslashes(back + 1), Quote)
  /\ back' = 0
  /\ pos' = pos + 1
  /\ UNCHANGED <<argv, arg, quoted, pc, reader>>

\* Mutant: the backslashes before a character that needs none are remembered.
CopyOtherKeep ==
  /\ pc = "copy" /\ pos < Len(Here) /\ Here[pos + 1] \notin {Slash, Quote}
  /\ line' = Append(line, Here[pos + 1])
  /\ pos' = pos + 1
  /\ UNCHANGED <<argv, arg, quoted, back, pc, reader>>

CopyOther ==
  /\ pc = "copy" /\ pos < Len(Here) /\ Here[pos + 1] \notin {Slash, Quote}
  /\ line' = Append(line, Here[pos + 1])
  /\ back' = 0
  /\ pos' = pos + 1
  /\ UNCHANGED <<argv, arg, quoted, pc, reader>>

\* Mutant: backslashes at the end are not doubled.
CloseQuotePlain ==
  /\ pc = "copy" /\ pos = Len(Here)
  /\ line' = Append(line, Quote)
  /\ quoted' = FALSE
  /\ pc' = "next"
  /\ UNCHANGED <<argv, arg, pos, back, reader>>

CloseQuote ==
  /\ pc = "copy" /\ pos = Len(Here)
  /\ line' = Append(line \o Backslashes(back), Quote)
  /\ quoted' = FALSE
  /\ pc' = "next"
  /\ UNCHANGED <<argv, arg, pos, back, reader>>

\* The line ends, and the program is started with it.
Start ==
  /\ pc = "next" /\ arg = Len(argv)
  /\ pc' = "read"
  /\ UNCHANGED <<built, reader>>

-----------------------------------------------------------------------------
(* The reader.  In its first argument, the path of the program, backslashes *)
(* are plain; in the others those before a quote are halved.               *)

Rest     == SubSeq(line, at + 1, Len(line))
Ahead(n) == IF at + n < Len(line) THEN line[at + n + 1] ELSE "end"
Run      == CHOOSE n \in 0..Len(Rest) :
              /\ \A k \in 1..n : Rest[k] = Slash
              /\ Ahead(n) # Slash
Plain    == Len(got) = 1
Add(s)   == got' = ReplaceAt(got, Len(got), got[Len(got)] \o s)

SkipBlank ==
  /\ pc = "read" /\ ~inside /\ Ahead(0) = Space
  /\ at' = at + 1
  /\ UNCHANGED <<built, pc, open, inside, got>>

NewArgument ==
  /\ pc = "read" /\ ~inside /\ Ahead(0) \notin {Space, "end"}
  /\ inside' = TRUE /\ open' = FALSE
  /\ got' = Append(got, <<>>)
  /\ UNCHANGED <<built, pc, at>>

ReadSlashes ==
  /\ pc = "read" /\ inside /\ Run > 0
  /\ IF Plain \/ Ahead(Run) # Quote
       THEN at' = at + Run /\ Add(Backslashes(Run))
       ELSE IF Run % 2 = 1
         THEN at' = at + Run + 1 /\ Add(Append(Backslashes(Run \div 2), Quote))
         ELSE at' = at + Run /\ Add(Backslashes(Run \div 2))
  /\ UNCHANGED <<built, pc, open, inside>>

\* A quote opens or closes, unless backslashes before it have been taken with
\* it; two of them between quotes are one.
ReadQuote ==
  /\ pc = "read" /\ inside /\ Ahead(0) = Quote
  /\ IF open /\ Ahead(1) = Quote /\ ~Plain
       THEN at' = at + 2 /\ Add(<<Quote>>) /\ UNCHANGED open
       ELSE at' = at + 1 /\ open' = ~open /\ UNCHANGED got
  /\ UNCHANGED <<built, pc, inside>>

ReadOther ==
  /\ pc = "read" /\ inside /\ Ahead(0) \notin {Quote, Slash, "end"}
  /\ Ahead(0) = Space => open
  /\ at' = at + 1
  /\ Add(<<Ahead(0)>>)
  /\ UNCHANGED <<built, pc, open, inside>>

EndArgument ==
  /\ pc = "read" /\ inside
  /\ Ahead(0) = "end" \/ (Ahead(0) = Space /\ ~open)
  /\ inside' = FALSE
  /\ UNCHANGED <<built, pc, at, open, got>>

EndLine ==
  /\ pc = "read" /\ ~inside /\ Ahead(0) = "end"
  /\ pc' = "done"
  /\ UNCHANGED <<built, reader>>

Next == \/ CopyPlain \/ OpenQuote \/ CopySlash \/ CopyQuote \/ CopyOther
        \/ CloseQuote \/ Start
        \/ SkipBlank \/ NewArgument \/ ReadSlashes \/ ReadQuote \/ ReadOther
        \/ EndArgument \/ EndLine

Spec == Init /\ [][Next]_vars

-----------------------------------------------------------------------------
\* Types of the state; back counts the backslashes that what has been copied of
\* the argument ends with, which is what makes doubling them right.
TypeOK ==
  /\ arg \in 0..Len(argv)
  /\ quoted = (pc = "copy")
  /\ pc \in {"next", "copy", "read", "done"}
  /\ quoted =>
       /\ pos \in 0..Len(Here)
       /\ back \in 0..pos
       /\ \A k \in 1..back : Here[pos + 1 - k] = Slash
       /\ back < pos => Here[pos - back] # Slash
  /\ at \in 0..Len(line)
  /\ open \in BOOLEAN /\ inside \in BOOLEAN

\* What is copied as it is, although the reader would not read it back: nothing
\* at all, and quotes in a word.
Bare(s) == s = <<>> \/ (~Blank(s) /\ \E k \in DOMAIN s : s[k] = Quote)

\* The arguments the tool gets are those the wrapper was given: all quoting, and
\* all backslashes before quotes and at the end, come out as they went in.
ReadBack == pc = "done" /\ (\A k \in DOMAIN argv : ~Bare(argv[k])) => got = argv

\* wrap.c:384-386: the line is passed as a whole, so "*we* have to make sure to
\* quote our arguments".
ArgumentsQuoted == pc = "done" => got = argv

=============================================================================
