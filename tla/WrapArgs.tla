------------------------------ MODULE WrapArgs ------------------------------
(***************************************************************************)
(* parse_args and remove_ipa_arguments of wrap/wrap.c: the wrapper's own   *)
(* options are taken out of the command line, the rest is the tool's, and  *)
(* the libraries are chosen by what the tool's options say it compiles     *)
(* for.                                                                    *)
(*                                                                         *)
(* A command is made of units, each an option with its values; the last    *)
(* one may have been cut.  What the code reads is their concatenation.     *)
(***************************************************************************)
EXTENDS Naturals, Sequences, SequencesExt

CONSTANTS
  Units,    \* the options with their values, and other arguments
  MaxUnits  \* how many there are, a bound of the model

\* The processors that are known, and what they run.
V4 == {"arm7tdmi", "arm4T"}
V5 == {"arm946e", "arm5TE"}

\* Options of the wrapper, with and without a value.
Valued == {"-wrap:ver", "-wrap:sdk", "-wrap:lib", "-wrap:hack01"}
Flags  == {"-wrap:dbg", "-wrap:noipa"}
\* All the options that have one.
TakesValue == Valued \cup {"-proc", "-ipa"}

\* A value is not itself an option, where the code looks at it as at one: parse_args
\* does not know -ipa, and remove_ipa_arguments knows nothing else.
ASSUME UnitAssumption ==
  /\ MaxUnits \in Nat
  /\ \A u \in Units :
       /\ u \in Seq(STRING) /\ Len(u) = IF u[1] \in TakesValue THEN 2 ELSE 1
       /\ u[1] = "-ipa"  => u[2] \notin Valued \cup Flags \cup {"-proc", "-thumb", "-nothumb"}
       /\ u[1] = "-proc" => u[2] # "-ipa"

VARIABLES
  units,  \* the command
  left,   \* what is left of it
  kept,   \* new_argv behind the tool's name
  opts,   \* struct args: the value of each option, FALSE or TRUE for a flag
  arch,   \* wrap_libarch, without thumb
  thumb,  \* the last of -thumb and -nothumb, then the libraries' variant
  i,      \* where remove_ipa_arguments reads
  phase      \* "parse", "ipa", "done"

argsVars == <<units, left, kept, opts, arch, thumb, i, phase>>

NoOptions == [o \in Valued \cup Flags |-> ""]

ArgsInit ==
  /\ \E n \in 0..MaxUnits, cut \in BOOLEAN :
       \E u \in [1..n -> Units] :
         units = IF cut /\ n > 0 THEN [u EXCEPT ![n] = <<Head(@)>>] ELSE u
  /\ left = FlattenSeq(units)
  /\ kept = <<>> /\ opts = NoOptions
  /\ arch = "v5" /\ thumb = FALSE
  /\ i = 1 /\ phase = "parse"

HasValue == Len(left) >= 2
Drop(n)  == SubSeq(left, n + 1, Len(left))

\* Mutant: the last of them is taken twice.
CopyAgain(n) == /\ kept' = kept \o SubSeq(left, 1, n)
                /\ left' = Drop(n - 1)
Copy(n)  == /\ kept' = kept \o SubSeq(left, 1, n)
            /\ left' = Drop(n)

\* Mutant: the value of -proc is looked at again.
ProcTakes1 == 1
ProcTakes  == 2

Proc ==
  /\ phase = "parse" /\ left # <<>> /\ left[1] = "-proc" /\ HasValue
  /\ arch' = IF left[2] \in V4 THEN "v4" ELSE IF left[2] \in V5 THEN "v5" ELSE arch
  /\ Copy(ProcTakes)
  /\ UNCHANGED <<units, opts, thumb, i, phase>>

Thumb ==
  /\ phase = "parse" /\ left # <<>> /\ left[1] \in {"-thumb", "-nothumb"}
  /\ thumb' = (left[1] = "-thumb")
  /\ Copy(1)
  /\ UNCHANGED <<units, opts, arch, i, phase>>

Flag ==
  /\ phase = "parse" /\ left # <<>> /\ left[1] \in Flags
  /\ opts' = [opts EXCEPT ![left[1]] = "set"]
  /\ left' = Drop(1)
  /\ UNCHANGED <<units, kept, arch, thumb, i, phase>>

\* Mutant: the first value counts.
ValueFirst ==
  /\ phase = "parse" /\ left # <<>> /\ left[1] \in Valued /\ HasValue
  /\ opts' = [opts EXCEPT ![left[1]] = IF @ = "" THEN left[2] ELSE @]
  /\ left' = Drop(2)
  /\ UNCHANGED <<units, kept, arch, thumb, i, phase>>

Value ==
  /\ phase = "parse" /\ left # <<>> /\ left[1] \in Valued /\ HasValue
  /\ opts' = [opts EXCEPT ![left[1]] = left[2]]
  /\ left' = Drop(2)
  /\ UNCHANGED <<units, kept, arch, thumb, i, phase>>

\* Any other, and an option at the end that has no value.
Other ==
  /\ phase = "parse" /\ left # <<>>
  /\ left[1] \notin {"-thumb", "-nothumb"} \cup Flags
  /\ left[1] \in Valued \cup {"-proc"} => ~HasValue
  /\ Copy(1)
  /\ UNCHANGED <<units, opts, arch, thumb, i, phase>>

EndParse ==
  /\ phase = "parse" /\ left = <<>>
  /\ phase' = IF opts["-wrap:noipa"] = "set" THEN "ipa" ELSE "done"
  /\ UNCHANGED <<units, left, kept, opts, arch, thumb, i>>

\* Mutant: its value stays.
IpaTakes1 == 1
IpaTakes  == 2

\* -ipa with what is behind it; alone at the end it stays.
RemoveIpa ==
  /\ phase = "ipa" /\ i < Len(kept) /\ kept[i] = "-ipa"
  /\ kept' = SubSeq(kept, 1, i - 1) \o SubSeq(kept, i + IpaTakes, Len(kept))
  /\ UNCHANGED <<units, left, opts, arch, thumb, i, phase>>

\* Mutant: the loop does not step on.
KeepStays ==
  /\ phase = "ipa" /\ i <= Len(kept)
  /\ i < Len(kept) => kept[i] # "-ipa"
  /\ UNCHANGED argsVars

KeepArgument ==
  /\ phase = "ipa" /\ i <= Len(kept)
  /\ i < Len(kept) => kept[i] # "-ipa"
  /\ i' = i + 1
  /\ UNCHANGED <<units, left, kept, opts, arch, thumb, phase>>

EndIpa ==
  /\ phase = "ipa" /\ i > Len(kept)
  /\ phase' = "done"
  /\ UNCHANGED <<units, left, kept, opts, arch, thumb, i>>

ArgsNext == \/ Proc \/ Thumb \/ Flag \/ Value \/ Other \/ EndParse
            \/ RemoveIpa \/ KeepArgument \/ EndIpa

ArgsSpec == ArgsInit /\ [][ArgsNext]_argsVars /\ WF_argsVars(ArgsNext)

-----------------------------------------------------------------------------
(* Properties, by units instead of by arguments.                           *)

\* A unit that is whole: the option has the value it takes.
Whole(u) == u[1] \in TakesValue => Len(u) = 2
Own(u)   == u[1] \in Flags \/ (u[1] \in Valued /\ Whole(u))

\* What is in kept and left was in the command, in its order, and the room that
\* was allocated for new_argv is enough (wrap.c:91).
ArgsTypeOK ==
  /\ phase \in {"parse", "ipa", "done"} /\ arch \in {"v4", "v5"} /\ thumb \in BOOLEAN
  /\ i \in 1..(Len(kept) + 1)
  /\ IsSuffix(left, FlattenSeq(units))
  /\ Len(kept) + Len(left) <= Len(FlattenSeq(units))

NoIpa     == \E k \in DOMAIN units : units[k][1] = "-wrap:noipa"
Remains(u) == ~Own(u) /\ ~(NoIpa /\ u[1] = "-ipa" /\ Whole(u))
Remaining  == [k \in 1..Len(units) |-> IF Remains(units[k]) THEN units[k] ELSE <<>>]

\* The tool is given its own options, each with its values, in order, and none of
\* the wrapper's; with -wrap:noipa none that asks for ipa (wrap.c:94-142, 465-482).
GivenToTool == phase = "done" => kept = FlattenSeq(Remaining)

LastOf(T(_)) == SelectLastInSeq(units, T)

\* Of an option that is given more than once, the last value counts.
LastValue ==
  phase = "done" =>
    \A o \in Valued :
      LET k == LastOf(LAMBDA u : u[1] = o /\ Whole(u))
      IN  opts[o] = IF k = 0 THEN "" ELSE units[k][2]

\* The libraries are those for what the tool is told to compile: its processor,
\* unless it is not known, and thumb, wherever in the command each is given.
LibrariesMatch ==
  phase = "done" =>
    LET p == LastOf(LAMBDA u : u[1] = "-proc" /\ Whole(u) /\ u[2] \in V4 \cup V5)
        t == LastOf(LAMBDA u : u[1] \in {"-thumb", "-nothumb"})
    IN  /\ arch = IF p # 0 /\ units[p][2] \in V4 THEN "v4" ELSE "v5"
        /\ thumb = (t # 0 /\ units[t][1] = "-thumb")

\* The command is taken as it was meant, by the tool and by the wrapper.
CommandRead == GivenToTool /\ LastValue /\ LibrariesMatch

\* Every command is read to its end.
Parsed == <>(phase = "done")

=============================================================================
