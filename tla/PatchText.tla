----------------------------- MODULE PatchText -----------------------------
(***************************************************************************)
(* patch/patch.i rebuilds the program's .text around the patches: the      *)
(* generated patch file names the places (code_<name>, code_<name>.end)    *)
(* that scan.c found, and the `patch' macro copies the original bytes up   *)
(* to each of them, puts the payload there and fills what is left of the   *)
(* place with nops when the next patch, or the end, comes.  relink/link.ld *)
(* puts the result at the address of the original .text, so a byte that    *)
(* moves breaks every jump and every address in the program.               *)
(*                                                                         *)
(* Offsets are relative to pe_text_off.  The assembler is external: what   *)
(* it does with a negative .fill (a warning) and with a negative .incbin   *)
(* (an error) is what makes the macros safe or not.                        *)
(***************************************************************************)
EXTENDS Integers, Sequences

CONSTANTS
  TextLen,     \* pe_text_len
  PatchLists   \* the lists of patches patch.i may be assembled with

\* A line `patch code_<name>, <payload>' of patch.i: where the generated file
\* puts it, how long the payload is, whether the generated file defines it, and
\* whether the line stands under an .ifdef.
PatchType == [code : Nat, end : Nat, size : Nat, found : BOOLEAN, optional : BOOLEAN]

\* scan.c gives a place it found an end after its start, and the payloads are
\* written for the places they replace.
Fits(p) == p.code + p.size <= p.end

ASSUME TextAssumption ==
  /\ TextLen \in Nat
  /\ \A list \in PatchLists :
        list \in Seq(PatchType) /\ \A n \in DOMAIN list : Fits(list[n])

-----------------------------------------------------------------------------
Orig(o)       == [src |-> "orig", of |-> 0, at |-> o]
Nop           == [src |-> "nop", of |-> 0, at |-> 0]
Payload(n, k) == [src |-> "payload", of |-> n, at |-> k]
TextByte      == [src : {"orig", "nop", "payload"}, of : Nat, at : Nat]

Nops(n)         == [k \in 1..n |-> Nop]
\* .incbin f, o, n; that it puts out nothing for a length of 0, and not the rest of
\* the file, is taken from the assembler (GNU as).
Incbin(o, n)    == [k \in 1..n |-> Orig(o + (k - 1))]
PayloadOf(n, p) == [k \in 1..p.size |-> Payload(n, k - 1)]

VARIABLES
  pc,      \* "patch": at a patch line, or "done" or "error": as has stopped
  list,    \* the patches, in the order patch.i applies them
  n,       \* the next one
  out,     \* what .patch_pe_text holds
  end      \* patch.end, the end of the last patched place

vars == <<pc, list, n, out, end>>

Init ==
  /\ pc = "patch"
  /\ list \in PatchLists
  /\ n = 1
  /\ out = <<>>
  /\ end = 0

\* Mutant: the rest of the last place is not filled.
FillNothing(t, e) == t

\* .fill patch.end - pe_text_off + pe_text - (.), 1, 0x90
\* A negative count is warned about and fills nothing.
Fill(t, e) == IF e > Len(t) THEN t \o Nops(e - Len(t)) ELSE t

\* Mutant: the line after a missing patch goes with it.
SkipPatchAndNext ==
  /\ pc = "patch" /\ n <= Len(list)
  /\ ~list[n].found /\ list[n].optional
  /\ n' = n + 2
  /\ UNCHANGED <<pc, list, out, end>>

\* A line under .ifdef whose symbol the generated file does not define.
SkipPatch ==
  /\ pc = "patch" /\ n <= Len(list)
  /\ ~list[n].found /\ list[n].optional
  /\ n' = n + 1
  /\ UNCHANGED <<pc, list, out, end>>

\* Mutant: an .incbin of a negative length passes as an empty one.
ApplyPatchAnywhere ==
  /\ pc = "patch" /\ n <= Len(list)
  /\ list[n].found
  /\ out' = (Fill(out, end) \o Incbin(end, list[n].code - end)) \o PayloadOf(n, list[n])
  /\ end' = list[n].end
  /\ n' = n + 1
  /\ UNCHANGED <<pc, list>>

\* The patch macro: fill up the last place, copy up to this one, payload.
ApplyPatch ==
  /\ pc = "patch" /\ n <= Len(list)
  /\ list[n].found
  /\ list[n].code >= end
  /\ LET filled == Fill(out, end)
         copied == filled \o Incbin(end, list[n].code - end)
     IN  out' = copied \o PayloadOf(n, list[n])
  /\ end' = list[n].end
  /\ n' = n + 1
  /\ UNCHANGED <<pc, list>>

\* An undefined symbol, or an .incbin of a negative length.
BadPatch ==
  /\ pc = "patch" /\ n <= Len(list)
  /\ IF list[n].found THEN list[n].code < end ELSE ~list[n].optional
  /\ pc' = "error"
  /\ UNCHANGED <<list, n, out, end>>

\* patch_end: fill up the last place and copy the rest of the text.
PatchEnd ==
  /\ pc = "patch" /\ n > Len(list)
  /\ TextLen >= end
  /\ out' = Fill(out, end) \o Incbin(end, TextLen - end)
  /\ pc' = "done"
  /\ UNCHANGED <<list, n, end>>

BadEnd ==
  /\ pc = "patch" /\ n > Len(list)
  /\ TextLen < end
  /\ pc' = "error"
  /\ UNCHANGED <<list, n, out, end>>

Next == SkipPatch \/ ApplyPatch \/ BadPatch \/ PatchEnd \/ BadEnd

Spec == Init /\ [][Next]_vars

-----------------------------------------------------------------------------
\* Types of the state.
TypeOK ==
  /\ pc \in {"patch", "done", "error"}
  /\ list \in Seq(PatchType)
  /\ n \in 1..(Len(list) + 1)
  /\ out \in Seq(TextByte)
  /\ end \in Nat

\* The patches that went into the text.
Applied == {m \in DOMAIN list : m < n /\ list[m].found}

\* What belongs at an offset of the patched text: the payload and the nops of
\* the patch whose place it is in, the original byte everywhere else.
Belongs(o, b) ==
  \/ \E m \in Applied :
        /\ list[m].code <= o /\ o < list[m].end
        /\ b = IF o < list[m].code + list[m].size THEN Payload(m, o - list[m].code)
                                                  ELSE Nop
  \/ /\ \A m \in Applied : o < list[m].code \/ list[m].end <= o
     /\ b = Orig(o)

\* patch.i: a text that assembles is as long as the original, and every byte of
\* it is at its place, however many patches precede it: the nops, which are only
\* put out when the next patch comes, make up exactly for each short payload.
Preserved ==
  pc = "done" => /\ Len(out) = TextLen
                 /\ \A o \in 0..(TextLen - 1) : Belongs(o, out[o + 1])

\* Places that overlap, that are not in the order of patch.i's lines, or that
\* reach past the text never assemble: the copy between them has a negative
\* length.
OnlyOrderedAssembles ==
  pc = "done" =>
    \A m \in Applied :
      /\ list[m].end <= TextLen
      /\ \A k \in Applied : k < m => list[k].end <= list[m].code

=============================================================================
