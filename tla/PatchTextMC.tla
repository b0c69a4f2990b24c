---------------------------- MODULE PatchTextMC ----------------------------
(***************************************************************************)
(* Lists of up to three patches over a text of eight bytes: places that    *)
(* touch, overlap, are out of order or reach past the text, payloads that  *)
(* fill their place or leave room, lines under .ifdef or not, and symbols  *)
(* the generated file lacks.                                               *)
(***************************************************************************)
EXTENDS PatchText

Found(c, len, sz, opt) ==
  [code |-> c, end |-> c + len, size |-> sz, found |-> TRUE, optional |-> opt]
Missing(opt) ==
  [code |-> 0, end |-> 0, size |-> 0, found |-> FALSE, optional |-> opt]

Places  == {Found(c, d[1], d[2], FALSE) :
              c \in {0, 2, 3, 6}, d \in {<<1, 1>>, <<2, 1>>, <<3, 0>>, <<3, 3>>}}
Optionals == {Found(c, d[1], d[2], TRUE) :
              c \in {2, 5, 6}, d \in {<<1, 1>>, <<3, 1>>}}
Lines   == Places \cup Optionals \cup {Missing(TRUE), Missing(FALSE)}

MCTextLen == 8
MCPatchLists == UNION {[1..k -> Lines] : k \in 0..3}

=============================================================================
