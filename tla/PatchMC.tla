------------------------------ MODULE PatchMC -------------------------------
(***************************************************************************)
(* An instance of what patches an executable: the scanner, and the macros  *)
(* with lists of places as a scanner may find them or not.  They are run   *)
(* one after the other and share no variable; a behaviour follows one.     *)
(***************************************************************************)
EXTENDS PatchTextMC, ScanBinMC

VARIABLE follows

InitAll ==
  /\ follows \in {"macros", "scanner"}
  /\ IF follows = "scanner" THEN TRUE ELSE layout = <<"dos", "text">> \o Base
  /\ ScanInit
  /\ IF follows = "macros" THEN TRUE ELSE list = <<>>
  /\ Init

NextAll ==
  \/ follows = "macros" /\ Next /\ UNCHANGED <<follows, scanVars>>
  \/ follows = "scanner" /\ ScanNext /\ UNCHANGED <<follows, vars>>

SpecAll == InitAll /\ [][NextAll]_<<follows, vars, scanVars>>

=============================================================================
