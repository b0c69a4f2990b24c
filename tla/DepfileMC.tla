------------------------------ MODULE DepfileMC -----------------------------
(***************************************************************************)
(* An instance of the parts of depfile_build.c: path_join, the path of a   *)
(* header, and the rule.  They share no variable; a behaviour follows one. *)
(***************************************************************************)
EXTENDS DepfilePathMC, DepfileBuild, PathJoin

\* Rules: with and without a target, none to three headers, the same one twice,
\* names with a space in every role.
MCSpaced == {"s p"}
MCLists  == UNION {[1..n -> {"a", "b", "s p"}] : n \in 0..3}
MCInputs == {[target |-> t, source |-> s, headers |-> h] :
               t \in {NoTarget, "t", "s p"}, s \in {"c", "s p"}, h \in MCLists}

\* Paths to join, in buffers from too small to more than enough; 0 for none.
MCPaths == UNION {[1..n -> {"a", "/"}] : n \in 0..3}
MCSizes == 0..8

VARIABLE follows

InitAll ==
  /\ follows \in {"join", "path", "rule"}
  /\ IF follows = "path" THEN TRUE ELSE cwd = <<"/">> /\ header = <<"/", "a">>
  /\ Init
  /\ IF follows = "rule" THEN TRUE ELSE in = [target |-> "t", source |-> "c", headers |-> <<>>]
  /\ BuildInit
  /\ IF follows = "join" THEN TRUE ELSE dir = <<>> /\ file = <<>> /\ size = 0
  /\ JoinInit

NextAll ==
  \/ follows = "path" /\ Next /\ UNCHANGED <<follows, buildVars, joinVars>>
  \/ follows = "rule" /\ BuildNext /\ UNCHANGED <<follows, vars, joinVars>>
  \/ follows = "join" /\ JoinNext /\ UNCHANGED <<follows, vars, buildVars>>

SpecAll == InitAll /\ [][NextAll]_<<follows, vars, buildVars, joinVars>>

\* The types of the path, the rule and the joining (depfile_build.c), with the
\* bounds of their buffers.
TypesOK == TypeOK /\ BuildTypeOK /\ JoinTypeOK

=============================================================================
