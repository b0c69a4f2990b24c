----------------------------- MODULE Kernel32MC -----------------------------
(***************************************************************************)
(* An instance of the parts of kernel32.c that keep state: directory       *)
(* searches, file handles, and the current directory.  They share no       *)
(* variable, so that what holds of each alone holds of any interleaving:   *)
(* a behaviour follows one of them, and the others do not start.           *)
(***************************************************************************)
EXTENDS FindFile, FileHandles, FullPath

\* Paths: every name of up to three characters, the root, directories of
\* different lengths, a getcwd that fails.
MCPathNames == UNION {[1..n -> {"back", "slash", "drive", "a"}] : n \in 0..3}
MCDirs      == {<<>>, <<"slash">>, <<"slash", "a">>, <<"slash", "a", "slash", "b">>}

VARIABLE follows

InitAll ==
  /\ follows \in {"searches", "files", "paths"}
  /\ IF follows = "searches" THEN TRUE ELSE entries = [n \in Names |-> "absent"]
  /\ Init
  /\ HandleInit
  /\ IF follows = "paths" THEN TRUE ELSE cwd = <<>> /\ name = <<>>
  /\ FullInit

NextAll ==
  \/ follows = "searches" /\ Next /\ UNCHANGED <<follows, handleVars, fullVars>>
  \/ follows = "files" /\ HandleNext /\ UNCHANGED <<follows, vars, fullVars>>
  \/ follows = "paths" /\ FullNext /\ UNCHANGED <<follows, vars, handleVars>>

SpecAll == InitAll /\ [][NextAll]_<<follows, vars, handleVars, fullVars>> /\ WF_vars(InCall)

\* The types of the searches, the handles and the paths (kernel32.c), with the
\* bounds of their buffers.
TypesOK == TypeOK /\ HandleTypeOK /\ FullTypeOK

=============================================================================
