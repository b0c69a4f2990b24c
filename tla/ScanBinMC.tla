----------------------------- MODULE ScanBinMC ------------------------------
(***************************************************************************)
(* Executables for ScanBin: the parts in the order the compilers have them *)
(* and with neighbours exchanged, with parts left out, with one that looks *)
(* like another put anywhere, with and without something behind .text.     *)
(***************************************************************************)
EXTENDS ScanBin

Base == <<"fs", "fs", "init", "main", "init_args", "init_envp", "getenv", "findexe", "FUN_00505340",
          "prog_malloc", "FUN_004f8b60", "depfile_get_target", "depfile_get_header",
          "depfile_build", "fs">>
Like == {"half_fs", "half_init", "half_getenv", "half_reuse", "nops", "depfile_unknown", "fs"}

Swap(lay, k) == [lay EXCEPT ![k] = lay[k + 1], ![k + 1] = lay[k]]
Headed(lay)  == {<<"dos", "text">> \o lay, <<"dos", "text">> \o lay \o <<"data">>, <<"dos">> \o lay}

Orders  == {Base} \cup {Swap(Base, k) : k \in (4..Len(Base) - 1)}
Without == UNION {{lay} \cup {RemoveAt(lay, k) : k \in 1..Len(lay)} : lay \in Orders}
With    == Without \cup {InsertAt(lay, k, n) : k \in 1..Len(Base), n \in Like, lay \in Orders}

\* A function the entry code calls before it, where the search leaves the file.
Backward  == Swap(Swap(Base, 4), 3)
FourUses  == Headed(<<"fs">> \o Base)
MCLayouts == UNION {Headed(lay) : lay \in With \cup {Backward}}

=============================================================================
