----------------------------- MODULE WrapperMC ------------------------------
(***************************************************************************)
(* An instance of the wrapper: the command is read (WrapArgs), and with    *)
(* its options the tool is found and run (WrapRun).  On Windows what the   *)
(* tool is given becomes one line first (WrapLine, with arguments of its   *)
(* own, made of characters); what follows is not modelled there.           *)
(***************************************************************************)
EXTENDS WrapLineMC, WrapArgs, WrapRun

\* Every option of the tool that matters and every one of the wrapper's, values
\* that look like options, and an argument.
MCUnits ==
  {<<"-proc", "arm4T">>, <<"-proc", "arm946e">>, <<"-proc", "-thumb">>,
   <<"-thumb">>, <<"-nothumb">>, <<"-wrap:dbg">>, <<"-wrap:noipa">>,
   <<"-wrap:ver", "1">>, <<"-wrap:ver", "-thumb">>, <<"-wrap:sdk", "-wrap:dbg">>,
   <<"-wrap:lib", "2">>, <<"-wrap:hack01", "ff">>, <<"-ipa", "file">>, <<"a.c">>}

\* How the wrapper is called; what its options are is not known yet.
Called(bin, dir) == [bin |-> bin, dir |-> dir, ver |-> "", sdk |-> "", lib |-> "", hack |-> ""]
MCCalls    == {Called("mwccarm", TRUE), Called("mwccarm", FALSE),
               Called("other", TRUE), Called("", TRUE)}
MCNames    == {"n1", "n2"}
MCUserSets == {{}, {"MWCIncludes", "SKREW_LIBDIR", "PATH"},
               {"MWLibraryFiles", "SKREW_HACK01", "SKREW_DATADIR"}}
MCAsked    == {"MWCIncludes", "MWLibraryFiles", "SKREW_HACK01", "PATH", "HOME"}
MCHomes    == {"bin", ""}
MCIgnored  == BOOLEAN

VARIABLES windows, begun

allVars == <<windows, begun, vars, argsVars, runVars>>

InitAll ==
  /\ windows \in BOOLEAN /\ begun = FALSE
  /\ call = Called("mwccarm", TRUE) /\ user = {} /\ home = "bin" /\ ignores = FALSE
  /\ RunInit
  /\ IF windows THEN units = <<>> ELSE argv = <<<<"a", Slash, "a">>, <<>>, <<>>>>
  /\ ArgsInit
  /\ Init

\* main goes on with the options: how it was called, and what the user has set, it
\* has not looked at so far, so that it is chosen here.  It reads the command no
\* more: what it was is forgotten.
Begin ==
  /\ phase = "done" /\ ~windows /\ ~begun
  /\ begun' = TRUE
  /\ \E c \in Calls :
       /\ c.bin # "mwccarm" => opts = NoOptions
       /\ call' = [c EXCEPT !.ver = opts["-wrap:ver"], !.sdk = opts["-wrap:sdk"],
                            !.lib = opts["-wrap:lib"], !.hack = opts["-wrap:hack01"]]
  /\ user' \in UserSets /\ home' \in Homes /\ ignores' \in Ignored
  /\ ignores' \/ home' = "" \/ ~call'.dir => user' = {}
  /\ ignores' => home' = "bin"
  /\ env' = [n \in DOMAIN env |-> IF n \in user' THEN UserVal ELSE Unset]
  /\ units' = <<>> /\ left' = <<>> /\ kept' = <<>> /\ opts' = NoOptions
  /\ arch' = "v5" /\ thumb' = FALSE /\ i' = 1
  /\ UNCHANGED <<phase, self, seen, tool, libdir, child, heard, code, step, windows, vars>>

Main == \/ ArgsNext /\ UNCHANGED <<vars, runVars, windows, begun>>
        \/ Begin
        \/ begun /\ Wrapper /\ UNCHANGED <<vars, argsVars, windows, begun>>
        \/ windows /\ phase = "done" /\ Next /\ UNCHANGED <<argsVars, runVars, windows, begun>>

NextAll == \/ Main
           \/ begun /\ Tool /\ UNCHANGED <<vars, argsVars, windows, begun>>

\* The wrapper runs on; nothing is asked of the tool.
SpecAll == InitAll /\ [][NextAll]_allVars /\ WF_allVars(Main)

\* The types of the line, the arguments and the run of the tool (wrap.c), with the
\* bounds of their buffers.
TypesOK == TypeOK /\ ArgsTypeOK /\ RunTypeOK

\* main gets to the end of the command, to a tool or an exit, and with the tool to
\* its own end.
MainEnds == Parsed /\ Ends

=============================================================================
