------------------------------ MODULE WrapRun -------------------------------
(***************************************************************************)
(* The rest of main in wrap/wrap.c, on Linux: where the wrapper is, which  *)
(* tool it runs, which libraries the tool is pointed to, the environment   *)
(* it is given, and how it ended; with the tool's side of that             *)
(* environment, patch_getenv of patch/env.c.                               *)
(*                                                                         *)
(* What is on the disk is chosen when it is looked at, and may change from *)
(* one look to the next.  An option whose value is empty, and a variable   *)
(* that is set but empty, are taken as not given.                          *)
(***************************************************************************)
EXTENDS Naturals, Sequences

CONSTANTS
  Calls,      \* the commands, parsed: records [bin, ver, sdk, lib, hack, dir],
              \* "" what is not given; dir if argv[0] has a directory
  Names,      \* what an sdk's files may name
  UserSets,   \* sets of variables the user may have set
  Asked,      \* variables the tool asks for
  Homes,      \* where the wrapper is installed; "" the root of the file system
  Statuses,   \* exit codes of the tool, a bound of the model
  Signals,    \* signals that may end it, a bound of the model
  Ignored     \* may the parent ignore SIGCHLD, which the wrapper inherits

\* Codes and signals are numbers, and "user" stands for a directory the user has
\* named, which is not the wrapper's.
ASSUME RunAssumption ==
  Statuses \subseteq Nat /\ Signals \subseteq Nat /\ "user" \notin Homes

VARIABLES
  call, user, home, ignores,  \* as it was called
  self,    \* the wrapper's directory, "" unknown
  seen,    \* the sdk's files exe and lib as they were found, one for each tree
  tool,    \* the program to run: its directory and its file's name
  libdir,  \* the directory of the libraries, <<>> if none was found
  env,     \* the environment, <<>> for what is not set
  child,   \* the tool's process
  heard,     \* what it has last asked for, and got
  code,    \* the wrapper's exit code
  step       \* "self", "tool", "libs", "env", "spawn", "wait", "done"

start == <<call, user, home, ignores>>
runVars  == <<start, self, seen, tool, libdir, env, child, heard, code, step>>

None    == "none"              \* no file, or an empty one
Texts   == Names \cup {None, ""}  \* "" has nothing but blanks
Look    == [1..2 -> Texts]     \* in the trees sdk and sdk/ds
Unset   == <<>>
UserVal == <<"user">>
Set     == {"MWCIncludes", "MWLibraries", "MWLibraryFiles", "SKREW_HACK01"}
Failure == 1

RunInit ==
  /\ call \in Calls /\ user \in UserSets /\ home \in Homes /\ ignores \in Ignored
  /\ self = "" /\ seen = [exe |-> <<None, None>>, lib |-> <<None, None>>]
  /\ tool = <<>> /\ libdir = <<>> /\ code = 0 /\ step = "self"
  /\ env = [n \in Asked \cup Set |-> IF n \in user THEN UserVal ELSE Unset]
  /\ child = [state |-> "none", end |-> 0] /\ heard = [name |-> "", value |-> Unset]

Exit(c) == step' = "done" /\ code' = c

TooFewArguments ==
  /\ step = "self" /\ call.bin = "" /\ Exit(Failure)
  /\ UNCHANGED <<start, self, seen, tool, libdir, env, child, heard>>

\* Mutant: only argv[0] is looked at.
SelfCalled == IF call.dir THEN "called" ELSE ""
SelfDir    == IF call.dir THEN "called" ELSE home

\* The directory of argv[0], or of /proc/self/exe if it has none.
FindSelf ==
  /\ step = "self" /\ call.bin # ""
  /\ self' = SelfDir
  /\ step' = "tool"
  /\ UNCHANGED <<start, seen, tool, libdir, env, child, heard, code>>

\* readlink fails: there may be no /proc.
SelfUnknown ==
  /\ step = "self" /\ call.bin # "" /\ ~call.dir /\ Exit(Failure)
  /\ UNCHANGED <<start, self, seen, tool, libdir, env, child, heard>>

DirOf(var) == IF var \in user THEN "user" ELSE self
DataDir    == DirOf("SKREW_DATADIR")
LibDir     == DirOf("SKREW_LIBDIR")

Found(look) == IF look[1] # None THEN look[1] ELSE look[2]

\* What sdk_version can see of a file.
Seen(look) == IF DataDir = "" THEN look = <<None, None>> ELSE look \in Look

RunTool(file) == /\ tool' = <<self, file>> /\ step' = "libs"
                 /\ UNCHANGED code

ByVersion ==
  /\ step = "tool" /\ call.ver # ""
  /\ RunTool(<<call.bin, call.ver>>)
  /\ UNCHANGED <<start, self, seen, libdir, env, child, heard>>

\* Mutant: without the file the tool is the default one.
BySdkOrDefault ==
  /\ step = "tool" /\ call.ver = "" /\ call.sdk # ""
  /\ \E look \in Look :
       /\ Seen(look) /\ seen' = [seen EXCEPT !.exe = look]
       /\ RunTool(IF Found(look) = None THEN <<call.bin, "default">> ELSE <<Found(look)>>)
  /\ UNCHANGED <<start, self, libdir, env, child, heard>>

BySdk ==
  /\ step = "tool" /\ call.ver = "" /\ call.sdk # ""
  /\ \E look \in Look :
       /\ Seen(look) /\ seen' = [seen EXCEPT !.exe = look]
       /\ IF Found(look) = None THEN Exit(Failure) /\ UNCHANGED tool ELSE RunTool(<<Found(look)>>)
  /\ UNCHANGED <<start, self, libdir, env, child, heard>>

ByDefault ==
  /\ step = "tool" /\ call.ver = "" /\ call.sdk = ""
  /\ RunTool(IF call.bin \in {"mwccarm", "mwldarm", "mwasmarm"}
               THEN <<call.bin, "default">> ELSE <<call.bin>>)
  /\ UNCHANGED <<start, self, seen, libdir, env, child, heard>>

LibVersion(look) == IF call.lib # "" THEN call.lib ELSE IF call.sdk # "" THEN Found(look) ELSE None

\* The first of the trees that has a directory of the version.
LibDirIn(have, ver) ==
  IF LibDir = "" \/ ver = None \/ have = {} THEN <<>>
  ELSE <<LibDir, IF 1 \in have THEN 1 ELSE 2, ver>>

ChooseLibraries ==
  /\ step = "libs"
  /\ \E look \in Look, have \in SUBSET {1, 2} :
       /\ IF call.lib = "" /\ call.sdk # "" THEN Seen(look) ELSE look = <<None, None>>
       /\ seen' = [seen EXCEPT !.lib = look]
       /\ libdir' = LibDirIn(have, LibVersion(look))
  /\ step' = "env"
  /\ UNCHANGED <<start, self, tool, env, child, heard, code>>

Below(what) == IF libdir = <<>> THEN Unset ELSE Append(libdir, what)

\* Mutant: the list of files only with a directory.
ChosenBelow == [MWCIncludes    |-> Below("Include"),
                MWLibraries    |-> Below("Lib"),
                MWLibraryFiles |-> Below("files"),
                SKREW_HACK01   |-> IF call.hack = "" THEN Unset ELSE <<"option">>]
Chosen == [MWCIncludes    |-> Below("Include"),
           MWLibraries    |-> Below("Lib"),
           MWLibraryFiles |-> <<"files">>,
           SKREW_HACK01   |-> IF call.hack = "" THEN Unset ELSE <<"option">>]

\* Mutant: what the user has set is replaced.
SetenvStrong(e, n, v) == IF v = Unset THEN e[n] ELSE v
SetenvWeak(e, n, v)   == IF v = Unset \/ e[n] # Unset THEN e[n] ELSE v

SetEnvironment ==
  /\ step = "env"
  /\ env' = [n \in DOMAIN env |-> IF n \in Set THEN SetenvWeak(env, n, Chosen[n]) ELSE env[n]]
  /\ step' = "spawn"
  /\ UNCHANGED <<start, self, seen, tool, libdir, child, heard, code>>

Spawn ==
  /\ step = "spawn" /\ tool[2] # <<"">>
  /\ child' = [child EXCEPT !.state = "runs"] /\ step' = "wait"
  /\ UNCHANGED <<start, self, seen, tool, libdir, env, heard, code>>

\* There is no such program, or it cannot be run.
SpawnFails ==
  /\ step = "spawn" /\ Exit(Failure)
  /\ UNCHANGED <<start, self, seen, tool, libdir, env, child, heard>>

\* Mutant: any end is an exit.
ExitedOnly == IF child.state = "exited" THEN child.end ELSE 0
CodeOf     == IF child.state = "killed" THEN 128 + child.end ELSE child.end

\* Mutant: only an exit is waited for.
WaitExited ==
  /\ step = "wait" /\ child.state = "exited" /\ Exit(child.end)
  /\ UNCHANGED <<start, self, seen, tool, libdir, env, child, heard>>

\* With SIGCHLD ignored waitpid fails when the tool has ended, and exitcode has
\* whatever was there.
Wait ==
  /\ step = "wait" /\ child.state # "runs"
  /\ IF ignores THEN \E c \in Statuses : Exit(c) ELSE Exit(CodeOf)
  /\ UNCHANGED <<start, self, seen, tool, libdir, env, child, heard>>

Wrapper == \/ TooFewArguments \/ FindSelf \/ SelfUnknown
           \/ ByVersion \/ BySdk \/ ByDefault \/ ChooseLibraries \/ SetEnvironment \/ Spawn \/ SpawnFails \/ Wait

-----------------------------------------------------------------------------
(* The tool.                                                               *)

Passed == {"MWCARMIncludes", "MWCIncludes", "MWARMLibraries", "MWLibraries",
           "MWARMLibraryFiles", "MWLibraryFiles", "MWAsmARMIncludes", "MWAsmIncludes",
           "MWASMARMINCLUDES", "MWASMINCLUDES"}
Hidden == {"MW_CYGDRIVE_PREFIX", "MW_CYGWIN_ROOT", "PATH", "LM_LICENSE_FILE",
           "TEMP", "TMP", "TMPDIR"}

\* patch_getenv; the replacement of FUN_00505340 asks for SKREW_HACK01 itself.
Getenv(n) ==
  /\ child.state = "runs" /\ n \in Passed \cup Hidden \cup {"SKREW_HACK01"}
  /\ heard' = [name |-> n, value |-> IF n \in Hidden THEN Unset ELSE env[n]]
  /\ UNCHANGED <<start, self, seen, tool, libdir, env, child, code, step>>

EndsWith(state, e) ==
  /\ child.state = "runs" /\ child' = [state |-> state, end |-> e]
  /\ UNCHANGED <<start, self, seen, tool, libdir, env, heard, code, step>>

GetenvDies(n) ==
  n \notin Passed \cup Hidden \cup {"SKREW_HACK01"} /\ EndsWith("exited", Failure)

Tool == \/ \E n \in Asked : Getenv(n) \/ GetenvDies(n)
        \/ \E e \in Statuses : EndsWith("exited", e)
        \/ \E s \in Signals : EndsWith("killed", s)

RunNext == Wrapper \/ Tool

RunSpec == RunInit /\ [][RunNext]_runVars /\ WF_runVars(Wrapper)

-----------------------------------------------------------------------------
(* Properties.                                                             *)

\* The tool runs only once it has a name and an environment with the list of
\* library files (wrap.c:625-664).
RunTypeOK ==
  /\ step \in {"self", "tool", "libs", "env", "spawn", "wait", "done"}
  /\ seen.exe \in Look /\ seen.lib \in Look
  /\ child.state \in {"none", "runs", "exited", "killed"}
  /\ child.state # "none" => tool # <<>> /\ env["MWLibraryFiles"] # Unset

\* A build that looks at the exit code is right to go on: the wrapper succeeds only
\* if the tool ran to its end and succeeded (wrap.c:694-701), whatever failed before;
\* but if SIGCHLD is ignored the code is not the tool's.
SuccessIsReal == step = "done" /\ code = 0 /\ ~ignores => child = [state |-> "exited", end |-> 0]

\* With an sdk and no version, no other tool is run than the one the sdk names,
\* in either tree (wrap.c:528-534), and no libraries but those it names
\* (wrap.c:559-563).
OfTheSdk ==
  child.state # "none" /\ call.sdk # "" =>
    /\ call.ver = "" => tool[2][1] \in {seen.exe[1], seen.exe[2]} \ {None, ""}
    /\ call.lib = "" /\ libdir # <<>> => libdir[3] \in {seen.lib[1], seen.lib[2]} \ {None}

\* The tool sees what the user has set as the user has set it, and otherwise what
\* the options ask for, with the libraries in the directory the user has named
\* (wrap.c:454-462, 676-679; env.c:10-48).
AsSet ==
  LET n == heard.name IN
    n \in Set =>
      IF n \in user THEN heard.value = UserVal
      ELSE CASE n = "SKREW_HACK01"   -> (heard.value # Unset) = (call.hack # "")
             [] n = "MWLibraryFiles" -> heard.value # Unset
             [] OTHER -> heard.value # Unset =>
                  /\ call.lib # "" => heard.value[3] = call.lib
                  /\ heard.value[1] = "user" <=> "SKREW_LIBDIR" \in user

\* The tool is looked for beside the wrapper, never in the working directory:
\* find_self's directory is the one it runs from, unless that is the root of the
\* file system (wrap.c:230).
ToolBeside == tool # <<>> /\ (call.dir \/ home # "") => tool[1] = SelfDir /\ tool[1] # ""

\* What runs is the tool that was asked for, from where it has to be.
RightTool == OfTheSdk /\ ToolBeside

\* A wrapper that knows where it is gets to a tool or to an exit, whatever it finds
\* on the disk, and ends when its tool has ended.
Ends == /\ (step = "tool") ~> (step \in {"wait", "done"})
        /\ (child.state \in {"exited", "killed"}) ~> (step = "done")

=============================================================================
