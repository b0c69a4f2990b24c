--------------------------- MODULE WrapperProofs ----------------------------
(***************************************************************************)
(* Proofs about the wrapper.  WrapArgs, for every command made of units as *)
(* UnitAssumption has them: the tool is given its own options and nothing of *)
(* the wrapper's, and what is given last counts.  WrapRun, for every command, *)
(* every content of the disk and every environment of the user: what runs is *)
(* the tool that was asked for, with what was asked for, and the wrapper   *)
(* succeeds only if it does.  WrapLine, for every list of arguments as     *)
(* LineAssumption has them: what the runtime reads of the line is what was *)
(* written to it.  And the three together, as they are run.                *)
(***************************************************************************)
EXTENDS WrapperMC, SeqFacts

-----------------------------------------------------------------------------
(* The run of the tool.                                                    *)
(*                                                                         *)
(* The inductive invariant.                                                *)

Steps  == {"self", "tool", "libs", "env", "spawn", "wait", "done"}
States == {"none", "runs", "exited", "killed"}

RunTypes ==
  /\ step \in Steps
  /\ child \in [state : States, end : Nat]
  /\ DOMAIN env = Asked \cup Set
  /\ home \in Homes
  /\ seen.exe \in Look /\ seen.lib \in Look
  /\ seen = [exe |-> seen.exe, lib |-> seen.lib]

\* Where the wrapper is, once it has looked.
SelfKnown ==
  /\ step = "self" => self = ""
  /\ step \in {"tool", "libs", "env", "spawn", "wait"} => self = SelfDir
  /\ self \in {"", SelfDir}

\* The tool is beside it, and without a version it is the one the sdk names.
ToolFound ==
  /\ step \in {"self", "tool"} => tool = <<>>
  /\ step \in {"libs", "env", "spawn", "wait"} => tool # <<>>
  /\ tool # <<>> => self = SelfDir /\ tool = <<SelfDir, tool[2]>>
  /\ tool # <<>> /\ call.ver = "" /\ call.sdk # "" =>
       tool[2] = <<Found(seen.exe)>> /\ Found(seen.exe) # None

\* So are the libraries, in one of the two trees.
LibrariesFound ==
  /\ step \in {"self", "tool", "libs"} => libdir = <<>>
  /\ libdir # <<>> =>
       /\ LibVersion(seen.lib) # None
       /\ \E t \in {1, 2} : libdir = <<LibDir, t, LibVersion(seen.lib)>>

\* The environment is the user's, and then what the user has not set is chosen.
Given == [n \in Asked \cup Set |-> IF n \in user THEN UserVal ELSE Unset]
EnvironmentSet ==
  /\ step \in {"self", "tool", "libs", "env"} => env = Given
  /\ step \in {"spawn", "wait"} \/ child.state # "none" =>
       \A n \in Set : env[n] = IF n \in user THEN UserVal ELSE Chosen[n]

\* The tool is there between its start and its end, and what it has heard is what
\* the environment says.
ToolRuns ==
  /\ step = "wait" => child.state # "none"
  /\ child.state # "none" =>
       step \in {"wait", "done"} /\ tool # <<>> /\ tool[2] # <<"">>
  /\ child.state = "runs" => step = "wait"
  /\ heard.name \in Set => child.state # "none" /\ heard.value = env[heard.name]

RunInv == RunTypes /\ SelfKnown /\ ToolFound /\ LibrariesFound /\ EnvironmentSet /\ ToolRuns
         /\ SuccessIsReal

-----------------------------------------------------------------------------
(* Each step keeps it.                                                    *)

\* The version of the libraries depends on the command and on what was seen.
LEMMA SameVersion == call' = call => (LibVersion(seen.lib))' = LibVersion(seen'.lib)
  BY DEF LibVersion

\* A command of nothing ends at once.
LEMMA KeepsTooFewArguments == RunInv /\ TooFewArguments => RunInv'
<1> SUFFICES ASSUME RunInv, TooFewArguments PROVE RunInv'
  OBVIOUS
<1> USE DEF RunInv, TooFewArguments, Exit, Failure, start
<1>1. RunTypes'
  BY DEF RunTypes, Steps, States
<1>2. SelfKnown'
  BY DEF SelfKnown, SelfDir
<1>3. ToolFound'
  BY DEF ToolFound, SelfDir, Found
<1>4. LibrariesFound'
  BY DEF LibrariesFound, LibVersion, LibDir, DirOf, Found
<1>5. EnvironmentSet'
  BY DEF EnvironmentSet, Given, Chosen, Below, ToolRuns
<1>6. ToolRuns'
  BY DEF ToolRuns
<1>7. SuccessIsReal'
  <2>1. code' = 1
    OBVIOUS
  <2> HIDE DEF RunInv, TooFewArguments, Exit
  <2> QED
    BY <2>1 DEF SuccessIsReal
<1> QED
  BY <1>1, <1>2, <1>3, <1>4, <1>5, <1>6, <1>7

\* A wrapper that cannot find itself ends.
LEMMA KeepsSelfUnknown == RunInv /\ SelfUnknown => RunInv'
<1> SUFFICES ASSUME RunInv, SelfUnknown PROVE RunInv'
  OBVIOUS
<1> USE DEF RunInv, SelfUnknown, Exit, Failure, start
<1>1. RunTypes'
  BY DEF RunTypes, Steps, States
<1>2. SelfKnown'
  BY DEF SelfKnown, SelfDir
<1>3. ToolFound'
  BY DEF ToolFound, SelfDir, Found
<1>4. LibrariesFound'
  BY DEF LibrariesFound, LibVersion, LibDir, DirOf, Found
<1>5. EnvironmentSet'
  BY DEF EnvironmentSet, Given, Chosen, Below, ToolRuns
<1>6. ToolRuns'
  BY DEF ToolRuns
<1>7. SuccessIsReal'
  <2>1. code' = 1
    OBVIOUS
  <2> HIDE DEF RunInv, SelfUnknown, Exit
  <2> QED
    BY <2>1 DEF SuccessIsReal
<1> QED
  BY <1>1, <1>2, <1>3, <1>4, <1>5, <1>6, <1>7

\* find_self.
LEMMA KeepsFindSelf == RunInv /\ FindSelf => RunInv'
<1> SUFFICES ASSUME RunInv, FindSelf PROVE RunInv'
  OBVIOUS
<1> USE DEF RunInv, FindSelf, start
<1>1. RunTypes'
  BY DEF RunTypes, Steps, States
<1>2. SelfKnown'
  BY DEF SelfKnown, SelfDir
<1>3. ToolFound'
  BY DEF ToolFound, SelfDir, Found
<1>4. LibrariesFound'
  BY DEF LibrariesFound, LibVersion, LibDir, DirOf, Found
<1>5. EnvironmentSet'
  BY DEF EnvironmentSet, Given, Chosen, Below, ToolRuns
<1>6. ToolRuns'
  BY DEF ToolRuns
<1>7. SuccessIsReal'
  BY DEF SuccessIsReal, ToolRuns
<1> QED
  BY <1>1, <1>2, <1>3, <1>4, <1>5, <1>6, <1>7

\* The tool of a version.
LEMMA KeepsByVersion == RunInv /\ ByVersion => RunInv'
<1> SUFFICES ASSUME RunInv, ByVersion PROVE RunInv'
  OBVIOUS
<1> USE DEF RunInv, ByVersion, RunTool, start
<1>1. RunTypes'
  BY DEF RunTypes, Steps, States
<1>2. SelfKnown'
  BY DEF SelfKnown, SelfDir
<1>3. ToolFound'
  BY DEF ToolFound, SelfDir, SelfKnown
<1>4. LibrariesFound'
  BY DEF LibrariesFound, LibVersion, LibDir, DirOf, Found
<1>5. EnvironmentSet'
  BY DEF EnvironmentSet, Given, Chosen, Below, ToolRuns
<1>6. ToolRuns'
  BY DEF ToolRuns
<1>7. SuccessIsReal'
  BY DEF SuccessIsReal, ToolRuns
<1> QED
  BY <1>1, <1>2, <1>3, <1>4, <1>5, <1>6, <1>7

\* The tool of an sdk, or none.
LEMMA KeepsBySdk == RunInv /\ BySdk => RunInv'
<1> SUFFICES ASSUME RunInv, BySdk PROVE RunInv'
  OBVIOUS
<1> USE DEF RunInv, BySdk, RunTool, Exit, Failure, Seen, start
<1>1. RunTypes'
  BY DEF RunTypes, Steps, States
<1>2. SelfKnown'
  BY DEF SelfKnown, SelfDir
<1>3. ToolFound'
  <2> PICK look \in Look :
        /\ seen' = [seen EXCEPT !.exe = look]
        /\ IF Found(look) = None THEN step' = "done" /\ tool' = tool
           ELSE step' = "libs" /\ tool' = <<self, <<Found(look)>>>>
    OBVIOUS
  <2>1. seen'.exe = look
    BY DEF RunTypes
  <2>2. CASE Found(look) = None
    BY <2>2 DEF ToolFound
  <2>3. CASE Found(look) # None
    <3>1. Found(seen'.exe) # None /\ Found(look) = Found(seen'.exe)
      BY <2>1, <2>3 DEF Found
    <3>2. self = SelfDir /\ SelfDir' = SelfDir /\ call' = call /\ self' = self
      BY DEF SelfKnown, SelfDir
    <3>3. (Found(seen.exe))' = Found(seen'.exe)
      BY DEF Found
    <3>4. step' = "libs" /\ tool' = <<SelfDir, <<Found(look)>>>>
      BY <2>3, <3>2
    <3>5. tool' # <<>> /\ tool' = <<SelfDir', tool'[2]>>
      BY <3>2, <3>4
    <3> HIDE DEF RunInv, BySdk, start
    <3> QED
      BY <3>1, <3>2, <3>3, <3>4, <3>5 DEF ToolFound
  <2> QED
    BY <2>2, <2>3
<1>4. LibrariesFound'
  BY DEF LibrariesFound, LibVersion, LibDir, DirOf, Found
<1>5. EnvironmentSet'
  BY DEF EnvironmentSet, Given, Chosen, Below, ToolRuns
<1>6. ToolRuns'
  BY DEF ToolRuns
<1>7. SuccessIsReal'
  <2>1. step' = "libs" \/ code' = 1
    OBVIOUS
  <2> HIDE DEF RunInv, BySdk
  <2> QED
    BY <2>1 DEF SuccessIsReal
<1> QED
  BY <1>1, <1>2, <1>3, <1>4, <1>5, <1>6, <1>7

\* The default tool.
LEMMA KeepsByDefault == RunInv /\ ByDefault => RunInv'
<1> SUFFICES ASSUME RunInv, ByDefault PROVE RunInv'
  OBVIOUS
<1> USE DEF RunInv, ByDefault, RunTool, start
<1>1. RunTypes'
  BY DEF RunTypes, Steps, States
<1>2. SelfKnown'
  BY DEF SelfKnown, SelfDir
<1>3. ToolFound'
  BY DEF ToolFound, SelfDir, SelfKnown
<1>4. LibrariesFound'
  BY DEF LibrariesFound, LibVersion, LibDir, DirOf, Found
<1>5. EnvironmentSet'
  BY DEF EnvironmentSet, Given, Chosen, Below, ToolRuns
<1>6. ToolRuns'
  BY DEF ToolRuns
<1>7. SuccessIsReal'
  BY DEF SuccessIsReal, ToolRuns
<1> QED
  BY <1>1, <1>2, <1>3, <1>4, <1>5, <1>6, <1>7

\* The libraries.
LEMMA KeepsChooseLibraries == RunInv /\ ChooseLibraries => RunInv'
<1> SUFFICES ASSUME RunInv, ChooseLibraries PROVE RunInv'
  OBVIOUS
<1> USE DEF RunInv, ChooseLibraries, Seen, start
<1>1. RunTypes'
  BY DEF RunTypes, Steps, States
<1>2. SelfKnown'
  BY DEF SelfKnown, SelfDir
<1>3. ToolFound'
  BY DEF ToolFound, SelfDir, Found, RunTypes
<1>4. LibrariesFound'
  <2> PICK look \in Look, have \in SUBSET {1, 2} :
        /\ seen' = [seen EXCEPT !.lib = look]
        /\ libdir' = LibDirIn(have, LibVersion(look))
    OBVIOUS
  <2>1. seen'.lib = look
    BY DEF RunTypes
  <2>2. call' = call /\ user' = user /\ self' = self /\ step' = "env"
    OBVIOUS
  <2> HIDE DEF RunInv, ChooseLibraries
  <2>3. (LibVersion(seen.lib))' = LibVersion(seen'.lib)
    BY <2>2, SameVersion
  <2>4. LibDir' = LibDir
    BY <2>2 DEF LibDir, DirOf
  <2> DEFINE t == IF 1 \in have THEN 1 ELSE 2
  <2>5. \/ libdir' = <<>>
        \/ LibVersion(look) # None /\ libdir' = <<LibDir, t, LibVersion(look)>>
    BY DEF LibDirIn
  <2>6. t \in {1, 2}
    OBVIOUS
  <2> HIDE DEF t
  <2> QED
    BY <2>1, <2>2, <2>3, <2>4, <2>5, <2>6 DEF LibrariesFound
<1>5. EnvironmentSet'
  BY DEF EnvironmentSet, Given, Chosen, Below, ToolRuns
<1>6. ToolRuns'
  BY DEF ToolRuns
<1>7. SuccessIsReal'
  BY DEF SuccessIsReal, ToolRuns
<1> QED
  BY <1>1, <1>2, <1>3, <1>4, <1>5, <1>6, <1>7

\* The environment.
LEMMA KeepsSetEnvironment == RunInv /\ SetEnvironment => RunInv'
<1> SUFFICES ASSUME RunInv, SetEnvironment PROVE RunInv'
  OBVIOUS
<1> USE DEF RunInv, SetEnvironment, start
<1>1. RunTypes'
  BY DEF RunTypes, Steps, States
<1>2. SelfKnown'
  BY DEF SelfKnown, SelfDir
<1>3. ToolFound'
  BY DEF ToolFound, SelfDir, Found
<1>4. LibrariesFound'
  BY DEF LibrariesFound, LibVersion, LibDir, DirOf, Found
<1>5. EnvironmentSet'
  <2>1. Chosen' = Chosen
    BY DEF Chosen, Below
  <2>2. ASSUME NEW n \in Set PROVE env'[n] = IF n \in user THEN UserVal ELSE Chosen[n]
    <3>1. n \in DOMAIN env /\ env[n] = IF n \in user THEN UserVal ELSE Unset
      BY DEF EnvironmentSet, Given, RunTypes
    <3>2. env'[n] = SetenvWeak(env, n, Chosen[n])
      BY <3>1
    <3> HIDE DEF SetEnvironment
    <3> QED
      BY <3>1, <3>2 DEF SetenvWeak, UserVal, Unset
  <2>3. step' = "spawn" /\ user' = user
    OBVIOUS
  <2> QED
    BY <2>1, <2>2, <2>3 DEF EnvironmentSet
<1>6. ToolRuns'
  BY DEF ToolRuns
<1>7. SuccessIsReal'
  BY DEF SuccessIsReal, ToolRuns
<1> QED
  BY <1>1, <1>2, <1>3, <1>4, <1>5, <1>6, <1>7

\* The tool is started
LEMMA KeepsSpawn == RunInv /\ Spawn => RunInv'
<1> SUFFICES ASSUME RunInv, Spawn PROVE RunInv'
  OBVIOUS
<1> USE DEF RunInv, Spawn, start
<1>1. RunTypes'
  BY DEF RunTypes, Steps, States
<1>2. SelfKnown'
  BY DEF SelfKnown, SelfDir
<1>3. ToolFound'
  BY DEF ToolFound, SelfDir, Found
<1>4. LibrariesFound'
  BY DEF LibrariesFound, LibVersion, LibDir, DirOf, Found
<1>5. EnvironmentSet'
  BY DEF EnvironmentSet, Given, Chosen, Below, ToolRuns
<1>6. ToolRuns'
  BY DEF ToolRuns, ToolFound, RunTypes
<1>7. SuccessIsReal'
  BY DEF SuccessIsReal, ToolRuns
<1> QED
  BY <1>1, <1>2, <1>3, <1>4, <1>5, <1>6, <1>7

\* or cannot be.
LEMMA KeepsSpawnFails == RunInv /\ SpawnFails => RunInv'
<1> SUFFICES ASSUME RunInv, SpawnFails PROVE RunInv'
  OBVIOUS
<1> USE DEF RunInv, SpawnFails, Exit, Failure, start
<1>1. RunTypes'
  BY DEF RunTypes, Steps, States
<1>2. SelfKnown'
  BY DEF SelfKnown, SelfDir
<1>3. ToolFound'
  BY DEF ToolFound, SelfDir, Found
<1>4. LibrariesFound'
  BY DEF LibrariesFound, LibVersion, LibDir, DirOf, Found
<1>5. EnvironmentSet'
  BY DEF EnvironmentSet, Given, Chosen, Below, ToolRuns
<1>6. ToolRuns'
  BY DEF ToolRuns
<1>7. SuccessIsReal'
  BY DEF SuccessIsReal, ToolRuns
<1> QED
  BY <1>1, <1>2, <1>3, <1>4, <1>5, <1>6, <1>7

\* It is waited for.
LEMMA KeepsWait == RunInv /\ Wait => RunInv'
<1> SUFFICES ASSUME RunInv, Wait PROVE RunInv'
  OBVIOUS
<1> USE DEF RunInv, Wait, Exit, CodeOf, start
<1>1. RunTypes'
  BY DEF RunTypes, Steps, States
<1>2. SelfKnown'
  BY DEF SelfKnown, SelfDir
<1>3. ToolFound'
  BY DEF ToolFound, SelfDir, Found
<1>4. LibrariesFound'
  BY DEF LibrariesFound, LibVersion, LibDir, DirOf, Found
<1>5. EnvironmentSet'
  BY DEF EnvironmentSet, Given, Chosen, Below, ToolRuns
<1>6. ToolRuns'
  BY DEF ToolRuns
<1>7. SuccessIsReal'
  <2> SUFFICES ASSUME code' = 0, ~ignores PROVE child = [state |-> "exited", end |-> 0]
    BY DEF SuccessIsReal
  <2>1. code' = CodeOf /\ child.state \in {"exited", "killed"}
    BY DEF ToolRuns, RunTypes, States
  <2>2. child.end \in Nat /\ child = [state |-> child.state, end |-> child.end]
    BY DEF RunTypes
  <2>3. child.state # "killed"
    BY <2>1, <2>2 DEF CodeOf
  <2> QED
    BY <2>1, <2>2, <2>3 DEF CodeOf
<1> QED
  BY <1>1, <1>2, <1>3, <1>4, <1>5, <1>6, <1>7

\* The tool asks for a variable.
LEMMA KeepsGetenv == ASSUME NEW n \in Asked PROVE RunInv /\ Getenv(n) => RunInv'
<1> SUFFICES ASSUME RunInv, Getenv(n) PROVE RunInv'
  OBVIOUS
<1> USE DEF RunInv, Getenv, start
<1>1. RunTypes'
  BY DEF RunTypes
<1>2. SelfKnown'
  BY DEF SelfKnown, SelfDir
<1>3. ToolFound'
  BY DEF ToolFound, SelfDir, Found
<1>4. LibrariesFound'
  BY DEF LibrariesFound, LibVersion, LibDir, DirOf, Found
<1>5. EnvironmentSet'
  BY DEF EnvironmentSet, Given, Chosen, Below
<1>6. ToolRuns'
  <2>1. n \in Set => n \notin Hidden
    BY DEF Set, Hidden
  <2>2. heard'.name = n /\ (n \in Set => heard'.value = env[n])
    BY <2>1
  <2> QED
    BY <2>2 DEF ToolRuns
<1>7. SuccessIsReal'
  BY DEF SuccessIsReal
<1> QED
  BY <1>1, <1>2, <1>3, <1>4, <1>5, <1>6, <1>7

\* The tool ends.
LEMMA KeepsEnd ==
  ASSUME NEW state \in {"exited", "killed"}, NEW e \in Nat
  PROVE  RunInv /\ EndsWith(state, e) => RunInv'
<1> SUFFICES ASSUME RunInv, EndsWith(state, e) PROVE RunInv'
  OBVIOUS
<1> USE DEF RunInv, EndsWith, start
<1>1. RunTypes'
  BY DEF RunTypes, States
<1>2. SelfKnown'
  BY DEF SelfKnown, SelfDir
<1>3. ToolFound'
  BY DEF ToolFound, SelfDir, Found
<1>4. LibrariesFound'
  BY DEF LibrariesFound, LibVersion, LibDir, DirOf, Found
<1>5. EnvironmentSet'
  BY DEF EnvironmentSet, Given, Chosen, Below
<1>6. ToolRuns'
  BY DEF ToolRuns
<1>7. SuccessIsReal'
  BY DEF SuccessIsReal, ToolRuns
<1> QED
  BY <1>1, <1>2, <1>3, <1>4, <1>5, <1>6, <1>7

\* The tool, whatever it does.
LEMMA KeepsTool == RunInv /\ Tool => RunInv'
<1> SUFFICES ASSUME RunInv, Tool PROVE RunInv'
  OBVIOUS
<1>1. CASE \E n \in Asked : Getenv(n)
  BY <1>1, KeepsGetenv
<1>2. CASE \E n \in Asked : GetenvDies(n)
  BY <1>2, KeepsEnd DEF GetenvDies, Failure
<1>3. CASE \E e \in Statuses : EndsWith("exited", e)
  BY <1>3, RunAssumption, KeepsEnd
<1>4. CASE \E s \in Signals : EndsWith("killed", s)
  BY <1>4, RunAssumption, KeepsEnd
<1> QED
  BY <1>1, <1>2, <1>3, <1>4 DEF Tool

\* Nothing happens.
LEMMA KeepsIdle == RunInv /\ UNCHANGED runVars => RunInv'
<1> SUFFICES ASSUME RunInv, UNCHANGED runVars PROVE RunInv'
  OBVIOUS
<1> USE DEF RunInv, runVars, start
<1>1. RunTypes'
  BY DEF RunTypes
<1>2. SelfKnown'
  BY DEF SelfKnown, SelfDir
<1>3. ToolFound'
  BY DEF ToolFound, SelfDir, Found
<1>4. LibrariesFound'
  BY DEF LibrariesFound, LibVersion, LibDir, DirOf, Found
<1>5. EnvironmentSet'
  BY DEF EnvironmentSet, Given, Chosen, Below
<1>6. ToolRuns'
  BY DEF ToolRuns
<1>7. SuccessIsReal'
  BY DEF SuccessIsReal
<1> QED
  BY <1>1, <1>2, <1>3, <1>4, <1>5, <1>6, <1>7

\* It holds at the start, before anything is known
LEMMA Starts == RunInit => RunInv
<1> SUFFICES ASSUME RunInit PROVE RunInv
  OBVIOUS
<1> USE DEF RunInit
<1>1. RunTypes
  <2>1. seen.exe = <<None, None>> /\ seen.lib = <<None, None>>
    OBVIOUS
  <2>2. <<None, None>> \in Look
    <3>1. None \in Texts
      BY DEF Texts
    <3> HIDE DEF RunInit
    <3> QED
      BY <3>1 DEF Look
  <2>3. DOMAIN env = Asked \cup Set
    OBVIOUS
  <2>4. child \in [state : States, end : Nat] /\ home \in Homes
    BY DEF States
  <2>5. seen = [exe |-> seen.exe, lib |-> seen.lib]
    BY <2>1
  <2> QED
    BY <2>1, <2>2, <2>3, <2>4, <2>5 DEF RunTypes, Steps
<1>2. heard.name \notin Set
  BY DEF Set
<1> QED
  BY <1>1, <1>2 DEF RunInv, SelfKnown, ToolFound, LibrariesFound, EnvironmentSet, Given, ToolRuns,
                    SuccessIsReal

\* and each step of the wrapper and of the tool keeps it.
LEMMA Keeps == RunInv /\ [RunNext]_runVars => RunInv'
<1> SUFFICES ASSUME RunInv, [RunNext]_runVars PROVE RunInv'
  OBVIOUS
<1>1. CASE Wrapper
  BY <1>1, KeepsTooFewArguments, KeepsFindSelf, KeepsSelfUnknown, KeepsByVersion, KeepsBySdk,
     KeepsByDefault, KeepsChooseLibraries, KeepsSetEnvironment, KeepsSpawn, KeepsSpawnFails, KeepsWait DEF Wrapper
<1>2. CASE Tool
  BY <1>2, KeepsTool
<1>3. CASE UNCHANGED runVars
  BY <1>3, KeepsIdle
<1> QED
  BY <1>1, <1>2, <1>3 DEF RunNext

\* All of it holds of every run, whatever is on the disk and when it changes.
THEOREM Invariance == RunSpec => []RunInv
  BY Starts, Keeps, PTL DEF RunSpec

-----------------------------------------------------------------------------
(* What it gives.                                                          *)

\* The types of the run are among those of the invariant.
LEMMA InvTypes == RunInv => RunTypeOK
<1> SUFFICES ASSUME RunInv PROVE RunTypeOK
  OBVIOUS
<1>1. /\ step \in Steps /\ seen.exe \in Look /\ seen.lib \in Look /\ child.state \in States
      /\ child.state # "none" => tool # <<>>
  BY DEF RunInv, RunTypes, ToolRuns
<1>2. ASSUME child.state # "none" PROVE env["MWLibraryFiles"] # Unset
  <2>1. "MWLibraryFiles" \in Set /\ Chosen["MWLibraryFiles"] = <<"files">>
    BY DEF Set, Chosen
  <2> QED
    BY <1>2, <2>1 DEF RunInv, EnvironmentSet, UserVal, Unset
<1> QED
  BY <1>1, <1>2 DEF RunTypeOK, Steps, States

\* The tool runs only once it has a name and an environment with the list of
\* library files (wrap.c:625-664).
THEOREM TypeCorrect == RunSpec => []RunTypeOK
  BY Invariance, InvTypes, PTL

\* The wrapper succeeds only if the tool ran to its end and succeeded
\* (wrap.c:694-701), but if SIGCHLD is ignored.
THEOREM SuccessReal == RunSpec => []SuccessIsReal
<1>1. RunInv => SuccessIsReal
  BY DEF RunInv
<1> QED
  BY <1>1, Invariance, PTL

\* Tuples and their elements.
LEMMA Tuples ==
  /\ \A a : <<a>>[1] = a
  /\ \A a, b : <<a, b>>[1] = a
  /\ \A a, b, c : <<a, b, c>>[1] = a /\ <<a, b, c>>[3] = c
  OBVIOUS

\* What is appended leaves what is there.
LEMMA AppendKeeps ==
  ASSUME NEW a, NEW b, NEW c, NEW d
  PROVE  Append(<<a, b, c>>, d)[1] = a /\ Append(<<a, b, c>>, d)[3] = c
<1>1. <<a, b, c>> \in Seq({a, b, c, d}) /\ Len(<<a, b, c>>) = 3
  OBVIOUS
<1> QED
  BY <1>1, AppendProperties, Tuples

\* The tool and the libraries are those the sdk names.
LEMMA InvSdk == RunInv => OfTheSdk
<1> SUFFICES ASSUME RunInv, child.state # "none", call.sdk # "" PROVE
      /\ call.ver = "" => tool[2][1] \in {seen.exe[1], seen.exe[2]} \ {None, ""}
      /\ call.lib = "" /\ libdir # <<>> => libdir[3] \in {seen.lib[1], seen.lib[2]} \ {None}
  BY DEF OfTheSdk
<1>1. ASSUME call.ver = "" PROVE tool[2][1] \in {seen.exe[1], seen.exe[2]} \ {None, ""}
  <2>1. tool[2] = <<Found(seen.exe)>> /\ Found(seen.exe) # None /\ tool[2] # <<"">>
    BY <1>1 DEF RunInv, ToolRuns, ToolFound
  <2>2. tool[2][1] = Found(seen.exe)
    BY <2>1, Tuples
  <2>3. Found(seen.exe) # ""
    BY <2>1
  <2> QED
    BY <2>1, <2>2, <2>3 DEF Found
<1>2. ASSUME call.lib = "", libdir # <<>> PROVE libdir[3] \in {seen.lib[1], seen.lib[2]} \ {None}
  <2> PICK t \in {1, 2} : libdir = <<LibDir, t, LibVersion(seen.lib)>>
    BY <1>2 DEF RunInv, LibrariesFound
  <2>1. libdir[3] = LibVersion(seen.lib) /\ LibVersion(seen.lib) # None
    BY <1>2, Tuples DEF RunInv, LibrariesFound
  <2>2. LibVersion(seen.lib) = Found(seen.lib)
    BY <1>2 DEF LibVersion
  <2> QED
    BY <2>1, <2>2 DEF Found
<1> QED
  BY <1>1, <1>2

\* The tool is beside the wrapper.
LEMMA InvBeside == RunInv => ToolBeside
<1> SUFFICES ASSUME RunInv, tool # <<>>, call.dir \/ home # "" PROVE tool[1] = SelfDir /\ tool[1] # ""
  BY DEF ToolBeside
<1>1. tool = <<SelfDir, tool[2]>>
  BY DEF RunInv, ToolFound
<1>2. tool[1] = SelfDir
  BY <1>1, Tuples
<1> QED
  BY <1>2 DEF SelfDir

\* What runs is the tool that was asked for, from where it has to be
\* (wrap.c:230, 528-534, 559-563).
THEOREM RightToolRuns == RunSpec => []RightTool
<1>1. RunInv => RightTool
  BY InvSdk, InvBeside DEF RightTool
<1> QED
  BY <1>1, Invariance, PTL

\* The directory of the libraries starts with the user's only if the user has set it.
LEMMA LibDirIsUsers == RunInv /\ libdir # <<>> => (libdir[1] = "user" <=> "SKREW_LIBDIR" \in user)
<1> SUFFICES ASSUME RunInv, libdir # <<>> PROVE libdir[1] = "user" <=> "SKREW_LIBDIR" \in user
  OBVIOUS
<1>1. libdir[1] = LibDir
  BY DEF RunInv, LibrariesFound
<1>2. self # "user"
  BY RunAssumption DEF RunInv, RunTypes, SelfKnown, SelfDir
<1> QED
  BY <1>1, <1>2 DEF LibDir, DirOf

\* What is chosen for a directory is below the libraries, of the version asked for.
LEMMA BelowLibraries ==
  ASSUME RunInv, NEW what, Below(what) # Unset
  PROVE  /\ Below(what)[1] = "user" <=> "SKREW_LIBDIR" \in user
         /\ call.lib # "" => Below(what)[3] = call.lib
<1>1. libdir # <<>> /\ Below(what) = Append(libdir, what)
  BY DEF Below
<1>2. PICK t \in {1, 2} : libdir = <<LibDir, t, LibVersion(seen.lib)>>
  BY <1>1 DEF RunInv, LibrariesFound
<1>3. Below(what)[1] = libdir[1] /\ Below(what)[3] = LibVersion(seen.lib)
  BY <1>1, <1>2, AppendKeeps, Tuples
<1> QED
  BY <1>1, <1>3, LibDirIsUsers DEF LibVersion

\* What the tool has heard is what was set or asked for.
LEMMA InvAsSet == RunInv => AsSet
<1> DEFINE n == heard.name
<1> SUFFICES ASSUME RunInv, n \in Set PROVE
      IF n \in user THEN heard.value = UserVal
      ELSE CASE n = "SKREW_HACK01"   -> (heard.value # Unset) = (call.hack # "")
             [] n = "MWLibraryFiles" -> heard.value # Unset
             [] OTHER -> heard.value # Unset =>
                  /\ call.lib # "" => heard.value[3] = call.lib
                  /\ heard.value[1] = "user" <=> "SKREW_LIBDIR" \in user
  BY DEF AsSet
<1>1. heard.value = IF n \in user THEN UserVal ELSE Chosen[n]
  BY DEF RunInv, ToolRuns, EnvironmentSet
<1>2. CASE n \in user
  BY <1>1, <1>2
<1>3. CASE n \notin user /\ n = "SKREW_HACK01"
  <2>1. Chosen["SKREW_HACK01"] = IF call.hack = "" THEN Unset ELSE <<"option">>
    BY DEF Chosen
  <2>2. heard.value = Chosen["SKREW_HACK01"]
    BY <1>1, <1>3
  <2>3. <<"option">> # Unset
    BY DEF Unset
  <2>4. heard.value # Unset <=> call.hack # ""
    BY <2>1, <2>2, <2>3
  <2> QED
    BY <1>3, <2>4
<1>4. CASE n \notin user /\ n = "MWLibraryFiles"
  <2>1. heard.value = <<"files">>
    BY <1>1, <1>4 DEF Chosen
  <2> QED
    BY <1>4, <2>1 DEF Unset
<1>5. CASE n \notin user /\ n \in {"MWCIncludes", "MWLibraries"}
  <2>1. Chosen["MWCIncludes"] = Below("Include") /\ Chosen["MWLibraries"] = Below("Lib")
    BY DEF Chosen
  <2>2. heard.value \in {Below("Include"), Below("Lib")}
    BY <1>1, <1>5, <2>1
  <2> QED
    BY <1>5, <2>2, BelowLibraries
<1> QED
  BY <1>2, <1>3, <1>4, <1>5 DEF Set

\* The tool hears what the user has set as the user has set it, and otherwise what
\* the options ask for (wrap.c:454-462, 676-679; env.c:10-48).
THEOREM EnvironmentAsSet == RunSpec => []AsSet
  BY Invariance, InvAsSet, PTL

-----------------------------------------------------------------------------
(* The command is read.                                                    *)

-----------------------------------------------------------------------------
(* The units of a command.                                                 *)

\* Strings, with those that the code has, which the provers do not know to be strings.
Text == STRING \cup TakesValue \cup Flags \cup {"-thumb", "-nothumb", "", "set"}

Looked == Valued \cup Flags \cup {"-proc", "-thumb", "-nothumb"}

\* One argument, of an option that takes a value only at the end; or an option with
\* its value, as UnitAssumption has it.
UnitOK(u, last) ==
  \/ \E a \in Text : u = <<a>> /\ (a \in TakesValue => last)
  \/ \E a \in TakesValue, b \in Text :
       u = <<a, b>> /\ (a = "-ipa" => b \notin Looked) /\ (a = "-proc" => b # "-ipa")

Shape(us) == us \in Seq(Seq(Text)) /\ \A k \in 1..Len(us) : UnitOK(us[k], k = Len(us))

\* ShortSequences sequences are tuples.
LEMMA ShortSequences ==
  ASSUME NEW S, NEW s \in Seq(S)
  PROVE  /\ Len(s) = 1 => s = <<s[1]>> /\ s[1] \in S
         /\ Len(s) = 2 => s = <<s[1], s[2]>> /\ s[1] \in S /\ s[2] \in S
<1>1. ASSUME Len(s) = 1 PROVE s = <<s[1]>> /\ s[1] \in S
  <2>1. s \in [1..1 -> S]
    BY <1>1, LenProperties
  <2>2. QED BY <2>1
<1>2. ASSUME Len(s) = 2 PROVE s = <<s[1], s[2]>> /\ s[1] \in S /\ s[2] \in S
  <2>1. s \in [1..2 -> S]
    BY <1>2, LenProperties
  <2>2. QED BY <2>1
<1>3. QED BY <1>1, <1>2

\* A unit of the constants has that form, whole or cut.
LEMMA UnitForm ==
  ASSUME NEW u \in Units
  PROVE  /\ u \in Seq(Text) /\ <<Head(u)>> \in Seq(Text)
         /\ UnitOK(u, FALSE) /\ UnitOK(u, TRUE) /\ UnitOK(<<Head(u)>>, TRUE)
<1>1. /\ u \in Seq(Text) /\ Len(u) = IF u[1] \in TakesValue THEN 2 ELSE 1
      /\ u[1] = "-ipa"  => u[2] \notin Looked
      /\ u[1] = "-proc" => u[2] # "-ipa"
  <2>1. u \in Seq(STRING)
    BY UnitAssumption
  <2>2. u \in Seq(Text)
    BY <2>1, SeqMonotonic DEF Text
  <2>3. QED BY <2>2, UnitAssumption DEF Looked
<1>2. CASE u[1] \in TakesValue
  <2>1. PICK a \in Text, b \in Text : u = <<a, b>> /\ a = u[1] /\ b = u[2]
    BY <1>1, <1>2, ShortSequences
  <2>2. a \in TakesValue /\ (a = "-ipa" => b \notin Looked) /\ (a = "-proc" => b # "-ipa")
    BY <1>1, <1>2, <2>1
  <2>3. Head(u) = a /\ <<a>> \in Seq(Text)
    <3>1. Head(<<a, b>>) = a
      OBVIOUS
    <3>2. <<a>> \in Seq(Text)
      <4>1. a \in Text
        BY <2>1
      <4>2. QED BY <4>1, Single
    <3>3. QED BY <2>1, <3>1, <3>2
  <2>4. UnitOK(u, FALSE) /\ UnitOK(u, TRUE)
    BY <2>1, <2>2, Zenon DEF UnitOK
  <2>5. UnitOK(<<a>>, TRUE)
    BY DEF UnitOK
  <2>6. QED BY <1>1, <2>3, <2>4, <2>5
<1>3. CASE u[1] \notin TakesValue
  <2>1. PICK a \in Text : u = <<a>> /\ a = u[1]
    BY <1>1, <1>3, ShortSequences
  <2>2. Head(u) = a /\ <<a>> \in Seq(Text) /\ a \notin TakesValue
    <3>1. Head(<<a>>) = a
      OBVIOUS
    <3>2. <<a>> \in Seq(Text)
      <4>1. a \in Text
        BY <2>1
      <4>2. QED BY <4>1, Single
    <3>3. QED BY <1>3, <2>1, <3>1, <3>2
  <2>3. UnitOK(u, FALSE) /\ UnitOK(u, TRUE) /\ UnitOK(<<a>>, TRUE)
    BY <2>1, <2>2, Zenon DEF UnitOK
  <2>4. QED BY <1>1, <2>2, <2>3
<1>4. QED BY <1>2, <1>3

\* So have all the us of a command.
LEMMA InitShape == ArgsInit => Shape(units)
<1> SUFFICES ASSUME ArgsInit PROVE Shape(units)
  OBVIOUS
<1>1. PICK n \in 0..MaxUnits, cut \in BOOLEAN :
        \E u \in [1..n -> Units] :
          units = IF cut /\ n > 0 THEN [u EXCEPT ![n] = <<Head(@)>>] ELSE u
  BY Zenon DEF ArgsInit
<1>2. PICK u \in [1..n -> Units] :
        units = IF cut /\ n > 0 THEN [u EXCEPT ![n] = <<Head(@)>>] ELSE u
  BY <1>1, Zenon
<1>3. n \in Nat
  BY <1>1, UnitAssumption
<1>4. \A k \in 1..n : units[k] \in Seq(Text) /\ UnitOK(units[k], k = n)
  <2> TAKE k \in 1..n
  <2>1. u[k] \in Units
    BY <1>2
  <2>2. PICK v \in Units : v = u[k]
    BY <2>1
  <2>3. units[k] = IF cut /\ k = n THEN <<Head(v)>> ELSE v
    BY <1>2, <1>3, <2>2
  <2>4. /\ v \in Seq(Text) /\ <<Head(v)>> \in Seq(Text)
        /\ UnitOK(v, FALSE) /\ UnitOK(v, TRUE) /\ UnitOK(<<Head(v)>>, TRUE)
    BY UnitForm
  <2>5. CASE k = n
    <3>1. (k = n) = TRUE
      BY <2>5
    <3>2. QED BY <2>3, <2>4, <2>5, <3>1
  <2>6. CASE k # n
    <3>1. (k = n) = FALSE /\ units[k] = v
      BY <2>3, <2>6
    <3>2. QED BY <2>4, <3>1
  <2>7. QED BY <2>5, <2>6
<1>5. DOMAIN units = 1..n /\ units = [k \in 1..n |-> units[k]]
  BY <1>2, <1>3
<1>6. units \in [1..n -> Seq(Text)]
  BY <1>4, <1>5
<1>7. units \in Seq(Seq(Text)) /\ Len(units) = n
  BY <1>3, <1>6
<1>8. QED BY <1>4, <1>7 DEF Shape

\* The arguments that parse_args leaves in, unit by unit.
NonOwn(us) == [k \in 1..Len(us) |-> IF Own(us[k]) THEN <<>> ELSE us[k]]

\* Those that remain: with -wrap:noipa without -ipa.
Stays(us, u) == ~Own(u) /\ ~((\E k \in DOMAIN us : us[k][1] = "-wrap:noipa") /\ u[1] = "-ipa" /\ Whole(u))
Staying(us) == [k \in 1..Len(us) |-> IF Stays(us, us[k]) THEN us[k] ELSE <<>>]

\* What is left is what the specification of the arguments calls Remaining.
LEMMA StayingIs == Staying(units) = Remaining
  BY Zenon DEF Staying, Stays, Remaining, Remains, NoIpa

\* The two families that the units are sorted into, unit by unit.
LEMMA Families ==
  ASSUME NEW us, Shape(us)
  PROVE  /\ Len(us) \in Nat
         /\ NonOwn(us) \in Seq(Seq(Text)) /\ Len(NonOwn(us)) = Len(us)
         /\ Staying(us) \in Seq(Seq(Text)) /\ Len(Staying(us)) = Len(us)
         /\ \A k \in 1..Len(us) : /\ NonOwn(us)[k] = IF Own(us[k]) THEN <<>> ELSE us[k]
                                  /\ Staying(us)[k] = IF Stays(us, us[k]) THEN us[k] ELSE <<>>
<1>1. PICK n \in Nat : n = Len(us)
  BY LenProperties DEF Shape
<1>2. \A k \in 1..n : us[k] \in Seq(Text)
  BY <1>1, ElementOfSeq DEF Shape
<1>3. <<>> \in Seq(Text)
  BY EmptySeq
<1>4. NonOwn(us) \in [1..n -> Seq(Text)] /\ Staying(us) \in [1..n -> Seq(Text)]
  BY <1>1, <1>2, <1>3 DEF NonOwn, Staying
<1>5. /\ NonOwn(us) \in Seq(Seq(Text)) /\ Len(NonOwn(us)) = n
      /\ Staying(us) \in Seq(Seq(Text)) /\ Len(Staying(us)) = n
  BY <1>4
<1>6. \A k \in 1..Len(us) : /\ NonOwn(us)[k] = IF Own(us[k]) THEN <<>> ELSE us[k]
                            /\ Staying(us)[k] = IF Stays(us, us[k]) THEN us[k] ELSE <<>>
  BY Zenon DEF NonOwn, Staying
<1>7. QED BY <1>1, <1>5, <1>6

\* A unit, as it stands in the command.
LEMMA UnitParts ==
  ASSUME NEW us, Shape(us), NEW k \in 1..Len(us)
  PROVE  /\ us[k] \in Seq(Text) /\ us[k] # <<>>
         /\ Beyond(us, k - 1) = us[k] \o Beyond(us, k)
         /\ Beyond(us, k) \in Seq(Text)
         /\ k = Len(us) => Beyond(us, k) = <<>>
         /\ Beyond(us, k - 1) # <<>>
<1>1. PICK n \in Nat : n = Len(us)
  BY LenProperties DEF Shape
<1>2. n = Len(us) /\ k \in 1..n
  BY <1>1
<1>3. Beyond(us, k - 1) = us[k] \o Beyond(us, k)
  BY <1>1, <1>2, UpToStep DEF Shape
<1>4. Beyond(us, k) \in Seq(Text) /\ Beyond(us, n) = <<>>
  <2>1. k \in 0..n
    BY <1>2
  <2>2. QED BY <1>1, <2>1, UpToFacts DEF Shape
<1>5. us[k] \in Seq(Text)
  BY <1>1, <1>2, ElementOfSeq DEF Shape
<1>6. us[k] # <<>>
  <2>1. UnitOK(us[k], k = Len(us))
    BY DEF Shape
  <2>2. QED BY <2>1 DEF UnitOK
<1>7. Beyond(us, k - 1) # <<>>
  BY <1>3, <1>4, <1>5, <1>6, ConcatEqualIffEmpty
<1>8. QED BY <1>2, <1>3, <1>4, <1>5, <1>6, <1>7

-----------------------------------------------------------------------------
(* What the options say, up to a unit.                                     *)

\* x is what the last of the positions in T says, of those up to k.
LastSays(T, k, x, none, val) ==
  /\ (\A j \in T : j > k) => x = none
  /\ \A j \in T : j <= k /\ (\A l \in T : l <= k => l <= j) => x = val[j]

\* One further unit, that says nothing or something.
LEMMA LastSaysStep ==
  \A n \in Nat : \A k \in 1..n : \A T \in SUBSET (1..n) : \A x, none, val, y :
    /\ LastSays(T, k - 1, x, none, val)
    /\ y = IF k \in T THEN val[k] ELSE x
    => LastSays(T, k, y, none, val)
<1> SUFFICES ASSUME NEW n \in Nat, NEW k \in 1..n, NEW T \in SUBSET (1..n), NEW x, NEW none,
                    NEW val, NEW y, LastSays(T, k - 1, x, none, val),
                    y = IF k \in T THEN val[k] ELSE x
             PROVE  LastSays(T, k, y, none, val)
  BY Zenon
<1>1. CASE k \in T
  <2>1. ~(\A j \in T : j > k)
    BY <1>1
  <2>2. \A j \in T : j <= k /\ (\A l \in T : l <= k => l <= j) => j = k
    BY <1>1
  <2>3. QED BY <1>1, <2>1, <2>2 DEF LastSays
<1>2. CASE k \notin T
  <2>1. \A j \in T : (j <= k <=> j <= k - 1) /\ (j > k <=> j > k - 1)
    BY <1>2
  <2>2. QED BY <1>2, <2>1 DEF LastSays
<1>3. QED BY <1>1, <1>2

\* At the end it is the last of them all.
LEMMA LastSaysAll ==
  \A n \in Nat : \A T \in SUBSET (1..n) : \A x, none, val :
    LastSays(T, n, x, none, val) => x = IF T = {} THEN none ELSE val[Max(T)]
<1> SUFFICES ASSUME NEW n \in Nat, NEW T \in SUBSET (1..n), NEW x, NEW none, NEW val,
                    LastSays(T, n, x, none, val)
             PROVE  x = IF T = {} THEN none ELSE val[Max(T)]
  BY Zenon
<1>1. CASE T = {}
  BY <1>1 DEF LastSays
<1>2. CASE T # {}
  <2>1. PICK m : m = Max(T)
    OBVIOUS
  <2>2. m \in T /\ \A k \in T : k <= m
    BY <1>2, <2>1, LastOne
  <2>3. m <= n
    BY <2>2
  <2>4. QED BY <1>2, <2>1, <2>2, <2>3 DEF LastSays
<1>3. QED BY <1>1, <1>2

\* The us that say something, and what they say.
ValuesOf(us, o) == {j \in 1..Len(us) : us[j][1] = o /\ Whole(us[j])}
NoIpas(us)      == {j \in 1..Len(us) : us[j][1] = "-wrap:noipa"}
Procs(us)       == {j \in 1..Len(us) : us[j][1] = "-proc" /\ Whole(us[j]) /\ us[j][2] \in V4 \cup V5}
Thumbs(us)      == {j \in 1..Len(us) : us[j][1] \in {"-thumb", "-nothumb"}}

Second(us) == [j \in 1..Len(us) |-> us[j][2]]
IsSet(us)  == [j \in 1..Len(us) |-> "set"]
ArchOf(us) == [j \in 1..Len(us) |-> IF us[j][2] \in V4 THEN "v4" ELSE "v5"]
IsOn(us)   == [j \in 1..Len(us) |-> us[j][1] = "-thumb"]

\* The options as the first k units have them.
ReadTo(us, k, o, a, t) ==
  /\ \A v \in Valued : LastSays(ValuesOf(us, v), k, o[v], "", Second(us))
  /\ LastSays(NoIpas(us), k, o["-wrap:noipa"], "", IsSet(us))
  /\ LastSays(Procs(us), k, a, "v5", ArchOf(us))
  /\ LastSays(Thumbs(us), k, t, FALSE, IsOn(us))

\* What a unit does to them.
ReadUnit(u, o, a, t, o2, a2, t2) ==
  /\ \A v \in Valued : o2[v] = IF u[1] = v /\ Whole(u) THEN u[2] ELSE o[v]
  /\ o2["-wrap:noipa"] = IF u[1] = "-wrap:noipa" THEN "set" ELSE o["-wrap:noipa"]
  /\ a2 = IF u[1] = "-proc" /\ Whole(u) /\ u[2] \in V4 \cup V5
           THEN IF u[2] \in V4 THEN "v4" ELSE "v5" ELSE a
  /\ t2 = IF u[1] \in {"-thumb", "-nothumb"} THEN u[1] = "-thumb" ELSE t

\* What has been read of k - 1 units and the k-th is what has been read of k.
LEMMA ReadStep ==
  ASSUME NEW us, Len(us) \in Nat, NEW k \in 1..Len(us), NEW o, NEW a, NEW t, NEW o2, NEW a2, NEW t2,
         ReadTo(us, k - 1, o, a, t), ReadUnit(us[k], o, a, t, o2, a2, t2)
  PROVE  ReadTo(us, k, o2, a2, t2)
<1>1. \A v \in Valued : LastSays(ValuesOf(us, v), k, o2[v], "", Second(us))
  <2> TAKE v \in Valued
  <2>1. LastSays(ValuesOf(us, v), k - 1, o[v], "", Second(us))
    BY DEF ReadTo
  <2>2. o2[v] = IF k \in ValuesOf(us, v) THEN Second(us)[k] ELSE o[v]
    BY DEF ReadUnit, ValuesOf, Second
  <2>3. ValuesOf(us, v) \in SUBSET (1..Len(us))
    BY DEF ValuesOf
  <2>4. QED BY <2>1, <2>2, <2>3, LastSaysStep
<1>2. LastSays(NoIpas(us), k, o2["-wrap:noipa"], "", IsSet(us))
  <2>1. LastSays(NoIpas(us), k - 1, o["-wrap:noipa"], "", IsSet(us))
    BY DEF ReadTo
  <2>2. o2["-wrap:noipa"] = IF k \in NoIpas(us) THEN IsSet(us)[k] ELSE o["-wrap:noipa"]
    BY DEF ReadUnit, NoIpas, IsSet
  <2>3. NoIpas(us) \in SUBSET (1..Len(us))
    BY DEF NoIpas
  <2>4. QED BY <2>1, <2>2, <2>3, LastSaysStep
<1>3. LastSays(Procs(us), k, a2, "v5", ArchOf(us))
  <2>1. LastSays(Procs(us), k - 1, a, "v5", ArchOf(us))
    BY DEF ReadTo
  <2>2. a2 = IF k \in Procs(us) THEN ArchOf(us)[k] ELSE a
    BY DEF ReadUnit, Procs, ArchOf
  <2>3. Procs(us) \in SUBSET (1..Len(us))
    BY DEF Procs
  <2>4. QED BY <2>1, <2>2, <2>3, LastSaysStep
<1>4. LastSays(Thumbs(us), k, t2, FALSE, IsOn(us))
  <2>1. LastSays(Thumbs(us), k - 1, t, FALSE, IsOn(us))
    BY DEF ReadTo
  <2>2. t2 = IF k \in Thumbs(us) THEN IsOn(us)[k] ELSE t
    BY DEF ReadUnit, Thumbs, IsOn
  <2>3. Thumbs(us) \in SUBSET (1..Len(us))
    BY DEF Thumbs
  <2>4. QED BY <2>1, <2>2, <2>3, LastSaysStep
<1>5. QED BY <1>1, <1>2, <1>3, <1>4 DEF ReadTo

-----------------------------------------------------------------------------
(* The inductive invariant.                                                *)

\* parse_args between two units, and behind the -ipa of one: it does not know that
\* what follows belongs to it.
AtUnit(us, k, l, kp) == l = Beyond(us, k) /\ kp = UpTo(NonOwn(us), k)
InUnit(us, k, l, kp) ==
  /\ k # 0 /\ Len(us[k]) = 2 /\ us[k] = <<"-ipa", us[k][2]>> /\ us[k][2] \in Text \ Looked
  /\ l = Cons(us[k][2], Beyond(us, k)) /\ kp = UpTo(NonOwn(us), k - 1) \o <<"-ipa">>

ParseTo(us, k, l, kp, o, a, t) ==
  ReadTo(us, k, o, a, t) /\ (AtUnit(us, k, l, kp) \/ InUnit(us, k, l, kp))

\* remove_ipa_arguments between two units, and behind the -proc of one.
AtKept(us, k, kp, j) == kp = UpTo(Staying(us), k) \o Beyond(NonOwn(us), k) /\ j = Len(UpTo(Staying(us), k)) + 1
InKept(us, k, kp, j) ==
  /\ k # 0 /\ Len(us[k]) = 2 /\ us[k] = <<"-proc", us[k][2]>> /\ us[k][2] \in Text /\ us[k][2] # "-ipa"
  /\ kp = UpTo(Staying(us), k) \o Beyond(NonOwn(us), k) /\ j = Len(UpTo(Staying(us), k))

RemoveTo(us, k, kp, j) == AtKept(us, k, kp, j) \/ InKept(us, k, kp, j)

AskedNoIpa(us) == \E k \in DOMAIN us : us[k][1] = "-wrap:noipa"

Parsing == phase = "parse" => i = 1 /\ \E k \in 0..Len(units) : ParseTo(units, k, left, kept, opts, arch, thumb)

Removing ==
  phase = "ipa" =>
    /\ left = <<>> /\ AskedNoIpa(units)
    /\ ReadTo(units, Len(units), opts, arch, thumb)
    /\ \E k \in 0..Len(units) : RemoveTo(units, k, kept, i)

Finished ==
  phase = "done" =>
    /\ left = <<>> /\ i \in 1..(Len(kept) + 1)
    /\ ReadTo(units, Len(units), opts, arch, thumb)
    /\ kept = FlattenSeq(Staying(units))

ArgsTypes ==
  /\ phase \in {"parse", "ipa", "done"} /\ arch \in {"v4", "v5"} /\ thumb \in BOOLEAN
  /\ opts \in [Valued \cup Flags -> Text]
  /\ kept \in Seq(Text) /\ left \in Seq(Text)
  /\ Len(kept) + Len(left) <= Len(FlattenSeq(units))

ArgsInv == Shape(units) /\ ArgsTypes /\ Parsing /\ Removing /\ Finished

\* What the families are, up to a unit.
LEMMA FamilyParts ==
  ASSUME NEW us, Shape(us), NEW k \in 0..Len(us)
  PROVE  /\ UpTo(NonOwn(us), k) \in Seq(Text) /\ Beyond(NonOwn(us), k) \in Seq(Text)
         /\ UpTo(Staying(us), k) \in Seq(Text) /\ Beyond(Staying(us), k) \in Seq(Text)
         /\ Beyond(us, k) \in Seq(Text)
         /\ FlattenSeq(us) \in Seq(Text)
<1>1. PICK n \in Nat : n = Len(us)
  BY Families
<1>2. k \in 0..n
  BY <1>1
<1>3. /\ NonOwn(us) \in Seq(Seq(Text)) /\ n = Len(NonOwn(us))
      /\ Staying(us) \in Seq(Seq(Text)) /\ n = Len(Staying(us)) /\ us \in Seq(Seq(Text))
  BY <1>1, Families DEF Shape
<1>4. UpTo(NonOwn(us), k) \in Seq(Text) /\ Beyond(NonOwn(us), k) \in Seq(Text)
  BY <1>2, <1>3, UpToFacts
<1>5. UpTo(Staying(us), k) \in Seq(Text) /\ Beyond(Staying(us), k) \in Seq(Text)
  BY <1>2, <1>3, UpToFacts
<1>6. Beyond(us, k) \in Seq(Text)
  BY <1>1, <1>2, <1>3, UpToFacts
<1>7. FlattenSeq(us) \in Seq(Text)
  BY <1>3, FlattenType
<1>8. QED BY <1>4, <1>5, <1>6, <1>7

\* One unit further.
LEMMA FamilyStep ==
  ASSUME NEW us, Shape(us), NEW k \in 1..Len(us)
  PROVE  /\ UpTo(NonOwn(us), k) = UpTo(NonOwn(us), k - 1) \o NonOwn(us)[k]
         /\ Beyond(NonOwn(us), k - 1) = NonOwn(us)[k] \o Beyond(NonOwn(us), k)
         /\ UpTo(Staying(us), k) = UpTo(Staying(us), k - 1) \o Staying(us)[k]
<1>1. PICK n \in Nat : n = Len(us)
  BY Families
<1>2. k \in 1..n
  BY <1>1
<1>3. /\ NonOwn(us) \in Seq(Seq(Text)) /\ n = Len(NonOwn(us))
      /\ Staying(us) \in Seq(Seq(Text)) /\ n = Len(Staying(us))
  BY <1>1, Families
<1>4. /\ UpTo(NonOwn(us), k) = UpTo(NonOwn(us), k - 1) \o NonOwn(us)[k]
      /\ Beyond(NonOwn(us), k - 1) = NonOwn(us)[k] \o Beyond(NonOwn(us), k)
  BY <1>2, <1>3, UpToStep
<1>5. UpTo(Staying(us), k) = UpTo(Staying(us), k - 1) \o Staying(us)[k]
  BY <1>2, <1>3, UpToStep
<1>6. QED BY <1>4, <1>5

\* A unit that is left out, and one that is kept.
LEMMA FamilySame ==
  ASSUME NEW us, Shape(us), NEW k \in 1..Len(us)
  PROVE  /\ Own(us[k]) => /\ UpTo(NonOwn(us), k) = UpTo(NonOwn(us), k - 1)
                          /\ Beyond(NonOwn(us), k - 1) = Beyond(NonOwn(us), k)
         /\ ~Own(us[k]) => /\ UpTo(NonOwn(us), k) = UpTo(NonOwn(us), k - 1) \o us[k]
                           /\ Beyond(NonOwn(us), k - 1) = us[k] \o Beyond(NonOwn(us), k)
         /\ ~Stays(us, us[k]) => UpTo(Staying(us), k) = UpTo(Staying(us), k - 1)
         /\ Stays(us, us[k]) => UpTo(Staying(us), k) = UpTo(Staying(us), k - 1) \o us[k]
<1>1. /\ UpTo(NonOwn(us), k) = UpTo(NonOwn(us), k - 1) \o NonOwn(us)[k]
      /\ Beyond(NonOwn(us), k - 1) = NonOwn(us)[k] \o Beyond(NonOwn(us), k)
      /\ UpTo(Staying(us), k) = UpTo(Staying(us), k - 1) \o Staying(us)[k]
  BY FamilyStep
<1>2. /\ NonOwn(us)[k] = IF Own(us[k]) THEN <<>> ELSE us[k]
      /\ Staying(us)[k] = IF Stays(us, us[k]) THEN us[k] ELSE <<>>
  BY Families
<1>3. Len(us) \in Nat
  BY Families
<1>4. k \in 0..Len(us) /\ k - 1 \in 0..Len(us)
  BY <1>3
<1>5. /\ UpTo(NonOwn(us), k - 1) \in Seq(Text) /\ Beyond(NonOwn(us), k) \in Seq(Text)
      /\ UpTo(Staying(us), k - 1) \in Seq(Text)
  BY <1>4, FamilyParts
<1>6. /\ UpTo(NonOwn(us), k - 1) \o <<>> = UpTo(NonOwn(us), k - 1)
      /\ <<>> \o Beyond(NonOwn(us), k) = Beyond(NonOwn(us), k)
      /\ UpTo(Staying(us), k - 1) \o <<>> = UpTo(Staying(us), k - 1)
  BY <1>5, ConcatEmptySeq
<1>7. QED BY <1>1, <1>2, <1>6, Zenon

-----------------------------------------------------------------------------
(* parse_args.                                                             *)

\* What is left begins with the next unit.
NextUnit(us, k, l, u, r) ==
  /\ k \in 1..Len(us) /\ u = us[k] /\ r = Beyond(us, k) /\ r \in Seq(Text)
  /\ \/ \E a \in Text : /\ u = <<a>> /\ (a \in TakesValue => r = <<>>)
                           /\ Begins(Text, l, a, r)
     \/ \E a \in TakesValue, b \in Text :
          /\ u = <<a, b>> /\ (a = "-ipa" => b \notin Looked) /\ (a = "-proc" => b # "-ipa")
          /\ BeginsTwo(Text, l, a, b, r)

\* While words are left they begin with the next unit.
LEMMA UnitComes ==
  ASSUME NEW us, Shape(us), NEW k \in 0..Len(us), Beyond(us, k) # <<>>
  PROVE  NextUnit(us, k + 1, Beyond(us, k), us[k + 1], Beyond(us, k + 1))
<1>1. PICK n \in Nat : n = Len(us)
  BY Families
<1>2. Beyond(us, n) = <<>>
  BY <1>1, UpToFacts DEF Shape
<1>3. k # n
  BY <1>2
<1>4. PICK m \in 1..Len(us) : m = k + 1 /\ k = m - 1
  BY <1>1, <1>3
<1>5. PICK u : u = us[m]
  OBVIOUS
<1>6. PICK r : r = Beyond(us, m)
  OBVIOUS
<1>7. r \in Seq(Text) /\ (m = Len(us) => r = <<>>) /\ Beyond(us, k) = u \o r
  BY <1>4, <1>5, <1>6, UnitParts
<1>8. UnitOK(u, m = Len(us))
  BY <1>5 DEF Shape
<1>9. CASE \E a \in Text : u = <<a>> /\ (a \in TakesValue => m = Len(us))
  <2>1. PICK a \in Text : u = <<a>> /\ (a \in TakesValue => m = Len(us))
    BY <1>9
  <2>2. Beyond(us, k) = Cons(a, r)
    BY <1>7, <2>1 DEF Cons
  <2>3. Begins(Text, Cons(a, r), a, r)
    BY <1>7, <2>1, OneInFront
  <2>4. QED BY <1>4, <1>5, <1>6, <1>7, <2>1, <2>2, <2>3, Zenon DEF NextUnit
<1>10. CASE \E a \in TakesValue, b \in Text :
              u = <<a, b>> /\ (a = "-ipa" => b \notin Looked) /\ (a = "-proc" => b # "-ipa")
  <2>1. PICK a \in TakesValue, b \in Text :
          u = <<a, b>> /\ (a = "-ipa" => b \notin Looked) /\ (a = "-proc" => b # "-ipa")
    BY <1>10
  <2>2. a \in Text /\ b \in Text
    <3>1. TakesValue \subseteq Text
      BY DEF Text
    <3>2. a \in TakesValue /\ b \in Text
      BY <2>1, Zenon
    <3>3. QED BY <3>1, <3>2
  <2>3. BeginsTwo(Text, <<a, b>> \o r, a, b, r)
    BY <1>7, <2>2, TwoInFront
  <2>4. Beyond(us, k) = <<a, b>> \o r
    BY <1>7, <2>1
  <2>5. BeginsTwo(Text, Beyond(us, k), a, b, r)
    BY <2>3, <2>4
  <2>6. QED BY <1>4, <1>5, <1>6, <1>7, <2>1, <2>5, Zenon DEF NextUnit
<1>11. QED BY <1>8, <1>9, <1>10 DEF UnitOK

\* Where parse_args is when something is left, with names for it.
LEMMA ParseCases ==
  ASSUME ArgsInv, phase = "parse", left # <<>>
  PROVE  \/ \E k \in 1..Len(units) : \E u, r :
               /\ ReadTo(units, k - 1, opts, arch, thumb)
               /\ kept = UpTo(NonOwn(units), k - 1) /\ NextUnit(units, k, left, u, r)
         \/ \E k \in 1..Len(units), b \in Text \ Looked :
               /\ ReadTo(units, k, opts, arch, thumb)
               /\ units[k] = <<"-ipa", b>> /\ Begins(Text, left, b, Beyond(units, k))
               /\ kept = UpTo(NonOwn(units), k - 1) \o <<"-ipa">>
<1>1. Shape(units) /\ Len(units) \in Nat
  BY Families DEF ArgsInv
<1>2. PICK k \in 0..Len(units) : ParseTo(units, k, left, kept, opts, arch, thumb)
  BY DEF ArgsInv, Parsing
<1>3. CASE AtUnit(units, k, left, kept)
  <2>1. Beyond(units, k) # <<>> /\ left = Beyond(units, k) /\ kept = UpTo(NonOwn(units), k)
    BY <1>3 DEF AtUnit
  <2>2. NextUnit(units, k + 1, left, units[k + 1], Beyond(units, k + 1))
    BY <1>1, <2>1, UnitComes
  <2>3. PICK m \in 1..Len(units) : m = k + 1 /\ k = m - 1
    BY <1>1, <2>2 DEF NextUnit
  <2>4. ReadTo(units, k, opts, arch, thumb)
    BY <1>2 DEF ParseTo
  <2>5. QED BY <2>1, <2>2, <2>3, <2>4, Zenon
<1>4. CASE InUnit(units, k, left, kept)
  <2>1. /\ k # 0 /\ units[k] = <<"-ipa", units[k][2]>> /\ units[k][2] \in Text \ Looked
        /\ left = Cons(units[k][2], Beyond(units, k)) /\ kept = UpTo(NonOwn(units), k - 1) \o <<"-ipa">>
    BY <1>4, Zenon DEF InUnit
  <2>2. PICK b \in Text \ Looked : b = units[k][2]
    BY <2>1, Zenon
  <2>3. Beyond(units, k) \in Seq(Text)
    BY <1>1, FamilyParts
  <2>4. b \in Text
    BY <2>2
  <2>5. Begins(Text, left, b, Beyond(units, k))
    BY <2>1, <2>2, <2>3, <2>4, OneInFront
  <2>6. k \in 1..Len(units)
    BY <1>1, <2>1
  <2>7. ReadTo(units, k, opts, arch, thumb)
    BY <1>2 DEF ParseTo
  <2>8. QED BY <2>1, <2>2, <2>5, <2>6, <2>7, Zenon
<1>5. QED BY <1>2, <1>3, <1>4 DEF ParseTo
\* What is kept grows by one argument, or by two.
Grows(a, b, n) == b \in Seq(Text) /\ Len(b) = Len(a) + n
\* One word is kept, or two.
LEMMA KeptGrows ==
  \A l \in Seq(Text) : \A a, b \in Text : Grows(l, l \o <<a>>, 1) /\ Grows(l, l \o <<a, b>>, 2)
<1> SUFFICES ASSUME NEW l \in Seq(Text), NEW a \in Text, NEW b \in Text
             PROVE  Grows(l, l \o <<a>>, 1) /\ Grows(l, l \o <<a, b>>, 2)
  OBVIOUS
<1>1. PICK p \in Seq(Text) : p = <<a>>
  BY Single
<1>2. PICK q \in Seq(Text) : q = <<a, b>>
  <2>1. <<a, b>> \in Seq(Text)
    OBVIOUS
  <2>2. QED BY <2>1
<1>3. Len(p) = 1 /\ Len(q) = 2
  BY <1>1, <1>2
<1>4. l \o p \in Seq(Text) /\ Len(l \o p) = Len(l) + 1
  BY <1>1, <1>3, ConcatProperties
<1>5. l \o q \in Seq(Text) /\ Len(l \o q) = Len(l) + 2
  BY <1>2, <1>3, ConcatProperties
<1>6. QED BY <1>1, <1>2, <1>4, <1>5 DEF Grows

\* What is left after one unit, or one argument.
LEMMA LeftShrinks ==
  \A l, a, r :
    /\ Begins(Text, l, a, r) => /\ l # <<>> /\ l[1] = a /\ Len(l) = Len(r) + 1
                                /\ SubSeq(l, 1, 1) = <<a>> /\ SubSeq(l, 2, Len(l)) = r
    /\ \A b : BeginsTwo(Text, l, a, b, r) =>
         /\ l # <<>> /\ l[1] = a /\ l[2] = b /\ Len(l) = Len(r) + 2
         /\ SubSeq(l, 1, 1) = <<a>> /\ SubSeq(l, 2, Len(l)) = Cons(b, r)
         /\ SubSeq(l, 1, 2) = <<a, b>> /\ SubSeq(l, 3, Len(l)) = r
<1> TAKE l, a, r
<1>1. Begins(Text, l, a, r) => /\ l # <<>> /\ l[1] = a /\ Len(l) = Len(r) + 1
                              /\ SubSeq(l, 1, 1) = <<a>> /\ SubSeq(l, 2, Len(l)) = r
  BY DEF Begins
<1>2. \A b : BeginsTwo(Text, l, a, b, r) =>
        /\ l # <<>> /\ l[1] = a /\ l[2] = b /\ Len(l) = Len(r) + 2
        /\ SubSeq(l, 1, 1) = <<a>> /\ SubSeq(l, 2, Len(l)) = Cons(b, r)
        /\ SubSeq(l, 1, 2) = <<a, b>> /\ SubSeq(l, 3, Len(l)) = r
  BY DEF Begins, BeginsTwo
<1>3. QED BY <1>1, <1>2

\* It is enough to know where parse_args is then.
LEMMA ParseGoesOn ==
  ASSUME ArgsInv, phase = "parse", UNCHANGED <<units, i, phase>>,
         arch' \in {"v4", "v5"}, thumb' \in BOOLEAN, opts' \in [Valued \cup Flags -> Text],
         kept' \in Seq(Text), left' \in Seq(Text), Len(kept') + Len(left') <= Len(kept) + Len(left),
         NEW k \in 0..Len(units), ParseTo(units, k, left', kept', opts', arch', thumb')
  PROVE  ArgsInv'
<1>1. Shape(units)' /\ Removing' /\ Finished'
  BY DEF ArgsInv, Removing, Finished
<1>2. Parsing'
  BY DEF ArgsInv, Parsing
<1>3. FlattenSeq(units) \in Seq(Text)
  BY FamilyParts DEF ArgsInv
<1>4. ArgsTypes'
  <2>1. Len(FlattenSeq(units)) \in Nat /\ Len(kept) \in Nat /\ Len(left) \in Nat
    BY <1>3, LenProperties DEF ArgsInv, ArgsTypes
  <2>2. Len(kept') \in Nat /\ Len(left') \in Nat
    BY LenProperties
  <2>3. FlattenSeq(units)' = FlattenSeq(units)
    OBVIOUS
  <2>4. Len(kept) + Len(left) <= Len(FlattenSeq(units))
    BY DEF ArgsInv, ArgsTypes
  <2>5. (Len(kept) + Len(left) <= Len(FlattenSeq(units)))'
    BY <2>1, <2>2, <2>3, <2>4
  <2>6. phase' = "parse"
    OBVIOUS
  <2>7. QED BY <2>5, <2>6 DEF ArgsTypes
<1>5. QED BY <1>1, <1>2, <1>4 DEF ArgsInv

\* An option that stays, with its value or without one, is behind what is kept.
LEMMA UnitStays ==
  ASSUME ArgsInv, phase = "parse", UNCHANGED <<units, i, phase>>,
         arch' \in {"v4", "v5"}, thumb' \in BOOLEAN, opts' \in [Valued \cup Flags -> Text],
         NEW k \in 1..Len(units), NEW u, NEW r, NextUnit(units, k, left, u, r),
         ReadTo(units, k - 1, opts, arch, thumb), kept = UpTo(NonOwn(units), k - 1),
         ReadUnit(u, opts, arch, thumb, opts', arch', thumb'),
         ~Own(u), kept' = kept \o u, left' = r
  PROVE  ArgsInv'
<1>1. Shape(units) /\ Len(units) \in Nat
  BY Families DEF ArgsInv
<1>2. u = units[k] /\ r = Beyond(units, k) /\ r \in Seq(Text)
  BY DEF NextUnit
<1>3. ReadTo(units, k, opts', arch', thumb')
  BY <1>1, <1>2, ReadStep
<1>4. kept' = UpTo(NonOwn(units), k)
  BY <1>1, <1>2, FamilySame
<1>5. ParseTo(units, k, left', kept', opts', arch', thumb')
  BY <1>2, <1>3, <1>4 DEF ParseTo, AtUnit
<1>6. kept \in Seq(Text) /\ Len(kept) \in Nat /\ Len(r) \in Nat
  BY <1>2, LenProperties DEF ArgsInv, ArgsTypes
<1>7. kept' \in Seq(Text) /\ Len(kept') + Len(r) <= Len(kept) + Len(left)
  <2>1. CASE \E a \in Text : u = <<a>> /\ Begins(Text, left, a, r)
    <3>1. PICK a \in Text : u = <<a>> /\ Begins(Text, left, a, r)
      BY <2>1
    <3>2. Grows(kept, kept', 1)
      BY <1>6, <3>1, KeptGrows
    <3>3. Len(left) = Len(r) + 1
      BY <3>1, LeftShrinks
    <3>4. QED BY <1>6, <3>2, <3>3 DEF Grows
  <2>2. CASE \E a \in TakesValue, b \in Text : u = <<a, b>> /\ BeginsTwo(Text, left, a, b, r)
    <3>1. PICK a \in TakesValue, b \in Text : u = <<a, b>> /\ BeginsTwo(Text, left, a, b, r)
      BY <2>2
    <3>2. a \in Text
      BY <3>1 DEF Text
    <3>3. Grows(kept, kept', 2)
      BY <1>6, <3>1, <3>2, KeptGrows
    <3>4. Len(left) = Len(r) + 2
      BY <3>1, LeftShrinks
    <3>5. QED BY <1>6, <3>3, <3>4 DEF Grows
  <2>3. QED BY <2>1, <2>2, Zenon DEF NextUnit
<1>8. k \in 0..Len(units)
  BY <1>1
<1>9. left' \in Seq(Text) /\ Len(kept') + Len(left') <= Len(kept) + Len(left)
  BY <1>2, <1>7
<1>10. QED BY <1>5, <1>7, <1>8, <1>9, ParseGoesOn

\* One of the wrapper's own is only left out.
LEMMA UnitGoes ==
  ASSUME ArgsInv, phase = "parse", UNCHANGED <<units, kept, i, phase>>,
         arch' \in {"v4", "v5"}, thumb' \in BOOLEAN, opts' \in [Valued \cup Flags -> Text],
         NEW k \in 1..Len(units), NEW u, NEW r, NextUnit(units, k, left, u, r),
         ReadTo(units, k - 1, opts, arch, thumb), kept = UpTo(NonOwn(units), k - 1),
         ReadUnit(u, opts, arch, thumb, opts', arch', thumb'),
         Own(u), left' = r
  PROVE  ArgsInv'
<1>1. Shape(units) /\ Len(units) \in Nat
  BY Families DEF ArgsInv
<1>2. u = units[k] /\ r = Beyond(units, k) /\ r \in Seq(Text)
  BY DEF NextUnit
<1>3. ReadTo(units, k, opts', arch', thumb')
  BY <1>1, <1>2, ReadStep
<1>4. kept' = UpTo(NonOwn(units), k)
  BY <1>1, <1>2, FamilySame
<1>5. ParseTo(units, k, left', kept', opts', arch', thumb')
  BY <1>2, <1>3, <1>4 DEF ParseTo, AtUnit
<1>6. kept \in Seq(Text) /\ Len(kept) \in Nat /\ Len(r) \in Nat
  BY <1>2, LenProperties DEF ArgsInv, ArgsTypes
<1>7. Len(r) <= Len(left)
  <2>1. (\E a : Begins(Text, left, a, r)) \/ (\E a, b : BeginsTwo(Text, left, a, b, r))
    BY Zenon DEF NextUnit
  <2>2. Len(left) = Len(r) + 1 \/ Len(left) = Len(r) + 2
    BY <2>1, LeftShrinks, Zenon
  <2>3. QED BY <1>6, <2>2
<1>8. k \in 0..Len(units)
  BY <1>1
<1>9. kept' \in Seq(Text) /\ left' \in Seq(Text) /\ Len(kept') + Len(left') <= Len(kept) + Len(left)
  <2>1. Len(left) \in Nat
    BY LenProperties DEF ArgsInv, ArgsTypes
  <2>2. QED BY <1>2, <1>6, <1>7, <2>1
<1>10. QED BY <1>5, <1>8, <1>9, ParseGoesOn
\* An option that the code looks at, with its value, is a unit.
LEMMA PairComes ==
  ASSUME ArgsInv, phase = "parse", left # <<>>, left[1] \in Valued \cup {"-proc"}, HasValue
  PROVE  \E k \in 1..Len(units) : \E r \in Seq(Text) : \E u :
           /\ ReadTo(units, k - 1, opts, arch, thumb) /\ kept = UpTo(NonOwn(units), k - 1)
           /\ NextUnit(units, k, left, u, r) /\ u = <<left[1], left[2]>>
           /\ left[2] \in Text /\ (left[1] = "-proc" => left[2] # "-ipa")
           /\ SubSeq(left, 1, 2) = u /\ SubSeq(left, 3, Len(left)) = r
<1>1. ASSUME NEW k \in 1..Len(units), NEW b \in Text \ Looked, Begins(Text, left, b, Beyond(units, k))
      PROVE  FALSE
  <2>1. left[1] = b
    BY <1>1, LeftShrinks
  <2>2. QED BY <1>1, <2>1 DEF Looked
<1>2. PICK k \in 1..Len(units) : \E u, r :
        /\ ReadTo(units, k - 1, opts, arch, thumb)
        /\ kept = UpTo(NonOwn(units), k - 1) /\ NextUnit(units, k, left, u, r)
  BY <1>1, ParseCases, Zenon
<1>3. PICK u, r :
        /\ ReadTo(units, k - 1, opts, arch, thumb)
        /\ kept = UpTo(NonOwn(units), k - 1) /\ NextUnit(units, k, left, u, r)
  BY <1>2
<1>4. ASSUME NEW a \in Text, a \in TakesValue => r = <<>>, Begins(Text, left, a, r)
      PROVE  FALSE
  <2>1. left[1] = a /\ Len(left) = Len(r) + 1
    BY <1>4, LeftShrinks
  <2>2. a \in TakesValue
    BY <2>1 DEF TakesValue
  <2>3. Len(left) = 1
    BY <1>4, <2>1, <2>2
  <2>4. QED BY <2>3 DEF HasValue
<1>5. PICK a \in TakesValue, b \in Text :
        /\ u = <<a, b>> /\ (a = "-proc" => b # "-ipa") /\ BeginsTwo(Text, left, a, b, r)
  BY <1>3, <1>4, Zenon DEF NextUnit
<1>6. left[1] = a /\ left[2] = b /\ SubSeq(left, 1, 2) = <<a, b>> /\ SubSeq(left, 3, Len(left)) = r
  BY <1>5, LeftShrinks
<1>7. r \in Seq(Text)
  BY <1>3 DEF NextUnit
<1>8. QED BY <1>3, <1>5, <1>6, <1>7, Zenon

\* -proc and its value are the tool's, and say which libraries.
LEMMA ProcInv == ASSUME ArgsInv, Proc PROVE ArgsInv'
<1>1. /\ phase = "parse" /\ left # <<>> /\ left[1] = "-proc" /\ HasValue
      /\ arch' = IF left[2] \in V4 THEN "v4" ELSE IF left[2] \in V5 THEN "v5" ELSE arch
      /\ kept' = kept \o SubSeq(left, 1, 2) /\ left' = SubSeq(left, 3, Len(left))
      /\ UNCHANGED <<units, opts, thumb, i, phase>>
  BY DEF Proc, ProcTakes, Copy, Drop
<1>2. PICK k \in 1..Len(units) : \E r \in Seq(Text) : \E u :
        /\ ReadTo(units, k - 1, opts, arch, thumb) /\ kept = UpTo(NonOwn(units), k - 1)
        /\ NextUnit(units, k, left, u, r) /\ u = <<left[1], left[2]>>
        /\ SubSeq(left, 1, 2) = u /\ SubSeq(left, 3, Len(left)) = r
  <2>1. left[1] \in Valued \cup {"-proc"}
    BY <1>1
  <2>2. QED BY <1>1, <2>1, PairComes, Zenon
<1>21. PICK r \in Seq(Text) : \E u :
        /\ ReadTo(units, k - 1, opts, arch, thumb) /\ kept = UpTo(NonOwn(units), k - 1)
        /\ NextUnit(units, k, left, u, r) /\ u = <<left[1], left[2]>>
        /\ SubSeq(left, 1, 2) = u /\ SubSeq(left, 3, Len(left)) = r
  BY <1>2
<1>3. PICK u :
        /\ ReadTo(units, k - 1, opts, arch, thumb) /\ kept = UpTo(NonOwn(units), k - 1)
        /\ NextUnit(units, k, left, u, r) /\ u = <<left[1], left[2]>>
        /\ SubSeq(left, 1, 2) = u /\ SubSeq(left, 3, Len(left)) = r
  BY <1>21, Zenon
<1>4. u[1] = "-proc" /\ u[2] = left[2] /\ Len(u) = 2
  BY <1>1, <1>3
<1>5. ~Own(u) /\ Whole(u)
  BY <1>4 DEF Own, Whole, Flags, Valued
<1>6. ReadUnit(u, opts, arch, thumb, opts', arch', thumb')
  BY <1>1, <1>4, <1>5 DEF ReadUnit, Valued
<1>7. arch' \in {"v4", "v5"} /\ thumb' \in BOOLEAN /\ opts' \in [Valued \cup Flags -> Text]
  BY <1>1 DEF ArgsInv, ArgsTypes
<1>8. kept' = kept \o u /\ left' = r
  BY <1>1, <1>3
<1>9. QED BY <1>1, <1>3, <1>5, <1>6, <1>7, <1>8, UnitStays

\* The last value of an option of the wrapper's counts.
LEMMA ValueInv == ASSUME ArgsInv, Value PROVE ArgsInv'
<1>1. /\ phase = "parse" /\ left # <<>> /\ left[1] \in Valued /\ HasValue
      /\ opts' = [opts EXCEPT ![left[1]] = left[2]] /\ left' = SubSeq(left, 3, Len(left))
      /\ UNCHANGED <<units, kept, arch, thumb, i, phase>>
  BY DEF Value, Drop
<1>2. PICK k \in 1..Len(units) : \E r \in Seq(Text) : \E u :
        /\ ReadTo(units, k - 1, opts, arch, thumb) /\ kept = UpTo(NonOwn(units), k - 1)
        /\ NextUnit(units, k, left, u, r) /\ u = <<left[1], left[2]>> /\ left[2] \in Text
        /\ SubSeq(left, 3, Len(left)) = r
  <2>1. left[1] \in Valued \cup {"-proc"}
    BY <1>1
  <2>2. QED BY <1>1, <2>1, PairComes, Zenon
<1>21. PICK r \in Seq(Text) : \E u :
        /\ ReadTo(units, k - 1, opts, arch, thumb) /\ kept = UpTo(NonOwn(units), k - 1)
        /\ NextUnit(units, k, left, u, r) /\ u = <<left[1], left[2]>> /\ left[2] \in Text
        /\ SubSeq(left, 3, Len(left)) = r
  BY <1>2
<1>3. PICK u :
        /\ ReadTo(units, k - 1, opts, arch, thumb) /\ kept = UpTo(NonOwn(units), k - 1)
        /\ NextUnit(units, k, left, u, r) /\ u = <<left[1], left[2]>> /\ left[2] \in Text
        /\ SubSeq(left, 3, Len(left)) = r
  BY <1>21, Zenon
<1>4. u[1] = left[1] /\ u[2] = left[2] /\ Len(u) = 2
  BY <1>3
<1>5. Own(u) /\ Whole(u)
  BY <1>1, <1>4 DEF Own, Whole
<1>6. opts \in [Valued \cup Flags -> Text]
  BY DEF ArgsInv, ArgsTypes
<1>7. ReadUnit(u, opts, arch, thumb, opts', arch', thumb')
  <2>1. \A v \in Valued : opts'[v] = IF u[1] = v /\ Whole(u) THEN u[2] ELSE opts[v]
    BY <1>1, <1>4, <1>5, <1>6
  <2>2. u[1] \notin {"-wrap:noipa", "-proc", "-thumb", "-nothumb"}
    BY <1>1, <1>4 DEF Valued
  <2>3. opts'["-wrap:noipa"] = opts["-wrap:noipa"]
    BY <1>1, <1>4, <1>6, <2>2 DEF Flags
  <2>4. QED BY <1>1, <2>1, <2>2, <2>3 DEF ReadUnit
<1>8. arch' \in {"v4", "v5"} /\ thumb' \in BOOLEAN /\ opts' \in [Valued \cup Flags -> Text]
  BY <1>1, <1>3, <1>6 DEF ArgsInv, ArgsTypes
<1>9. left' = r
  BY <1>1, <1>3
<1>10. QED BY <1>1, <1>3, <1>5, <1>7, <1>8, <1>9, UnitGoes
\* So is one that has none.
LEMMA SingleComes ==
  ASSUME ArgsInv, phase = "parse", left # <<>>, left[1] \in Flags \cup {"-thumb", "-nothumb"}
  PROVE  \E k \in 1..Len(units) : \E r \in Seq(Text) : \E u :
           /\ ReadTo(units, k - 1, opts, arch, thumb) /\ kept = UpTo(NonOwn(units), k - 1)
           /\ NextUnit(units, k, left, u, r) /\ u = <<left[1]>>
           /\ SubSeq(left, 1, 1) = u /\ SubSeq(left, 2, Len(left)) = r
<1>1. ASSUME NEW k \in 1..Len(units), NEW b \in Text \ Looked, Begins(Text, left, b, Beyond(units, k))
      PROVE  FALSE
  <2>1. left[1] = b
    BY <1>1, LeftShrinks
  <2>2. QED BY <1>1, <2>1 DEF Looked
<1>2. PICK k \in 1..Len(units) : \E u, r :
        /\ ReadTo(units, k - 1, opts, arch, thumb)
        /\ kept = UpTo(NonOwn(units), k - 1) /\ NextUnit(units, k, left, u, r)
  BY <1>1, ParseCases, Zenon
<1>3. PICK u, r :
        /\ ReadTo(units, k - 1, opts, arch, thumb)
        /\ kept = UpTo(NonOwn(units), k - 1) /\ NextUnit(units, k, left, u, r)
  BY <1>2
<1>4. ASSUME NEW a \in TakesValue, NEW b, BeginsTwo(Text, left, a, b, r)
      PROVE  FALSE
  <2>1. left[1] = a
    BY <1>4, LeftShrinks
  <2>2. QED BY <1>4, <2>1 DEF TakesValue, Valued, Flags
<1>5. PICK a \in Text : u = <<a>> /\ Begins(Text, left, a, r)
  BY <1>3, <1>4, Zenon DEF NextUnit
<1>6. left[1] = a /\ SubSeq(left, 1, 1) = <<a>> /\ SubSeq(left, 2, Len(left)) = r
  BY <1>5, LeftShrinks
<1>7. r \in Seq(Text)
  BY <1>3 DEF NextUnit
<1>8. QED BY <1>3, <1>5, <1>6, <1>7, Zenon

\* -thumb and -nothumb are the tool's, and say which libraries.
LEMMA ThumbInv == ASSUME ArgsInv, Thumb PROVE ArgsInv'
<1>1. /\ phase = "parse" /\ left # <<>> /\ left[1] \in {"-thumb", "-nothumb"}
      /\ thumb' = (left[1] = "-thumb")
      /\ kept' = kept \o SubSeq(left, 1, 1) /\ left' = SubSeq(left, 2, Len(left))
      /\ UNCHANGED <<units, opts, arch, i, phase>>
  BY DEF Thumb, Copy, Drop
<1>2. PICK k \in 1..Len(units) : \E r \in Seq(Text) : \E u :
        /\ ReadTo(units, k - 1, opts, arch, thumb) /\ kept = UpTo(NonOwn(units), k - 1)
        /\ NextUnit(units, k, left, u, r) /\ u = <<left[1]>>
        /\ SubSeq(left, 1, 1) = u /\ SubSeq(left, 2, Len(left)) = r
  <2>1. left[1] \in Flags \cup {"-thumb", "-nothumb"}
    BY <1>1
  <2>2. QED BY <1>1, <2>1, SingleComes, Zenon
<1>21. PICK r \in Seq(Text) : \E u :
        /\ ReadTo(units, k - 1, opts, arch, thumb) /\ kept = UpTo(NonOwn(units), k - 1)
        /\ NextUnit(units, k, left, u, r) /\ u = <<left[1]>>
        /\ SubSeq(left, 1, 1) = u /\ SubSeq(left, 2, Len(left)) = r
  BY <1>2
<1>3. PICK u :
        /\ ReadTo(units, k - 1, opts, arch, thumb) /\ kept = UpTo(NonOwn(units), k - 1)
        /\ NextUnit(units, k, left, u, r) /\ u = <<left[1]>>
        /\ SubSeq(left, 1, 1) = u /\ SubSeq(left, 2, Len(left)) = r
  BY <1>21, Zenon
<1>4. u[1] = left[1]
  BY <1>3
<1>5. ~Own(u)
  BY <1>1, <1>4 DEF Own, Flags, Valued
<1>6. ReadUnit(u, opts, arch, thumb, opts', arch', thumb')
  <2>1. u[1] \notin Valued /\ u[1] # "-wrap:noipa" /\ u[1] # "-proc"
    BY <1>1, <1>4 DEF Valued
  <2>2. u[1] \in {"-thumb", "-nothumb"} /\ thumb' = (u[1] = "-thumb")
    BY <1>1, <1>4
  <2>3. QED BY <1>1, <2>1, <2>2 DEF ReadUnit
<1>7. arch' \in {"v4", "v5"} /\ thumb' \in BOOLEAN /\ opts' \in [Valued \cup Flags -> Text]
  BY <1>1 DEF ArgsInv, ArgsTypes
<1>8. kept' = kept \o u /\ left' = r
  BY <1>1, <1>3
<1>9. QED BY <1>1, <1>3, <1>5, <1>6, <1>7, <1>8, UnitStays

\* -wrap:dbg and -wrap:noipa.
LEMMA FlagInv == ASSUME ArgsInv, Flag PROVE ArgsInv'
<1>1. /\ phase = "parse" /\ left # <<>> /\ left[1] \in Flags
      /\ opts' = [opts EXCEPT ![left[1]] = "set"] /\ left' = SubSeq(left, 2, Len(left))
      /\ UNCHANGED <<units, kept, arch, thumb, i, phase>>
  BY DEF Flag, Drop
<1>2. PICK k \in 1..Len(units) : \E r \in Seq(Text) : \E u :
        /\ ReadTo(units, k - 1, opts, arch, thumb) /\ kept = UpTo(NonOwn(units), k - 1)
        /\ NextUnit(units, k, left, u, r) /\ u = <<left[1]>>
        /\ SubSeq(left, 2, Len(left)) = r
  <2>1. left[1] \in Flags \cup {"-thumb", "-nothumb"}
    BY <1>1
  <2>2. QED BY <1>1, <2>1, SingleComes, Zenon
<1>21. PICK r \in Seq(Text) : \E u :
        /\ ReadTo(units, k - 1, opts, arch, thumb) /\ kept = UpTo(NonOwn(units), k - 1)
        /\ NextUnit(units, k, left, u, r) /\ u = <<left[1]>>
        /\ SubSeq(left, 2, Len(left)) = r
  BY <1>2
<1>3. PICK u :
        /\ ReadTo(units, k - 1, opts, arch, thumb) /\ kept = UpTo(NonOwn(units), k - 1)
        /\ NextUnit(units, k, left, u, r) /\ u = <<left[1]>>
        /\ SubSeq(left, 2, Len(left)) = r
  BY <1>21, Zenon
<1>4. u[1] = left[1]
  BY <1>3
<1>5. Own(u)
  BY <1>1, <1>4 DEF Own
<1>6. opts \in [Valued \cup Flags -> Text]
  BY DEF ArgsInv, ArgsTypes
<1>7. ReadUnit(u, opts, arch, thumb, opts', arch', thumb')
  <2>1. u[1] \notin Valued /\ u[1] \notin {"-proc", "-thumb", "-nothumb"}
    BY <1>1, <1>4 DEF Valued, Flags
  <2>2. opts'["-wrap:noipa"] = IF u[1] = "-wrap:noipa" THEN "set" ELSE opts["-wrap:noipa"]
    BY <1>1, <1>4, <1>6 DEF Flags
  <2>3. \A v \in Valued : opts'[v] = opts[v]
    BY <1>1, <1>4, <1>6, <2>1
  <2>4. QED BY <1>1, <2>1, <2>2, <2>3 DEF ReadUnit
<1>8. arch' \in {"v4", "v5"} /\ thumb' \in BOOLEAN /\ opts' \in [Valued \cup Flags -> Text]
  BY <1>1, <1>6 DEF ArgsInv, ArgsTypes, Text
<1>9. left' = r
  BY <1>1, <1>3
<1>10. QED BY <1>1, <1>3, <1>5, <1>7, <1>8, <1>9, UnitGoes

\* Any other argument is the tool's; -ipa is one, and what follows it another.
LEMMA OtherInv == ASSUME ArgsInv, Other PROVE ArgsInv'
<1>1. /\ phase = "parse" /\ left # <<>> /\ left[1] \notin {"-thumb", "-nothumb"} \cup Flags
      /\ left[1] \in Valued \cup {"-proc"} => ~HasValue
      /\ kept' = kept \o SubSeq(left, 1, 1) /\ left' = SubSeq(left, 2, Len(left))
      /\ UNCHANGED <<units, opts, arch, thumb, i, phase>>
  BY DEF Other, Copy, Drop
<1>2. arch' \in {"v4", "v5"} /\ thumb' \in BOOLEAN /\ opts' \in [Valued \cup Flags -> Text]
  BY <1>1 DEF ArgsInv, ArgsTypes
<1>3. Shape(units) /\ Len(units) \in Nat /\ kept \in Seq(Text) /\ Len(kept) \in Nat
  BY Families, LenProperties DEF ArgsInv, ArgsTypes
<1>4. ASSUME NEW k \in 1..Len(units), NEW u, NEW r,
             ReadTo(units, k - 1, opts, arch, thumb),
             kept = UpTo(NonOwn(units), k - 1), NextUnit(units, k, left, u, r)
      PROVE  ArgsInv'
  <2>1. r \in Seq(Text) /\ r = Beyond(units, k) /\ u = units[k]
    BY <1>4 DEF NextUnit
  <2>2. CASE \E a \in Text : u = <<a>> /\ (a \in TakesValue => r = <<>>) /\ Begins(Text, left, a, r)
    <3>1. PICK a \in Text : u = <<a>> /\ (a \in TakesValue => r = <<>>) /\ Begins(Text, left, a, r)
      BY <2>2
    <3>2. left[1] = a /\ SubSeq(left, 1, 1) = <<a>> /\ SubSeq(left, 2, Len(left)) = r
      BY <3>1, LeftShrinks
    <3>3. u[1] = a /\ Len(u) = 1
      BY <3>1
    <3>4. ~Own(u) /\ (u[1] \in TakesValue => ~Whole(u))
      BY <1>1, <3>2, <3>3 DEF Own, Whole, TakesValue
    <3>5. ReadUnit(u, opts, arch, thumb, opts', arch', thumb')
      <4>1. u[1] \notin Flags /\ u[1] \notin {"-thumb", "-nothumb"}
        BY <1>1, <3>2, <3>3
      <4>2. ~(u[1] \in Valued /\ Whole(u)) /\ ~(u[1] = "-proc" /\ Whole(u))
        BY <3>4 DEF TakesValue
      <4>3. QED BY <1>1, <4>1, <4>2 DEF ReadUnit, Flags
    <3>6. kept' = kept \o u /\ left' = r
      BY <1>1, <3>1, <3>2
    <3>7. QED BY <1>1, <1>2, <1>4, <3>4, <3>5, <3>6, UnitStays
  <2>3. CASE \E a \in TakesValue, b \in Text :
               /\ u = <<a, b>> /\ (a = "-ipa" => b \notin Looked) /\ BeginsTwo(Text, left, a, b, r)
    <3>1. PICK a \in TakesValue, b \in Text :
            /\ u = <<a, b>> /\ (a = "-ipa" => b \notin Looked) /\ BeginsTwo(Text, left, a, b, r)
      BY <2>3
    <3>2. /\ left[1] = a /\ Len(left) = Len(r) + 2
          /\ SubSeq(left, 1, 1) = <<a>> /\ SubSeq(left, 2, Len(left)) = Cons(b, r)
      BY <3>1, LeftShrinks
    <3>3. a = "-ipa"
      <4>1. HasValue
        <5>1. Len(r) \in Nat
          BY <2>1, LenProperties
        <5>2. QED BY <3>2, <5>1 DEF HasValue
      <4>2. QED BY <1>1, <3>1, <3>2, <4>1 DEF TakesValue
    <3>4. u[1] = "-ipa" /\ u[2] = b /\ Len(u) = 2 /\ u = <<"-ipa", u[2]>>
      BY <3>1, <3>3
    <3>5. ReadUnit(u, opts, arch, thumb, opts', arch', thumb')
      BY <1>1, <3>4 DEF ReadUnit, Valued
    <3>6. ReadTo(units, k, opts', arch', thumb')
      BY <1>3, <1>4, <2>1, <3>5, ReadStep
    <3>7. InUnit(units, k, left', kept')
      <4>1. left' = Cons(u[2], r) /\ kept' = kept \o <<"-ipa">>
        BY <1>1, <3>2, <3>3, <3>4
      <4>2. u[2] \in Text \ Looked
        BY <3>1, <3>3, <3>4
      <4>3. k # 0
        BY <1>4
      <4>4. QED BY <1>4, <2>1, <3>4, <4>1, <4>2, <4>3 DEF InUnit
    <3>8. ParseTo(units, k, left', kept', opts', arch', thumb')
      BY <3>6, <3>7 DEF ParseTo
    <3>9. left' \in Seq(Text) /\ Len(left') = Len(r) + 1
      <4>1. b \in Text
        BY <3>1
      <4>2. Begins(Text, Cons(b, r), b, r)
        BY <2>1, <4>1, OneInFront
      <4>3. QED BY <1>1, <3>2, <4>2 DEF Begins
    <3>10. Grows(kept, kept', 1)
      <4>1. "-ipa" \in Text
        BY DEF Text, TakesValue
      <4>2. kept' = kept \o <<"-ipa">>
        BY <1>1, <3>2, <3>3
      <4>3. QED BY <1>3, <4>1, <4>2, KeptGrows
    <3>11. kept' \in Seq(Text) /\ Len(kept') + Len(left') <= Len(kept) + Len(left)
      <4>1. Len(r) \in Nat
        BY <2>1, LenProperties
      <4>2. QED BY <1>3, <3>2, <3>9, <3>10, <4>1 DEF Grows
    <3>12. k \in 0..Len(units)
      BY <1>3, <1>4
    <3>13. QED BY <1>1, <1>2, <3>8, <3>9, <3>11, <3>12, ParseGoesOn
  <2>4. QED BY <1>4, <2>2, <2>3, Zenon DEF NextUnit
<1>5. ASSUME NEW k \in 1..Len(units), NEW b \in Text \ Looked,
             ReadTo(units, k, opts, arch, thumb), units[k] = <<"-ipa", b>>,
             Begins(Text, left, b, Beyond(units, k)),
             kept = UpTo(NonOwn(units), k - 1) \o <<"-ipa">>
      PROVE  ArgsInv'
  <2>1. k \in 0..Len(units) /\ k - 1 \in 0..Len(units) /\ b \in Text /\ "-ipa" \in Text
    <3>1. k \in 0..Len(units) /\ k - 1 \in 0..Len(units)
      BY <1>3, <1>5
    <3>2. "-ipa" \in Text
      BY DEF Text, TakesValue
    <3>3. b \in Text
      BY <1>5
    <3>4. QED BY <3>1, <3>2, <3>3
  <2>2. kept' = kept \o <<b>> /\ left' = Beyond(units, k) /\ Len(left) = Len(left') + 1
    BY <1>1, <1>5, LeftShrinks
  <2>3. Grows(kept, kept', 1)
    BY <1>3, <2>1, <2>2, KeptGrows
  <2>4. left' \in Seq(Text)
    BY <1>3, <2>1, <2>2, FamilyParts
  <2>5. kept' = UpTo(NonOwn(units), k)
    <3>1. PICK p \in Seq(Text) : p = UpTo(NonOwn(units), k - 1)
      BY <1>3, <2>1, FamilyParts
    <3>2. PICK d \in Seq(Text) : d = <<"-ipa">>
      BY <2>1, Single
    <3>3. PICK e \in Seq(Text) : e = <<b>>
      BY <2>1, Single
    <3>4. (p \o d) \o e = p \o (d \o e)
      BY <3>1, <3>2, <3>3, Associative
    <3>5. d \o e = <<"-ipa", b>>
      <4>1. <<"-ipa", b>> = <<"-ipa">> \o <<b>>
        BY <2>1, PairIs
      <4>2. QED BY <3>2, <3>3, <4>1
    <3>6. ~Own(units[k])
      <4>1. units[k][1] = "-ipa"
        BY <1>5
      <4>2. QED BY <4>1 DEF Own, Flags, Valued
    <3>7. UpTo(NonOwn(units), k) = UpTo(NonOwn(units), k - 1) \o units[k]
      BY <1>3, <3>6, FamilySame
    <3>8. QED BY <1>5, <2>2, <3>1, <3>2, <3>3, <3>4, <3>5, <3>7
  <2>6. ParseTo(units, k, left', kept', opts', arch', thumb')
    BY <1>1, <1>5, <2>2, <2>5 DEF ParseTo, AtUnit
  <2>7. kept' \in Seq(Text) /\ Len(kept') + Len(left') <= Len(kept) + Len(left)
    <3>1. Len(left') \in Nat
      BY <2>4, LenProperties
    <3>2. QED BY <1>3, <2>2, <2>3, <3>1 DEF Grows
  <2>8. QED BY <1>1, <1>2, <2>1, <2>4, <2>6, <2>7, ParseGoesOn
<1>6. QED BY <1>1, <1>4, <1>5, ParseCases, Zenon
\* What the last one says is said by one of them.
LEMMA NoIpaKnown ==
  ASSUME NEW us, Shape(us), NEW o, NEW a, NEW t, ReadTo(us, Len(us), o, a, t)
  PROVE  o["-wrap:noipa"] = "set" <=> AskedNoIpa(us)
<1>1. PICK n \in Nat : n = Len(us)
  BY Families
<1>2. PICK T \in SUBSET (1..n) : T = NoIpas(us)
  BY <1>1 DEF NoIpas
<1>3. LastSays(T, n, o["-wrap:noipa"], "", IsSet(us))
  BY <1>1, <1>2 DEF ReadTo
<1>4. o["-wrap:noipa"] = IF T = {} THEN "" ELSE IsSet(us)[Max(T)]
  BY <1>3, LastSaysAll
<1>5. T # {} => Max(T) \in 1..n
  BY LastOne
<1>6. T # {} => IsSet(us)[Max(T)] = "set"
  BY <1>1, <1>5 DEF IsSet
<1>7. DOMAIN us = 1..n
  BY <1>1, LenProperties DEF Shape
<1>8. AskedNoIpa(us) <=> T # {}
  BY <1>1, <1>2, <1>7 DEF AskedNoIpa, NoIpas
<1>9. QED BY <1>4, <1>6, <1>8

\* At the end of the command all that is not the wrapper's is kept.
LEMMA AllKept ==
  ASSUME ArgsInv, phase = "parse", left = <<>>
  PROVE  ReadTo(units, Len(units), opts, arch, thumb) /\ kept = FlattenSeq(NonOwn(units))
<1>1. Shape(units)
  BY DEF ArgsInv
<1>2. PICK n \in Nat : n = Len(units)
  BY <1>1, Families
<1>3. PICK k \in 0..Len(units) : ParseTo(units, k, left, kept, opts, arch, thumb)
  BY DEF ArgsInv, Parsing
<1>4. ~InUnit(units, k, left, kept)
  <2>1. SUFFICES ASSUME InUnit(units, k, left, kept) PROVE FALSE
    OBVIOUS
  <2>2. PICK b \in Text : left = Cons(b, Beyond(units, k))
    BY <2>1 DEF InUnit
  <2>3. Beyond(units, k) \in Seq(Text)
    BY <1>1, FamilyParts
  <2>4. Begins(Text, left, b, Beyond(units, k))
    BY <2>2, <2>3, OneInFront
  <2>5. QED BY <2>4 DEF Begins
<1>5. AtUnit(units, k, left, kept)
  BY <1>3, <1>4 DEF ParseTo
<1>6. k = n
  <2>1. SUFFICES ASSUME k # n PROVE FALSE
    OBVIOUS
  <2>2. PICK m \in 1..Len(units) : k = m - 1
    BY <1>2, <2>1
  <2>3. Beyond(units, k) # <<>>
    BY <1>1, <2>2, UnitParts
  <2>4. QED BY <1>5, <2>3 DEF AtUnit
<1>7. NonOwn(units) \in Seq(Seq(Text)) /\ n = Len(NonOwn(units))
  BY <1>1, <1>2, Families
<1>8. UpTo(NonOwn(units), n) = FlattenSeq(NonOwn(units))
  BY <1>7, UpToFacts
<1>9. QED BY <1>2, <1>3, <1>5, <1>6, <1>8 DEF ParseTo, AtUnit

\* The end of the first loop keeps it.
LEMMA EndParseInv == ASSUME ArgsInv, EndParse PROVE ArgsInv'
<1>1. /\ phase = "parse" /\ left = <<>>
      /\ phase' = IF opts["-wrap:noipa"] = "set" THEN "ipa" ELSE "done"
      /\ UNCHANGED <<units, left, kept, opts, arch, thumb, i>>
  BY DEF EndParse
<1>2. ReadTo(units, Len(units), opts, arch, thumb) /\ kept = FlattenSeq(NonOwn(units))
  BY <1>1, AllKept
<1>3. Shape(units) /\ Len(units) \in Nat /\ i = 1 /\ kept \in Seq(Text)
  BY <1>1, Families DEF ArgsInv, Parsing, ArgsTypes
<1>4. opts["-wrap:noipa"] = "set" <=> AskedNoIpa(units)
  BY <1>2, <1>3, NoIpaKnown
<1>5. Shape(units)' /\ ArgsTypes' /\ Parsing'
  BY <1>1, <1>3 DEF ArgsInv, ArgsTypes, Parsing
<1>6. Removing'
  <2>1. SUFFICES ASSUME phase' = "ipa"
                 PROVE  AskedNoIpa(units) /\ \E k \in 0..Len(units) : RemoveTo(units, k, kept, i)
    BY <1>1, <1>2 DEF Removing
  <2>2. AskedNoIpa(units)
    BY <1>1, <1>4, <2>1
  <2>3. PICK n \in Nat : n = Len(units)
    BY <1>3
  <2>4. /\ NonOwn(units) \in Seq(Seq(Text)) /\ n = Len(NonOwn(units))
        /\ Staying(units) \in Seq(Seq(Text)) /\ n = Len(Staying(units))
    BY <1>3, <2>3, Families
  <2>5. UpTo(Staying(units), 0) = <<>>
    BY <2>4, UpToFacts
  <2>6. Beyond(NonOwn(units), 0) = FlattenSeq(NonOwn(units))
    BY <2>4, UpToFacts
  <2>7. <<>> \o kept = kept
    BY <1>3, ConcatEmptySeq
  <2>8. Len(<<>>) = 0
    OBVIOUS
  <2>9. AtKept(units, 0, kept, i)
    BY <1>2, <1>3, <2>5, <2>6, <2>7, <2>8 DEF AtKept
  <2>10. 0 \in 0..Len(units)
    BY <1>3
  <2>11. QED BY <2>2, <2>9, <2>10 DEF RemoveTo
<1>7. Finished'
  <2>1. SUFFICES ASSUME phase' = "done"
                 PROVE  i \in 1..(Len(kept) + 1) /\ kept = FlattenSeq(Staying(units))
    BY <1>1, <1>2 DEF Finished
  <2>2. ~AskedNoIpa(units)
    BY <1>1, <1>4, <2>1
  <2>3. Staying(units) = NonOwn(units)
    <3>1. \A k \in 1..Len(units) : Stays(units, units[k]) <=> ~Own(units[k])
      BY <2>2 DEF AskedNoIpa, Stays
    <3>2. QED BY <3>1 DEF Staying, NonOwn
  <2>4. Len(kept) \in Nat
    BY <1>3, LenProperties
  <2>5. QED BY <1>2, <1>3, <2>3, <2>4
<1>8. QED BY <1>5, <1>6, <1>7 DEF ArgsInv

-----------------------------------------------------------------------------
(* remove_ipa_arguments.                                                   *)

\* Where it is, with names for it: at the end, at a unit, or behind a -proc.
LEMMA RemoveCases ==
  ASSUME ArgsInv, phase = "ipa"
  PROVE  \/ kept = FlattenSeq(Staying(units)) /\ i = Len(kept) + 1
         \/ \E k \in 1..Len(units), p, r \in Seq(Text) :
              /\ ~Own(units[k]) /\ p = UpTo(Staying(units), k - 1) /\ r = Beyond(NonOwn(units), k)
              /\ Middle(Text, kept, p, units[k], r) /\ i = Len(p) + 1
         \/ \E k \in 1..Len(units) : InKept(units, k, kept, i)
<1>1. Shape(units)
  BY DEF ArgsInv
<1>2. PICK n \in Nat : n = Len(units)
  BY <1>1, Families
<1>3. PICK k \in 0..n : RemoveTo(units, k, kept, i)
  BY <1>2 DEF ArgsInv, Removing
<1>4. CASE InKept(units, k, kept, i)
  <2>1. k \in 1..n
    BY <1>4 DEF InKept
  <2>2. QED BY <1>2, <1>4, <2>1
<1>5. CASE AtKept(units, k, kept, i)
  <2> DEFINE T == {j \in 1..(n + 1) : AtKept(units, j - 1, kept, i)}
  <2>1. PICK m : m = Max(T)
    OBVIOUS
  <2>2. m \in T /\ \A j \in T : j <= m
    <3>1. n + 1 \in Nat /\ T \subseteq 1..(n + 1)
      OBVIOUS
    <3>2. k + 1 \in 1..(n + 1) /\ (k + 1) - 1 = k
      OBVIOUS
    <3>3. T # {}
      BY <1>5, <3>2
    <3> HIDE DEF T
    <3>4. QED BY <2>1, <3>1, <3>3, LastOne
  <2>3. AtKept(units, m - 1, kept, i) /\ m \in 1..(n + 1)
    BY <2>2
  <2>4. CASE m = n + 1
    <3>1. AtKept(units, n, kept, i)
      BY <2>3, <2>4
    <3>2. UpTo(Staying(units), n) = FlattenSeq(Staying(units)) /\ UpTo(Staying(units), n) \in Seq(Text)
      <4>1. Staying(units) \in Seq(Seq(Text)) /\ n = Len(Staying(units)) /\ n \in 0..n
        BY <1>1, <1>2, Families
      <4>2. QED BY <4>1, UpToFacts
    <3>3. Beyond(NonOwn(units), n) = <<>>
      <4>1. NonOwn(units) \in Seq(Seq(Text)) /\ n = Len(NonOwn(units))
        BY <1>1, <1>2, Families
      <4>2. QED BY <4>1, UpToFacts
    <3>4. UpTo(Staying(units), n) \o <<>> = UpTo(Staying(units), n)
      BY <3>2, ConcatEmptySeq
    <3>5. QED BY <3>1, <3>2, <3>3, <3>4 DEF AtKept
  <2>5. CASE m # n + 1
    <3>1. m \in 1..Len(units) /\ m - 1 \in 0..Len(units) /\ m \in 0..Len(units)
      BY <1>2, <2>3, <2>5
    <3>2. ~Own(units[m])
      <4>1. SUFFICES ASSUME Own(units[m]) PROVE FALSE
        OBVIOUS
      <4>2. Beyond(NonOwn(units), m - 1) = Beyond(NonOwn(units), m)
        BY <1>1, <3>1, <4>1, FamilySame
      <4>3. ~Stays(units, units[m])
        BY <4>1 DEF Stays
      <4>4. UpTo(Staying(units), m) = UpTo(Staying(units), m - 1)
        BY <1>1, <3>1, <4>3, FamilySame
      <4>5. AtKept(units, m, kept, i)
        BY <2>3, <4>2, <4>4 DEF AtKept
      <4>6. m + 1 \in 1..(n + 1) /\ (m + 1) - 1 = m
        BY <1>2, <3>1
      <4>7. m + 1 \in T
        BY <4>5, <4>6
      <4>8. QED BY <2>2, <3>1, <4>7
    <3>3. PICK p \in Seq(Text) : p = UpTo(Staying(units), m - 1)
      BY <1>1, <3>1, FamilyParts
    <3>4. PICK r \in Seq(Text) : r = Beyond(NonOwn(units), m)
      BY <1>1, <3>1, FamilyParts
    <3>5. Beyond(NonOwn(units), m - 1) = units[m] \o r
      BY <1>1, <3>1, <3>2, <3>4, FamilySame
    <3>6. units[m] \in Seq(Text)
      BY <1>1, <3>1, UnitParts
    <3>7. kept = p \o (units[m] \o r) /\ i = Len(p) + 1
      BY <2>3, <3>3, <3>5 DEF AtKept
    <3>8. Middle(Text, kept, p, units[m], r)
      BY <3>3, <3>4, <3>6, <3>7, InMiddle
    <3>9. QED BY <3>1, <3>2, <3>3, <3>4, <3>7, <3>8, Zenon
  <2>6. QED BY <2>4, <2>5
<1>6. QED BY <1>3, <1>4, <1>5 DEF RemoveTo
\* It is enough to know where it is then.
LEMMA RemoveGoesOn ==
  ASSUME ArgsInv, phase = "ipa", UNCHANGED <<units, left, opts, arch, thumb, phase>>,
         kept' \in Seq(Text), Len(kept') <= Len(kept),
         NEW k \in 0..Len(units), RemoveTo(units, k, kept', i')
  PROVE  ArgsInv'
<1>1. Shape(units)' /\ Parsing' /\ Finished'
  BY DEF ArgsInv, Parsing, Finished
<1>2. Removing'
  BY DEF ArgsInv, Removing
<1>3. ArgsTypes'
  <2>1. FlattenSeq(units) \in Seq(Text)
    BY FamilyParts DEF ArgsInv
  <2>2. Len(FlattenSeq(units)) \in Nat /\ Len(kept) \in Nat /\ Len(left) \in Nat
    BY <2>1, LenProperties DEF ArgsInv, ArgsTypes
  <2>3. Len(kept') \in Nat
    BY LenProperties
  <2>4. Len(kept) + Len(left) <= Len(FlattenSeq(units))
    BY DEF ArgsInv, ArgsTypes
  <2>5. Len(kept') + Len(left) <= Len(FlattenSeq(units))
    BY <2>2, <2>3, <2>4
  <2>6. QED BY <2>5 DEF ArgsInv, ArgsTypes
<1>4. QED BY <1>1, <1>2, <1>3 DEF ArgsInv

\* Behind a -proc it reads the value.
LEMMA AtValue ==
  ASSUME ArgsInv, NEW k \in 1..Len(units), InKept(units, k, kept, i)
  PROVE  /\ kept \in Seq(Text) /\ i \in 1..Len(kept) /\ i <= Len(kept) /\ kept[i] # "-ipa"
         /\ AtKept(units, k, kept, i + 1)
<1>1. Shape(units) /\ Len(units) \in Nat /\ kept \in Seq(Text)
  BY Families DEF ArgsInv, ArgsTypes
<1>2. k \in 0..Len(units) /\ k - 1 \in 0..Len(units)
  BY <1>1
<1>3. PICK u \in Seq(Text) : u = units[k]
  BY <1>1, UnitParts
<1>4. /\ Len(u) = 2 /\ u[1] = "-proc" /\ u[2] # "-ipa"
      /\ kept = UpTo(Staying(units), k) \o Beyond(NonOwn(units), k) /\ i = Len(UpTo(Staying(units), k))
  <2>1. units[k] = <<"-proc", units[k][2]>> /\ units[k][2] # "-ipa"
    BY DEF InKept
  <2>2. <<"-proc", units[k][2]>>[1] = "-proc"
    OBVIOUS
  <2>3. u[1] = "-proc" /\ u[2] # "-ipa"
    BY <1>3, <2>1, <2>2
  <2>4. QED BY <1>3, <2>3 DEF InKept
<1>5. Stays(units, u)
  BY <1>4 DEF Stays, Own, Flags, Valued
<1>6. PICK p \in Seq(Text) : p = UpTo(Staying(units), k - 1)
  BY <1>1, <1>2, FamilyParts
<1>7. PICK r \in Seq(Text) : r = Beyond(NonOwn(units), k)
  BY <1>1, <1>2, FamilyParts
<1>8. UpTo(Staying(units), k) = p \o u
  BY <1>1, <1>3, <1>5, <1>6, FamilySame
<1>9. kept = (p \o u) \o r /\ i = Len(p \o u)
  BY <1>4, <1>7, <1>8
<1>10. kept = p \o (u \o r)
  <2>1. p \in Seq(Text) /\ u \in Seq(Text) /\ r \in Seq(Text)
    BY <1>3, <1>6, <1>7
  <2>2. (p \o u) \o r = p \o (u \o r)
    BY <2>1, Associative
  <2>3. QED BY <1>9, <2>2
<1>11. Middle(Text, kept, p, u, r)
  BY <1>3, <1>6, <1>7, <1>10, InMiddle
<1>12. Len(p) \in Nat /\ Len(r) \in Nat
  BY <1>6, <1>7, LenProperties
<1>13. i = Len(p) + 2 /\ kept[Len(p) + 2] = u[2] /\ i <= Len(kept)
  <2>1. 2 \in 1..Len(u)
    BY <1>4
  <2>2. kept[Len(p) + 2] = u[2]
    BY <1>11, <2>1 DEF Middle
  <2>3. QED BY <1>4, <1>9, <1>11, <1>12, <2>2 DEF Middle
<1>14. AtKept(units, k, kept, i + 1)
  BY <1>4 DEF AtKept
<1>15. QED BY <1>1, <1>4, <1>12, <1>13, <1>14

\* At a unit that parse_args has left in, it reads its first argument.
LEMMA AtFirst ==
  ASSUME ArgsInv, NEW k \in 1..Len(units), NEW p \in Seq(Text), NEW r \in Seq(Text),
         ~Own(units[k]), r = Beyond(NonOwn(units), k), Middle(Text, kept, p, units[k], r), i = Len(p) + 1
  PROVE  /\ i \in Nat /\ i <= Len(kept) /\ kept[i] = units[k][1]
         /\ \/ Len(units[k]) = 1 /\ (units[k][1] = "-ipa" => i = Len(kept))
            \/ /\ Len(units[k]) = 2 /\ i < Len(kept) /\ units[k][1] \in {"-ipa", "-proc"}
               /\ units[k][1] = "-proc" => /\ units[k] = <<"-proc", units[k][2]>>
                                          /\ units[k][2] \in Text /\ units[k][2] # "-ipa"
<1>1. Shape(units)
  BY DEF ArgsInv
<1>2. PICK n \in Nat : n = Len(units)
  BY <1>1, Families
<1>3. Len(p) \in Nat /\ Len(r) \in Nat
  BY LenProperties
<1>4. PICK u : u = units[k]
  OBVIOUS
<1>5. UnitOK(u, k = n)
  BY <1>1, <1>2, <1>4 DEF Shape
<1>6. ASSUME Len(u) \in {1, 2} PROVE i \in Nat /\ i <= Len(kept) /\ kept[i] = u[1]
  <2>1. PICK m \in {1, 2} : m = Len(u)
    BY <1>6
  <2>2. 1 \in 1..m
    BY <2>1
  <2>3. \A j \in 1..m : kept[Len(p) + j] = u[j]
    BY <1>4, <2>1 DEF Middle
  <2>4. Len(kept) = Len(p) + m + Len(r)
    BY <1>4, <2>1 DEF Middle
  <2>5. i \in Nat /\ i <= Len(kept)
    <3>1. PICK x \in Nat, y \in Nat : x = Len(p) /\ y = Len(r)
      BY <1>3
    <3>2. i = x + 1 /\ Len(kept) = x + m + y
      BY <2>4, <3>1
    <3>3. m = 1 \/ m = 2
      BY <2>1
    <3>4. QED BY <3>1, <3>2, <3>3
  <2>6. QED BY <2>2, <2>3, <2>5
<1>7. CASE \E a \in Text : u = <<a>> /\ (a \in TakesValue => k = n)
  <2>1. PICK a \in Text : u = <<a>> /\ (a \in TakesValue => k = n)
    BY <1>7
  <2>2. Len(u) = 1 /\ u[1] = a
    BY <2>1
  <2>3. ASSUME a = "-ipa" PROVE i = Len(kept)
    <3>1. k = n
      BY <2>1, <2>3 DEF TakesValue
    <3>2. NonOwn(units) \in Seq(Seq(Text)) /\ n = Len(NonOwn(units))
      BY <1>1, <1>2, Families
    <3>3. Beyond(NonOwn(units), n) = <<>>
      BY <3>2, UpToFacts
    <3>4. Len(r) = 0
      BY <3>1, <3>3, EmptySeq
    <3>5. QED BY <1>3, <1>4, <2>2, <3>4 DEF Middle
  <2>4. QED BY <1>4, <1>6, <2>2, <2>3
<1>8. CASE \E a \in TakesValue, b \in Text :
             u = <<a, b>> /\ (a = "-ipa" => b \notin Looked) /\ (a = "-proc" => b # "-ipa")
  <2>1. PICK a \in TakesValue, b \in Text : u = <<a, b>> /\ (a = "-proc" => b # "-ipa")
    BY <1>8, Zenon
  <2>2. Len(u) = 2 /\ u[1] = a /\ u[2] = b
    BY <2>1
  <2>3. a \notin Valued
    BY <1>4, <2>2 DEF Own, Whole
  <2>4. a \in {"-ipa", "-proc"}
    BY <2>1, <2>3 DEF TakesValue
  <2>5. i < Len(kept)
    BY <1>3, <1>4, <2>2 DEF Middle
  <2>6. QED BY <1>4, <1>6, <2>1, <2>2, <2>4, <2>5
<1>9. QED BY <1>5, <1>7, <1>8 DEF UnitOK

\* -ipa goes with its value; at the end, without one, it stays.
LEMMA RemoveIpaInv == ASSUME ArgsInv, RemoveIpa PROVE ArgsInv'
<1>1. /\ phase = "ipa" /\ i < Len(kept) /\ kept[i] = "-ipa"
      /\ kept' = SubSeq(kept, 1, i - 1) \o SubSeq(kept, i + 2, Len(kept))
      /\ UNCHANGED <<units, left, opts, arch, thumb, i, phase>>
  BY DEF RemoveIpa, IpaTakes
<1>2. Shape(units) /\ Len(units) \in Nat /\ kept \in Seq(Text) /\ Len(kept) \in Nat
  BY Families, LenProperties DEF ArgsInv, ArgsTypes
<1>3. ~(i = Len(kept) + 1)
  BY <1>1, <1>2
<1>4. \A k \in 1..Len(units) : ~InKept(units, k, kept, i)
  BY <1>1, AtValue
<1>5. PICK k \in 1..Len(units), p \in Seq(Text), r \in Seq(Text) :
        /\ ~Own(units[k]) /\ p = UpTo(Staying(units), k - 1) /\ r = Beyond(NonOwn(units), k)
        /\ Middle(Text, kept, p, units[k], r) /\ i = Len(p) + 1
  BY <1>1, <1>3, <1>4, RemoveCases, Zenon
<1>6. Len(p) \in Nat /\ Len(r) \in Nat
  BY <1>5, LenProperties
<1>7. units[k][1] = "-ipa" /\ Len(units[k]) = 2
  BY <1>1, <1>2, <1>5, <1>6, AtFirst
<1>8. kept' = p \o r
  <2>1. SubSeq(kept, 1, i - 1) = p
    <3>1. SubSeq(kept, 1, Len(p)) = p
      BY <1>5, Zenon DEF Middle
    <3>2. i - 1 = Len(p)
      BY <1>5, <1>6
    <3>3. QED BY <3>1, <3>2
  <2>2. SubSeq(kept, i + 2, Len(kept)) = r
    <3>1. SubSeq(kept, Len(p) + Len(units[k]) + 1, Len(kept)) = r
      BY <1>5, Zenon DEF Middle
    <3>2. i + 2 = Len(p) + Len(units[k]) + 1
      BY <1>5, <1>6, <1>7
    <3>3. QED BY <3>1, <3>2
  <2>3. QED BY <1>1, <2>1, <2>2
<1>9. ~Stays(units, units[k])
  <2>1. AskedNoIpa(units)
    BY <1>1 DEF ArgsInv, Removing
  <2>2. QED BY <1>7, <2>1 DEF Stays, AskedNoIpa, Whole
<1>10. UpTo(Staying(units), k) = p
  BY <1>2, <1>5, <1>9, FamilySame
<1>11. AtKept(units, k, kept', i')
  BY <1>1, <1>5, <1>8, <1>10 DEF AtKept
<1>12. kept' \in Seq(Text) /\ Len(kept') <= Len(kept)
  <2>1. kept' \in Seq(Text) /\ Len(kept') = Len(p) + Len(r)
    BY <1>5, <1>8, ConcatProperties
  <2>2. QED BY <1>5, <1>6, <1>7, <2>1 DEF Middle
<1>13. k \in 0..Len(units)
  BY <1>2
<1>14. RemoveTo(units, k, kept', i')
  BY <1>11 DEF RemoveTo
<1>15. QED BY <1>1, <1>12, <1>13, <1>14, RemoveGoesOn

\* Any other argument is stepped over.
LEMMA KeepArgumentInv == ASSUME ArgsInv, KeepArgument PROVE ArgsInv'
<1>1. /\ phase = "ipa" /\ i <= Len(kept) /\ (i < Len(kept) => kept[i] # "-ipa") /\ i' = i + 1
      /\ UNCHANGED <<units, left, kept, opts, arch, thumb, phase>>
  BY DEF KeepArgument
<1>2. Shape(units) /\ Len(units) \in Nat /\ kept \in Seq(Text) /\ Len(kept) \in Nat
  BY Families, LenProperties DEF ArgsInv, ArgsTypes
<1>3. kept' \in Seq(Text) /\ Len(kept') <= Len(kept)
  BY <1>1, <1>2
<1>4. ASSUME NEW k \in 1..Len(units), InKept(units, k, kept, i) PROVE ArgsInv'
  <2>1. AtKept(units, k, kept', i')
    BY <1>1, <1>4, AtValue
  <2>2. k \in 0..Len(units) /\ RemoveTo(units, k, kept', i')
    BY <1>2, <2>1 DEF RemoveTo
  <2>3. QED BY <1>1, <1>3, <2>2, RemoveGoesOn
<1>5. ASSUME NEW k \in 1..Len(units), NEW p \in Seq(Text), NEW r \in Seq(Text),
             ~Own(units[k]), p = UpTo(Staying(units), k - 1), r = Beyond(NonOwn(units), k),
             Middle(Text, kept, p, units[k], r), i = Len(p) + 1
      PROVE  ArgsInv'
  <2>1. Len(p) \in Nat /\ Len(r) \in Nat
    BY LenProperties
  <2>2. k \in 0..Len(units) /\ k # 0
    BY <1>2
  <2>3. \/ Len(units[k]) = 1
        \/ /\ Len(units[k]) = 2 /\ units[k][1] = "-proc" /\ units[k] = <<"-proc", units[k][2]>>
           /\ units[k][2] \in Text /\ units[k][2] # "-ipa"
    BY <1>1, <1>5, AtFirst
  <2>4. Stays(units, units[k])
    <3>1. ~(units[k][1] = "-ipa" /\ Whole(units[k]))
      <4>1. Len(units[k]) = 1 => ~(units[k][1] = "-ipa" /\ Whole(units[k]))
        BY DEF Whole, TakesValue
      <4>2. units[k][1] = "-proc" => units[k][1] # "-ipa"
        OBVIOUS
      <4>3. QED BY <2>3, <4>1, <4>2
    <3>2. QED BY <1>5, <3>1 DEF Stays
  <2>5. UpTo(Staying(units), k) = p \o units[k]
    BY <1>2, <1>5, <2>4, FamilySame
  <2>6. kept = UpTo(Staying(units), k) \o Beyond(NonOwn(units), k)
    BY <1>5, <2>5 DEF Middle
  <2>7. Len(UpTo(Staying(units), k)) = Len(p) + Len(units[k])
    BY <1>5, <2>5 DEF Middle
  <2>8. CASE Len(units[k]) = 1
    <3>1. AtKept(units, k, kept', i')
      BY <1>1, <1>5, <2>1, <2>6, <2>7, <2>8 DEF AtKept
    <3>2. RemoveTo(units, k, kept', i')
      BY <3>1 DEF RemoveTo
    <3>3. QED BY <1>1, <1>3, <2>2, <3>2, RemoveGoesOn
  <2>9. CASE Len(units[k]) # 1
    <3>1. InKept(units, k, kept', i')
      <4>1. /\ Len(units[k]) = 2 /\ units[k] = <<"-proc", units[k][2]>>
            /\ units[k][2] \in Text /\ units[k][2] # "-ipa"
        BY <2>3, <2>9
      <4>2. i' = Len(UpTo(Staying(units), k))
        BY <1>1, <1>5, <2>1, <2>7, <4>1
      <4>3. kept' = UpTo(Staying(units), k) \o Beyond(NonOwn(units), k)
        BY <1>1, <2>6
      <4>4. QED BY <2>2, <4>1, <4>2, <4>3 DEF InKept
    <3>2. RemoveTo(units, k, kept', i')
      BY <3>1 DEF RemoveTo
    <3>3. QED BY <1>1, <1>3, <2>2, <3>2, RemoveGoesOn
  <2>10. QED BY <2>8, <2>9
<1>6. ~(i = Len(kept) + 1)
  BY <1>1, <1>2
<1>7. QED BY <1>1, <1>4, <1>5, <1>6, RemoveCases, Zenon

\* The end of the second loop keeps it.
LEMMA EndIpaInv == ASSUME ArgsInv, EndIpa PROVE ArgsInv'
<1>1. /\ phase = "ipa" /\ i > Len(kept) /\ phase' = "done"
      /\ UNCHANGED <<units, left, kept, opts, arch, thumb, i>>
  BY DEF EndIpa
<1>2. Len(kept) \in Nat
  BY LenProperties DEF ArgsInv, ArgsTypes
<1>3. \A k \in 1..Len(units) : ~InKept(units, k, kept, i)
  BY <1>1, <1>2, AtValue
<1>4. ASSUME NEW k \in 1..Len(units), NEW p \in Seq(Text), NEW r \in Seq(Text),
             ~Own(units[k]), p = UpTo(Staying(units), k - 1), r = Beyond(NonOwn(units), k),
             Middle(Text, kept, p, units[k], r), i = Len(p) + 1
      PROVE  FALSE
  <2>1. i \in Nat /\ i <= Len(kept)
    BY <1>4, AtFirst
  <2>2. QED BY <1>1, <1>2, <2>1
<1>5. kept = FlattenSeq(Staying(units)) /\ i = Len(kept) + 1
  BY <1>1, <1>3, <1>4, RemoveCases, Zenon
<1>6. Finished'
  BY <1>1, <1>2, <1>5 DEF ArgsInv, Removing, Finished
<1>7. Shape(units)' /\ ArgsTypes' /\ Parsing' /\ Removing'
  BY <1>1 DEF ArgsInv, ArgsTypes, Parsing, Removing
<1>8. QED BY <1>6, <1>7 DEF ArgsInv

-----------------------------------------------------------------------------
(* The theorems.                                                           *)

\* Before the first unit nothing has been asked for.
LEMMA NothingSaid ==
  Shape(units) /\ opts = NoOptions /\ arch = "v5" /\ thumb = FALSE
    => ReadTo(units, 0, opts, arch, thumb)
<1> SUFFICES ASSUME Shape(units), opts = NoOptions, arch = "v5", thumb = FALSE
             PROVE  ReadTo(units, 0, opts, arch, thumb)
  OBVIOUS
<1>0. PICK n \in Nat : n = Len(units)
  BY Families
<1>1. \A T \in SUBSET (1..n) : \A x, val : LastSays(T, 0, x, x, val)
  <2>1. SUFFICES ASSUME NEW T \in SUBSET (1..n), NEW x, NEW val PROVE LastSays(T, 0, x, x, val)
    BY Zenon
  <2>2. \A j \in T : j > 0
    OBVIOUS
  <2>3. QED BY <2>2 DEF LastSays
<1>2. \A v \in Valued : LastSays(ValuesOf(units, v), 0, opts[v], "", Second(units))
  <2> TAKE v \in Valued
  <2>1. opts[v] = ""
    BY DEF NoOptions
  <2>2. ValuesOf(units, v) \in SUBSET (1..n)
    BY <1>0 DEF ValuesOf
  <2>3. QED BY <1>1, <2>1, <2>2
<1>3. LastSays(NoIpas(units), 0, opts["-wrap:noipa"], "", IsSet(units))
  <2>1. opts["-wrap:noipa"] = ""
    BY DEF NoOptions, Flags
  <2>2. NoIpas(units) \in SUBSET (1..n)
    BY <1>0 DEF NoIpas
  <2>3. QED BY <1>1, <2>1, <2>2
<1>4. LastSays(Procs(units), 0, arch, "v5", ArchOf(units))
  <2>1. Procs(units) \in SUBSET (1..n)
    BY <1>0 DEF Procs
  <2>2. QED BY <1>1, <2>1
<1>5. LastSays(Thumbs(units), 0, thumb, FALSE, IsOn(units))
  <2>1. Thumbs(units) \in SUBSET (1..n)
    BY <1>0 DEF Thumbs
  <2>2. QED BY <1>1, <2>1
<1>6. QED BY <1>2, <1>3, <1>4, <1>5 DEF ReadTo

\* Every command that the parser can begin with keeps it.
LEMMA InitArgsInv == ArgsInit => ArgsInv
<1> SUFFICES ASSUME ArgsInit PROVE ArgsInv
  OBVIOUS
<1>1. Shape(units)
  BY InitShape
<1>2. /\ left = FlattenSeq(units) /\ kept = <<>> /\ opts = NoOptions
      /\ arch = "v5" /\ thumb = FALSE /\ i = 1 /\ phase = "parse"
  BY DEF ArgsInit
<1>3. PICK n \in Nat : n = Len(units)
  BY <1>1, Families
<1>4. 0 \in 0..Len(units)
  BY <1>3
<1>5. FlattenSeq(units) \in Seq(Text)
  BY <1>1, <1>4, FamilyParts
<1>6. ArgsTypes
  <2>1. opts \in [Valued \cup Flags -> Text]
    BY <1>2 DEF NoOptions, Text
  <2>2. kept \in Seq(Text) /\ Len(kept) = 0
    BY <1>2, EmptySeq
  <2>3. Len(FlattenSeq(units)) \in Nat
    BY <1>5, LenProperties
  <2>4. Len(kept) + Len(left) <= Len(FlattenSeq(units))
    BY <1>2, <2>2, <2>3
  <2>5. QED BY <1>2, <1>5, <2>1, <2>2, <2>4 DEF ArgsTypes
<1>7. ReadTo(units, 0, opts, arch, thumb)
  BY <1>1, <1>2, NothingSaid
<1>8. AtUnit(units, 0, left, kept)
  <2>1. Beyond(units, 0) = FlattenSeq(units)
    BY <1>1, <1>3, UpToFacts DEF Shape
  <2>2. NonOwn(units) \in Seq(Seq(Text)) /\ n = Len(NonOwn(units))
    BY <1>1, <1>3, Families
  <2>3. UpTo(NonOwn(units), 0) = <<>>
    BY <2>2, UpToFacts
  <2>4. QED BY <1>2, <2>1, <2>3 DEF AtUnit
<1>9. Parsing
  BY <1>2, <1>4, <1>7, <1>8 DEF Parsing, ParseTo
<1>10. Removing /\ Finished
  BY <1>2 DEF Removing, Finished
<1>11. QED BY <1>1, <1>6, <1>9, <1>10 DEF ArgsInv

\* So does a step of somebody else.
LEMMA StutterArgsInv == ASSUME ArgsInv, UNCHANGED argsVars PROVE ArgsInv'
  BY DEF ArgsInv, ArgsTypes, Parsing, Removing, Finished, argsVars

\* Every step keeps it.
LEMMA StepArgsInv == ArgsInv /\ [ArgsNext]_argsVars => ArgsInv'
<1> SUFFICES ASSUME ArgsInv, [ArgsNext]_argsVars PROVE ArgsInv'
  OBVIOUS
<1>1. CASE Proc
  BY <1>1, ProcInv
<1>2. CASE Thumb
  BY <1>2, ThumbInv
<1>3. CASE Flag
  BY <1>3, FlagInv
<1>4. CASE Value
  BY <1>4, ValueInv
<1>5. CASE Other
  BY <1>5, OtherInv
<1>6. CASE EndParse
  BY <1>6, EndParseInv
<1>7. CASE RemoveIpa
  BY <1>7, RemoveIpaInv
<1>8. CASE KeepArgument
  BY <1>8, KeepArgumentInv
<1>9. CASE EndIpa
  BY <1>9, EndIpaInv
<1>10. CASE UNCHANGED argsVars
  BY <1>10, StutterArgsInv
<1>11. QED
  BY <1>1, <1>2, <1>3, <1>4, <1>5, <1>6, <1>7, <1>8, <1>9, <1>10 DEF ArgsNext

\* Wherever parse_args and remove_ipa_arguments are, they have done what the units so
\* far ask for.
THEOREM ArgsInvariance == ArgsSpec => []ArgsInv
<1>1. ArgsInit => ArgsInv
  BY InitArgsInv
<1>2. ArgsInv /\ [ArgsNext]_argsVars => ArgsInv'
  BY StepArgsInv
<1>3. QED BY <1>1, <1>2, PTL DEF ArgsSpec

\* How texts are put together does not matter.
LEMMA TextsAssociative ==
  \A a, b, c \in Seq(Text) : (a \o b) \o c = a \o (b \o c)
<1> SUFFICES ASSUME NEW a \in Seq(Text), NEW b \in Seq(Text), NEW c \in Seq(Text)
             PROVE  (a \o b) \o c = a \o (b \o c)
  OBVIOUS
<1> QED BY ConcatAssociative

\* What is still to be read is the end of the command.
LEMMA LeftIsSuffix == ASSUME ArgsInv PROVE IsSuffix(left, FlattenSeq(units))
<1>1. Shape(units) /\ units \in Seq(Seq(Text))
  BY DEF ArgsInv, Shape
<1>2. CASE phase = "parse"
  <2>1. PICK k \in 0..Len(units) : ParseTo(units, k, left, kept, opts, arch, thumb)
    BY <1>2 DEF ArgsInv, Parsing
  <2>2. PICK n \in Nat : n = Len(units)
    BY <1>1, Families
  <2>3. PICK r \in Seq(Text) : r = Beyond(units, k)
    BY <1>1, FamilyParts
  <2>4. FlattenSeq(units) = UpTo(units, k) \o r
    BY <1>1, <2>3, UpToBeyond
  <2>5. PICK a \in Seq(Text) : a = UpTo(units, k)
    <3>1. k \in 0..n
      BY <2>2
    <3>2. QED BY <1>1, <2>2, <3>1, UpToFacts
  <2>6. CASE AtUnit(units, k, left, kept)
    <3>1. left = r /\ FlattenSeq(units) = a \o r
      BY <2>3, <2>4, <2>5, <2>6 DEF AtUnit
    <3>2. IsSuffix(r, a \o r)
      BY <2>3, <2>5, SuffixOf
    <3>3. QED BY <3>1, <3>2
  <2>7. CASE InUnit(units, k, left, kept)
    <3>1. PICK b \in Text : units[k] = <<"-ipa", b>> /\ left = Cons(b, r)
      <4>1. /\ units[k] = <<"-ipa", units[k][2]>> /\ left = Cons(units[k][2], r)
            /\ units[k][2] \in Text
        BY <2>3, <2>7 DEF InUnit
      <4>2. QED BY <4>1
    <3>2. k \in 1..Len(units)
      BY <2>2, <2>7 DEF InUnit
    <3>3. a = UpTo(units, k - 1) \o <<"-ipa", b>>
      BY <1>1, <2>2, <2>5, <3>1, <3>2, UpToStep
    <3>4. "-ipa" \in Text
      BY DEF Text, TakesValue
    <3>5. PICK d \in Seq(Text) : d = <<"-ipa">>
      BY <3>4, Single
    <3>6. PICK e \in Seq(Text) : e = <<b>>
      BY <3>1, Single
    <3>7. <<"-ipa", b>> = d \o e
      BY <3>1, <3>4, <3>5, <3>6, PairIs
    <3>8. PICK c \in Seq(Text) : c = UpTo(units, k - 1)
      <4>1. k - 1 \in 0..n
        BY <2>2, <3>2
      <4>2. QED BY <1>1, <2>2, <4>1, UpToFacts
    <3>9. PICK f \in Seq(Text) : f = c \o d
      BY <3>5, <3>8, ConcatProperties
    <3>10. a = f \o e
      <4>1. (c \o d) \o e = c \o (d \o e)
        BY <3>5, <3>6, <3>8, Associative
      <4>2. QED BY <3>3, <3>7, <3>8, <3>9, <4>1
    <3>11. a \o r = f \o (e \o r)
      <4>1. (f \o e) \o r = f \o (e \o r)
        <5>1. r \in Seq(Text) /\ e \in Seq(Text) /\ f \in Seq(Text)
          BY <2>3, <3>6, <3>9
        <5>2. QED BY <5>1, TextsAssociative, Zenon
      <4>2. QED BY <3>10, <4>1
    <3>12. left = e \o r /\ left \in Seq(Text)
      BY <3>1, <3>6 DEF Cons, ArgsInv, ArgsTypes
    <3>13. IsSuffix(left, f \o left)
      BY <3>9, <3>12, SuffixOf
    <3>14. QED BY <2>4, <2>5, <3>11, <3>12, <3>13
  <2>8. QED BY <2>1, <2>6, <2>7 DEF ParseTo
<1>3. CASE phase # "parse"
  <2>1. left = <<>>
    BY <1>3 DEF ArgsInv, ArgsTypes, Removing, Finished
  <2>2. FlattenSeq(units) \in Seq(Text) /\ <<>> \in Seq(Text)
    BY <1>1, FlattenType, EmptySeq
  <2>3. PICK f \in Seq(Text) : f = FlattenSeq(units)
    BY <2>2
  <2>4. f \o <<>> = f
    BY <2>3, ConcatEmptySeq
  <2>5. IsSuffix(<<>>, f \o <<>>)
    BY <2>2, <2>3, SuffixOf
  <2>6. QED BY <2>1, <2>3, <2>4, <2>5
<1>4. QED BY <1>2, <1>3

\* What ArgsTypeOK says is among it.
LEMMA ArgsInvTypes == ArgsInv => ArgsTypeOK
<1> SUFFICES ASSUME ArgsInv PROVE ArgsTypeOK
  OBVIOUS
<1>1. IsSuffix(left, FlattenSeq(units))
  BY LeftIsSuffix
<1>2. Len(kept) \in Nat
  BY LenProperties DEF ArgsInv, ArgsTypes
<1>3. i \in 1..(Len(kept) + 1)
  <2>1. CASE phase = "parse"
    BY <1>2, <2>1 DEF ArgsInv, Parsing
  <2>2. CASE phase = "done"
    BY <2>2 DEF ArgsInv, Finished
  <2>3. CASE phase = "ipa"
    <3>1. i = Len(kept) + 1 => i \in 1..(Len(kept) + 1)
      BY <1>2
    <3>2. ASSUME NEW k \in 1..Len(units), InKept(units, k, kept, i) PROVE i \in 1..(Len(kept) + 1)
      <4>1. i \in 1..Len(kept)
        BY <3>2, AtValue
      <4>2. QED BY <1>2, <4>1
    <3>3. ASSUME NEW k \in 1..Len(units), NEW p \in Seq(Text), NEW r \in Seq(Text),
                 ~Own(units[k]), p = UpTo(Staying(units), k - 1), r = Beyond(NonOwn(units), k),
                 Middle(Text, kept, p, units[k], r), i = Len(p) + 1
          PROVE  i \in 1..(Len(kept) + 1)
      <4>1. Len(p) \in Nat
        BY LenProperties
      <4>2. i \in Nat /\ i <= Len(kept)
        BY <3>3, AtFirst
      <4>3. QED BY <1>2, <3>3, <4>1, <4>2
    <3>4. QED BY <2>3, <3>1, <3>2, <3>3, RemoveCases, Zenon
  <2>4. QED BY <2>1, <2>2, <2>3 DEF ArgsInv, ArgsTypes
<1>4. QED BY <1>1, <1>3 DEF ArgsInv, ArgsTypes, ArgsTypeOK

\* new_argv has room for what is kept, and what is kept and what is left were in the
\* command (wrap.c:91).
THEOREM ArgsTyped == ArgsSpec => []ArgsTypeOK
  BY ArgsInvariance, ArgsInvTypes, PTL

\* k is the last of the positions T, 0 when there is none; and x is what val has there.
IsLast(T, k) == k = IF T # {} THEN Max(T) ELSE 0
IsSaidAt(T, k, x, none, val) == x = (IF k = 0 THEN none ELSE val[k]) /\ (k # 0 => k \in T)

\* What SelectLastInSeq finds, where LastSays speaks of the same positions.
LEMMA LastPosition ==
  \A n \in Nat : \A T \in SUBSET (1..n) : \A x, none, val, k :
    LastSays(T, n, x, none, val) /\ IsLast(T, k) => IsSaidAt(T, k, x, none, val)
<1> SUFFICES ASSUME NEW n \in Nat, NEW T \in SUBSET (1..n), NEW x, NEW none, NEW val,
                    NEW k, LastSays(T, n, x, none, val), IsLast(T, k)
             PROVE  IsSaidAt(T, k, x, none, val)
  OBVIOUS
<1>1. x = IF T = {} THEN none ELSE val[Max(T)]
  BY LastSaysAll
<1>2. T # {} => Max(T) \in T
  BY LastOne
<1>3. T # {} => Max(T) # 0
  BY <1>2
<1>4. QED BY <1>1, <1>2, <1>3 DEF IsLast, IsSaidAt

\* At the end of the command it is read as CommandRead says.
LEMMA ArgsInvRead == ArgsInv => CommandRead
<1> SUFFICES ASSUME ArgsInv PROVE CommandRead
  OBVIOUS
<1>1. SUFFICES ASSUME phase = "done" PROVE CommandRead
  BY DEF CommandRead, GivenToTool, LastValue, LibrariesMatch
<1>2. PICK n \in Nat : n = Len(units)
  BY Families DEF ArgsInv
<1>3. ReadTo(units, n, opts, arch, thumb) /\ kept = FlattenSeq(Staying(units))
  BY <1>1, <1>2 DEF ArgsInv, Finished
<1>4. GivenToTool
  BY <1>3, StayingIs DEF GivenToTool
<1>5. LastValue
  <2>1. ASSUME NEW o \in Valued
        PROVE  LET k == LastOf(LAMBDA u : u[1] = o /\ Whole(u))
               IN  opts[o] = IF k = 0 THEN "" ELSE units[k][2]
    <3>1. PICK T \in SUBSET (1..n) : T = ValuesOf(units, o)
      BY <1>2 DEF ValuesOf
    <3>2. LastSays(T, n, opts[o], "", Second(units))
      BY <1>3, <3>1 DEF ReadTo
    <3>3. PICK k : IsLast(T, k)
      BY DEF IsLast
    <3>31. IsSaidAt(T, k, opts[o], "", Second(units))
      BY <1>2, <3>2, <3>3, LastPosition, Zenon
    <3>4. opts[o] = (IF k = 0 THEN "" ELSE Second(units)[k]) /\ (k # 0 => k \in T)
      BY <3>31 DEF IsSaidAt
    <3>5. opts[o] = IF k = 0 THEN "" ELSE units[k][2]
      BY <1>2, <3>4 DEF Second
    <3>6. k = LastOf(LAMBDA u : u[1] = o /\ Whole(u))
      BY <1>2, <3>1, <3>3 DEF LastOf, SelectLastInSeq, ValuesOf, IsLast
    <3>7. QED BY <3>5, <3>6
  <2>2. QED BY <2>1 DEF LastValue
<1>6. LibrariesMatch
  <2>1. PICK P \in SUBSET (1..n) : P = Procs(units)
    BY <1>2 DEF Procs
  <2>2. PICK p : IsLast(P, p)
    BY DEF IsLast
  <2>3. arch = IF p # 0 /\ units[p][2] \in V4 THEN "v4" ELSE "v5"
    <3>1. LastSays(P, n, arch, "v5", ArchOf(units))
      BY <1>3, <2>1 DEF ReadTo
    <3>2. IsSaidAt(P, p, arch, "v5", ArchOf(units))
      BY <1>2, <2>2, <3>1, LastPosition, Zenon
    <3>3. arch = (IF p = 0 THEN "v5" ELSE ArchOf(units)[p]) /\ (p # 0 => p \in P)
      BY <3>2 DEF IsSaidAt
    <3>4. QED BY <1>2, <3>3 DEF ArchOf
  <2>4. p = LastOf(LAMBDA u : u[1] = "-proc" /\ Whole(u) /\ u[2] \in V4 \cup V5)
    BY <1>2, <2>1, <2>2 DEF LastOf, SelectLastInSeq, Procs, IsLast
  <2>5. PICK T \in SUBSET (1..n) : T = Thumbs(units)
    BY <1>2 DEF Thumbs
  <2>6. PICK t : IsLast(T, t)
    BY DEF IsLast
  <2>7. thumb = (t # 0 /\ units[t][1] = "-thumb")
    <3>1. LastSays(T, n, thumb, FALSE, IsOn(units))
      BY <1>3, <2>5 DEF ReadTo
    <3>2. IsSaidAt(T, t, thumb, FALSE, IsOn(units))
      BY <1>2, <2>6, <3>1, LastPosition, Zenon
    <3>3. CASE t = 0
      BY <3>2, <3>3 DEF IsSaidAt
    <3>4. CASE t # 0
      BY <1>2, <3>2, <3>4 DEF IsOn, IsSaidAt
    <3>5. QED BY <3>3, <3>4
  <2>8. t = LastOf(LAMBDA u : u[1] \in {"-thumb", "-nothumb"})
    BY <1>2, <2>5, <2>6 DEF LastOf, SelectLastInSeq, Thumbs, IsLast
  <2>9. QED BY <2>3, <2>4, <2>7, <2>8 DEF LibrariesMatch
<1>7. QED BY <1>4, <1>5, <1>6 DEF CommandRead

\* However the command is put together: the tool is given its own options, each with
\* its values, in order, and none of the wrapper's, nor -ipa with -wrap:noipa; and of
\* what is given more than once the last counts (wrap.c:94-153, 465-482).
THEOREM CommandIsRead == ArgsSpec => []CommandRead
  BY ArgsInvariance, ArgsInvRead, PTL

-----------------------------------------------------------------------------
(* The line. *)

\* What the arguments are made of.
Char == STRING \ {"end"}

-----------------------------------------------------------------------------
(* Where the arguments are in the line.                                    *)

\* The first j characters of an argument end with b backslashes.
IsBack(a, j, b) ==
  b \in 0..j /\ (\A x \in 1..b : a[j + 1 - x] = Slash) /\ (b < j => a[j - b] # Slash)

\* The quote that is the j-th character has them twice in front, and one more.
Escaped(ln, a, j, q) ==
  /\ ln[q[j]] = Quote
  /\ \E b \in 0..(j - 1) : /\ IsBack(a, j - 1, b) /\ q[j] = q[j - 1] + b + 2
                           /\ \A x \in 1..(b + 1) : ln[q[j - 1] + x] = Slash

\* The first n characters of an argument, after a quote behind s; q[j] is where the
\* j-th of them ends.
Placed(ln, a, s, n, q) ==
  /\ s + 1 <= Len(ln) /\ ln[s + 1] = Quote /\ q[0] = s + 1
  /\ \A j \in 0..n : q[j] \in 1..Len(ln)
  /\ \A h, j \in 0..n : h <= j /\ (\A x \in (h + 1)..j : a[x] # Quote) => q[j] = q[h] + (j - h)
  /\ \A j \in 1..n : a[j] # Quote => ln[q[j]] = a[j]
  /\ \A j \in 1..n : a[j] = Quote => Escaped(ln, a, j, q)

\* The whole argument, up to the quote at z.
Closed(ln, a, s, z, q) ==
  /\ Placed(ln, a, s, Len(a), q)
  /\ z <= Len(ln) /\ ln[z] = Quote
  /\ \E b \in 0..Len(a) : /\ IsBack(a, Len(a), b) /\ z = q[Len(a)] + b + 1
                          /\ \A x \in 1..b : ln[q[Len(a)] + x] = Slash

\* One that is copied as it is.
Copied(ln, a, s, z) ==
  z = s + Len(a) /\ z <= Len(ln) /\ \A j \in 1..Len(a) : ln[s + j] = a[j]

\* Arguments end at the places e, with a space between them.
From(e, k) == IF k = 1 THEN 0 ELSE e[k - 1] + 1
Apart(ln, e, k) == k > 1 => e[k - 1] < Len(ln) /\ ln[e[k - 1] + 1] = Space
IsArg(as, ln, e, q, k) ==
  /\ e[k] \in Nat /\ Apart(ln, e, k)
  /\ Blank(as[k]) => Closed(ln, as[k], From(e, k), e[k], q[k])
  /\ ~Blank(as[k]) => Copied(ln, as[k], From(e, k), e[k])
Laid(as, ln, e, q, n) == \A k \in 1..n : IsArg(as, ln, e, q, k)

-----------------------------------------------------------------------------
(* The line grows.                                                         *)

Grown(ln, to) == Len(ln) <= Len(to) /\ \A x \in 1..Len(ln) : to[x] = ln[x]

\* What is laid of an argument stays.
LEMMA PlacedStays ==
  ASSUME NEW ln \in Seq(Char), NEW to \in Seq(Char), Grown(ln, to),
         NEW a, NEW s \in Nat, NEW n \in Nat, NEW q, Placed(ln, a, s, n, q)
  PROVE  Placed(to, a, s, n, q)
<1>1. PICK l \in Nat, m \in Nat : l = Len(ln) /\ m = Len(to)
  BY LenProperties
<1>2. l <= m /\ \A x \in 1..l : to[x] = ln[x]
  BY <1>1 DEF Grown
<1>3. /\ s + 1 <= l /\ ln[s + 1] = Quote /\ q[0] = s + 1
      /\ \A j \in 0..n : q[j] \in 1..l
      /\ \A h, j \in 0..n : h <= j /\ (\A x \in (h + 1)..j : a[x] # Quote) => q[j] = q[h] + (j - h)
      /\ \A j \in 1..n : a[j] # Quote => ln[q[j]] = a[j]
      /\ \A j \in 1..n : a[j] = Quote => Escaped(ln, a, j, q)
  BY <1>1 DEF Placed
<1>4. s + 1 <= m /\ to[s + 1] = Quote
  BY <1>2, <1>3
<1>5. \A j \in 0..n : q[j] \in 1..m /\ to[q[j]] = ln[q[j]]
  BY <1>2, <1>3
<1>6. ASSUME NEW j \in 1..n, a[j] = Quote PROVE Escaped(to, a, j, q)
  <2>1. Escaped(ln, a, j, q)
    BY <1>3, <1>6
  <2>2. PICK b \in 0..(j - 1) : /\ IsBack(a, j - 1, b) /\ q[j] = q[j - 1] + b + 2
                                /\ \A x \in 1..(b + 1) : ln[q[j - 1] + x] = Slash
    BY <2>1 DEF Escaped
  <2>3. q[j - 1] \in 1..l /\ q[j] \in 1..l
    BY <1>3
  <2>4. ASSUME NEW x \in 1..(b + 1) PROVE to[q[j - 1] + x] = Slash
    <3>1. PICK p \in Nat : p = q[j - 1]
      BY <2>3
    <3>2. p + x \in 1..l
      <4>1. PICK r \in 1..l : r = q[j]
        BY <2>3
      <4>2. r = p + b + 2
        BY <2>2, <3>1, <4>1
      <4>3. QED BY <4>1, <4>2
    <3>3. ln[p + x] = Slash
      BY <2>2, <3>1
    <3>4. QED BY <1>2, <3>1, <3>2, <3>3
  <2>5. to[q[j]] = Quote
    <3>1. j \in 0..n /\ ln[q[j]] = Quote
      BY <2>1 DEF Escaped
    <3>2. QED BY <1>5, <3>1
  <2>6. QED BY <2>2, <2>4, <2>5 DEF Escaped
<1>7. \A j \in 1..n : a[j] # Quote => to[q[j]] = a[j]
  BY <1>3, <1>5
<1>8. QED BY <1>1, <1>3, <1>4, <1>5, <1>6, <1>7 DEF Placed

\* And of one that is whole.
LEMMA ArgStays ==
  ASSUME NEW as, NEW ln \in Seq(Char), NEW to \in Seq(Char), Grown(ln, to),
         NEW e, NEW q, NEW f, NEW r, NEW k \in Nat \ {0}, as[k] \in Seq(Char),
         k > 1 => e[k - 1] \in Nat, IsArg(as, ln, e, q, k),
         f[k] = e[k], f[k - 1] = e[k - 1], r[k] = q[k]
  PROVE  IsArg(as, to, f, r, k)
<1>1. PICK l \in Nat, m \in Nat : l = Len(ln) /\ m = Len(to)
  BY LenProperties
<1>2. l <= m /\ \A x \in 1..l : to[x] = ln[x]
  BY <1>1 DEF Grown
<1>3. PICK a \in Seq(Char) : a = as[k]
  OBVIOUS
<1>4. PICK n \in Nat : n = Len(a)
  BY LenProperties
<1>5. PICK s \in Nat : s = From(e, k) /\ s = From(f, k)
  BY DEF From
<1>6. PICK z \in Nat : z = e[k]
  BY DEF IsArg
<1>7. Apart(to, f, k)
  BY <1>1, <1>2 DEF Apart, IsArg
<1>8. ASSUME Blank(a) PROVE Closed(to, a, s, z, q[k])
  <2>1. Closed(ln, a, s, z, q[k])
    BY <1>3, <1>5, <1>6, <1>8 DEF IsArg
  <2>2. PICK p : p = q[k]
    OBVIOUS
  <2>3. /\ Placed(ln, a, s, n, p) /\ z <= l /\ ln[z] = Quote
    BY <1>1, <1>4, <2>1, <2>2 DEF Closed
  <2>4. PICK b \in 0..n : /\ IsBack(a, n, b) /\ z = p[n] + b + 1
                          /\ \A x \in 1..b : ln[p[n] + x] = Slash
    BY <1>4, <2>1, <2>2 DEF Closed
  <2>5. p[n] \in 1..l
    BY <1>1, <2>3 DEF Placed
  <2>6. ASSUME NEW x \in 1..b PROVE to[p[n] + x] = Slash
    <3>1. PICK y \in Nat : y = p[n]
      BY <2>5
    <3>2. y + x \in 1..l
      <4>1. z = y + b + 1 /\ z <= l
        BY <2>3, <2>4, <3>1
      <4>2. QED BY <4>1
    <3>3. ln[y + x] = Slash
      BY <2>4, <3>1
    <3>4. QED BY <1>2, <3>1, <3>2, <3>3
  <2>7. z <= m /\ to[z] = Quote
    <3>1. PICK y \in 1..l : y = p[n]
      BY <2>5
    <3>2. z = y + b + 1 /\ z <= l
      BY <2>3, <2>4, <3>1
    <3>3. z \in 1..l
      BY <3>2
    <3>4. QED BY <1>2, <2>3, <3>3
  <2>8. Placed(to, a, s, n, p)
    BY <2>3, PlacedStays
  <2>9. QED BY <1>1, <1>4, <2>2, <2>4, <2>6, <2>7, <2>8 DEF Closed
<1>9. ASSUME ~Blank(a) PROVE Copied(to, a, s, z)
  <2>1. z = s + n /\ z <= l /\ \A j \in 1..n : ln[s + j] = a[j]
    BY <1>1, <1>3, <1>4, <1>5, <1>6, <1>9 DEF IsArg, Copied
  <2>2. ASSUME NEW j \in 1..n PROVE to[s + j] = a[j]
    <3>1. s + j \in 1..l
      BY <2>1
    <3>2. ln[s + j] = a[j]
      BY <2>1
    <3>3. QED BY <1>2, <3>1, <3>2
  <2>3. QED BY <1>1, <1>2, <1>4, <2>1, <2>2 DEF Copied
<1>10. QED BY <1>3, <1>5, <1>6, <1>7, <1>8, <1>9 DEF IsArg

\* All that is laid stays.
LEMMA LaidStays ==
  ASSUME NEW as \in Seq(Seq(Char)), NEW ln \in Seq(Char), NEW to \in Seq(Char), Grown(ln, to),
         NEW e, NEW q, NEW f, NEW r, NEW n \in 0..Len(as), Laid(as, ln, e, q, n),
         \A k \in 0..n : f[k] = e[k], \A k \in 1..n : r[k] = q[k]
  PROVE  Laid(as, to, f, r, n)
<1> SUFFICES ASSUME NEW k \in 1..n PROVE IsArg(as, to, f, r, k)
  BY DEF Laid
<1>1. PICK m \in Nat : m = Len(as)
  BY LenProperties
<1>2. k \in Nat \ {0} /\ k \in 1..m /\ k - 1 \in 0..n /\ k \in 0..n
  <2>1. n \in 0..m
    BY <1>1
  <2>2. QED BY <2>1
<1>3. as[k] \in Seq(Char)
  BY <1>1, <1>2, ElementOfSeq
<1>4. IsArg(as, ln, e, q, k)
  BY DEF Laid
<1>5. ASSUME k > 1 PROVE e[k - 1] \in Nat
  <2>1. k - 1 \in 1..n
    BY <1>2, <1>5
  <2>2. IsArg(as, ln, e, q, k - 1)
    BY <2>1 DEF Laid
  <2>3. QED BY <2>2 DEF IsArg
<1>6. f[k] = e[k] /\ f[k - 1] = e[k - 1] /\ r[k] = q[k]
  BY <1>2
<1>7. QED BY <1>2, <1>3, <1>4, <1>5, <1>6, ArgStays

-----------------------------------------------------------------------------
(* One character more.                                                     *)

\* The places with one more.
OneMore(q, n, z) == [j \in 0..(n + 1) |-> IF j = n + 1 THEN z ELSE q[j]]

\* A character that is not a quote.
LEMMA CharCopied ==
  ASSUME NEW ln \in Seq(Char), NEW to \in Seq(Char), Grown(ln, to), Len(to) = Len(ln) + 1,
         NEW a \in Seq(Char), NEW s \in Nat, NEW n \in Nat, NEW q, Placed(ln, a, s, n, q), q[n] = Len(ln),
         a[n + 1] # Quote, to[Len(ln) + 1] = a[n + 1]
  PROVE  Placed(to, a, s, n + 1, OneMore(q, n, Len(to)))
<1>1. PICK l \in Nat : l = Len(ln) /\ Len(to) = l + 1
  BY LenProperties
<1>2. PICK p : p = OneMore(q, n, l + 1)
  OBVIOUS
<1>3. p[n + 1] = l + 1 /\ \A j \in 0..n : p[j] = q[j]
  BY <1>2 DEF OneMore
<1>4. /\ s + 1 <= l + 1 /\ to[s + 1] = Quote /\ q[0] = s + 1
      /\ \A j \in 0..n : q[j] \in 1..(l + 1)
      /\ \A h, j \in 0..n : h <= j /\ (\A x \in (h + 1)..j : a[x] # Quote) => q[j] = q[h] + (j - h)
      /\ \A j \in 1..n : a[j] # Quote => to[q[j]] = a[j]
      /\ \A j \in 1..n : a[j] = Quote => Escaped(to, a, j, q)
  <2>1. Placed(to, a, s, n, q)
    BY PlacedStays
  <2>2. QED BY <1>1, <2>1 DEF Placed
<1>5. ASSUME NEW h \in 0..(n + 1), NEW j \in 0..(n + 1), h <= j, \A x \in (h + 1)..j : a[x] # Quote
      PROVE  p[j] = p[h] + (j - h)
  <2>1. CASE j \in 0..n
    <3>1. h \in 0..n
      BY <1>5, <2>1
    <3>2. q[j] = q[h] + (j - h)
      BY <1>4, <1>5, <2>1, <3>1
    <3>3. QED BY <1>3, <2>1, <3>1, <3>2
  <2>2. CASE j = n + 1 /\ h = n + 1
    BY <1>3, <2>2
  <2>3. CASE j = n + 1 /\ h \in 0..n
    <3>1. \A x \in (h + 1)..n : a[x] # Quote
      BY <1>5, <2>3
    <3>2. n \in 0..n /\ h <= n
      BY <2>3
    <3>3. q[n] = q[h] + (n - h)
      BY <1>4, <2>3, <3>1, <3>2
    <3>4. PICK y \in Nat : y = q[h] /\ y = p[h]
      <4>1. q[h] \in 1..(l + 1)
        BY <1>4, <2>3
      <4>2. p[h] = q[h]
        BY <1>3, <2>3
      <4>3. QED BY <4>1, <4>2
    <3>5. l = y + (n - h)
      BY <1>1, <3>3, <3>4
    <3>6. l + 1 = y + ((n + 1) - h)
      BY <2>3, <3>5
    <3>7. QED BY <1>3, <2>3, <3>4, <3>6
  <2>4. QED BY <2>1, <2>2, <2>3
<1>6. ASSUME NEW j \in 0..(n + 1) PROVE p[j] \in 1..(l + 1)
  <2>1. CASE j \in 0..n
    BY <1>3, <1>4, <2>1
  <2>2. CASE j = n + 1
    BY <1>3, <2>2
  <2>3. QED BY <2>1, <2>2
<1>7. ASSUME NEW j \in 1..(n + 1), a[j] # Quote PROVE to[p[j]] = a[j]
  <2>1. CASE j \in 1..n
    <3>1. p[j] = q[j]
      BY <1>3, <2>1
    <3>2. QED BY <1>4, <1>7, <2>1, <3>1
  <2>2. CASE j = n + 1
    BY <1>1, <1>3, <2>2
  <2>3. QED BY <2>1, <2>2
<1>8. ASSUME NEW j \in 1..(n + 1), a[j] = Quote PROVE Escaped(to, a, j, p)
  <2>5. j # n + 1
    BY <1>8
  <2>1. j \in 1..n /\ j \in 0..n /\ j - 1 \in 0..n
    BY <2>5
  <2>2. Escaped(to, a, j, q)
    BY <1>4, <1>8, <2>1
  <2>3. p[j] = q[j] /\ p[j - 1] = q[j - 1]
    BY <1>3, <2>1
  <2>4. QED BY <2>2, <2>3 DEF Escaped
<1>9. p[0] = s + 1
  <2>1. 0 \in 0..n
    OBVIOUS
  <2>2. QED BY <1>3, <1>4, <2>1
<1>10. QED BY <1>1, <1>2, <1>4, <1>5, <1>6, <1>7, <1>8, <1>9 DEF Placed

\* A quote, with b backslashes in front of it.
LEMMA QuoteEscaped ==
  ASSUME NEW ln \in Seq(Char), NEW to \in Seq(Char), Grown(ln, to),
         NEW a \in Seq(Char), NEW s \in Nat, NEW n \in Nat, NEW q, Placed(ln, a, s, n, q), q[n] = Len(ln),
         a[n + 1] = Quote, NEW b \in 0..n, IsBack(a, n, b), Len(to) = Len(ln) + b + 2,
         \A x \in 1..(b + 1) : to[Len(ln) + x] = Slash, to[Len(to)] = Quote
  PROVE  Placed(to, a, s, n + 1, OneMore(q, n, Len(to)))
<1>1. PICK l \in Nat : l = Len(ln) /\ Len(to) = l + b + 2
  BY LenProperties
<1>11. PICK z \in Nat : z = l + b + 2
  OBVIOUS
<1>2. PICK p : p = OneMore(q, n, z)
  OBVIOUS
<1>3. p[n + 1] = z /\ \A j \in 0..n : p[j] = q[j]
  BY <1>2 DEF OneMore
<1>4. /\ s + 1 <= z /\ to[s + 1] = Quote /\ q[0] = s + 1
      /\ \A j \in 0..n : q[j] \in 1..z
      /\ \A h, j \in 0..n : h <= j /\ (\A x \in (h + 1)..j : a[x] # Quote) => q[j] = q[h] + (j - h)
      /\ \A j \in 1..n : a[j] # Quote => to[q[j]] = a[j]
      /\ \A j \in 1..n : a[j] = Quote => Escaped(to, a, j, q)
  <2>1. Placed(to, a, s, n, q)
    BY PlacedStays
  <2>2. QED BY <1>1, <1>11, <2>1 DEF Placed
<1>5. ASSUME NEW h \in 0..(n + 1), NEW j \in 0..(n + 1), h <= j, \A x \in (h + 1)..j : a[x] # Quote
      PROVE  p[j] = p[h] + (j - h)
  <2>1. CASE j \in 0..n
    <3>1. h \in 0..n
      BY <1>5, <2>1
    <3>2. q[j] = q[h] + (j - h)
      BY <1>4, <1>5, <2>1, <3>1
    <3>3. QED BY <1>3, <2>1, <3>1, <3>2
  <2>2. CASE j = n + 1 /\ h = n + 1
    BY <1>3, <2>2
  <2>3. CASE j = n + 1 /\ h \in 0..n
    BY <1>5, <2>3
  <2>4. QED BY <2>1, <2>2, <2>3
<1>6. ASSUME NEW j \in 0..(n + 1) PROVE p[j] \in 1..z
  <2>1. CASE j \in 0..n
    BY <1>3, <1>4, <2>1
  <2>2. CASE j = n + 1
    BY <1>3, <1>11, <2>2
  <2>3. QED BY <2>1, <2>2
<1>7. ASSUME NEW j \in 1..(n + 1), a[j] # Quote PROVE to[p[j]] = a[j]
  <2>1. j \in 1..n
    BY <1>7
  <2>2. p[j] = q[j]
    BY <1>3, <2>1
  <2>3. QED BY <1>4, <1>7, <2>1, <2>2
<1>8. ASSUME NEW j \in 1..(n + 1), a[j] = Quote PROVE Escaped(to, a, j, p)
  <2>1. CASE j = n + 1
    <3>6. j - 1 = n /\ n \in 0..n
      BY <2>1
    <3>7. p[n] = l
      BY <1>1, <1>3, <3>6
    <3>8. p[j] = z
      BY <1>3, <2>1
    <3>1. j - 1 = n /\ p[j - 1] = l /\ p[j] = l + b + 2
      BY <1>11, <3>6, <3>7, <3>8
    <3>2. to[p[j]] = Quote
      BY <1>1, <3>1
    <3>3. \A x \in 1..(b + 1) : to[p[j - 1] + x] = Slash
      BY <1>1, <3>1
    <3>4. b \in 0..(j - 1) /\ IsBack(a, j - 1, b) /\ p[j] = p[j - 1] + b + 2
      BY <2>1, <3>1
    <3>5. QED BY <3>2, <3>3, <3>4 DEF Escaped
  <2>2. CASE j # n + 1
    <3>1. j \in 1..n /\ j \in 0..n /\ j - 1 \in 0..n
      BY <2>2
    <3>2. Escaped(to, a, j, q)
      BY <1>4, <1>8, <3>1
    <3>3. p[j] = q[j] /\ p[j - 1] = q[j - 1]
      BY <1>3, <3>1
    <3>4. QED BY <3>2, <3>3 DEF Escaped
  <2>3. QED BY <2>1, <2>2
<1>9. p[0] = s + 1
  <2>1. 0 \in 0..n
    OBVIOUS
  <2>2. QED BY <1>3, <1>4, <2>1
<1>10. QED BY <1>1, <1>2, <1>4, <1>5, <1>6, <1>7, <1>8, <1>9, <1>11 DEF Placed

\* What is behind a backslash, and behind any other character.
LEMMA BackNext ==
  ASSUME NEW a \in Seq(Char), NEW n \in Nat, NEW b, IsBack(a, n, b)
  PROVE  /\ a[n + 1] = Slash => IsBack(a, n + 1, b + 1)
         /\ a[n + 1] # Slash => IsBack(a, n + 1, 0)
<1>1. b \in 0..n /\ (\A x \in 1..b : a[n + 1 - x] = Slash) /\ (b < n => a[n - b] # Slash)
  BY DEF IsBack
<1>2. ASSUME a[n + 1] = Slash PROVE IsBack(a, n + 1, b + 1)
  <2>1. ASSUME NEW x \in 1..(b + 1) PROVE a[(n + 1) + 1 - x] = Slash
    <3>1. CASE x = 1
      <4>1. (n + 1) + 1 - x = n + 1
        BY <3>1
      <4>2. QED BY <1>2, <4>1
    <3>2. CASE x # 1
      <4>1. x - 1 \in 1..b /\ (n + 1) + 1 - x = n + 1 - (x - 1)
        BY <1>1, <3>2
      <4>2. QED BY <1>1, <4>1
    <3>3. QED BY <3>1, <3>2
  <2>2. (n + 1) - (b + 1) = n - b /\ (b + 1 < n + 1 => b < n) /\ b + 1 \in 0..(n + 1)
    BY <1>1
  <2>3. QED BY <1>1, <2>1, <2>2 DEF IsBack
<1>3. ASSUME a[n + 1] # Slash PROVE IsBack(a, n + 1, 0)
  <2>1. (n + 1) - 0 = n + 1 /\ 1..0 = {}
    OBVIOUS
  <2>2. QED BY <1>3, <2>1 DEF IsBack
<1>4. QED BY <1>2, <1>3

\* There is one such number.
LEMMA BackIs ==
  ASSUME NEW a, NEW n \in Nat, NEW b, NEW d, IsBack(a, n, b), IsBack(a, n, d)
  PROVE  b = d
<1>1. /\ b \in 0..n /\ (\A x \in 1..b : a[n + 1 - x] = Slash) /\ (b < n => a[n - b] # Slash)
      /\ d \in 0..n /\ (\A x \in 1..d : a[n + 1 - x] = Slash) /\ (d < n => a[n - d] # Slash)
  BY DEF IsBack
<1>2. ASSUME b < d PROVE FALSE
  <2>1. b + 1 \in 1..d /\ n + 1 - (b + 1) = n - b /\ b < n
    BY <1>1, <1>2
  <2>2. QED BY <1>1, <2>1
<1>3. ASSUME d < b PROVE FALSE
  <2>1. d + 1 \in 1..b /\ n + 1 - (d + 1) = n - d /\ d < n
    BY <1>1, <1>3
  <2>2. QED BY <1>1, <2>1
<1>4. QED BY <1>1, <1>2, <1>3

-----------------------------------------------------------------------------
(* The inductive invariant.                                                *)

LineTypes ==
  /\ argv \in Argvs /\ arg \in 0..Len(argv) /\ line \in Seq(Char)
  /\ pc \in {"next", "copy", "read", "done"} /\ quoted = (pc = "copy")
  /\ at \in 0..Len(line) /\ open \in BOOLEAN /\ inside \in BOOLEAN
  /\ got \in Seq(Seq(Char)) /\ (inside => got # <<>>)
  /\ pc \in {"next", "copy"} => at = 0 /\ ~open /\ ~inside /\ got = <<>>

\* What is copied between quotes, and the backslashes at its end.
InCopy ==
  pc = "copy" => arg # 0 /\ pos \in 0..Len(Here) /\ Blank(Here) /\ IsBack(Here, pos, back)

\* The line so far.
Writing ==
  /\ pc = "next" => \E e, q : /\ Laid(argv, line, e, q, arg)
                              /\ Len(line) = IF arg = 0 THEN 0 ELSE e[arg]
  /\ pc = "copy" => \E e, q, p : /\ Laid(argv, line, e, q, arg - 1) /\ Apart(line, e, arg)
                                 /\ Placed(line, Here, From(e, arg), pos, p)
                                 /\ p[pos] = Len(line)

\* The first j characters of an argument.
Prefix(g, a, j) == Len(g) = j /\ \A x \in 1..j : g[x] = a[x]

\* No backslash is taken without those behind it.
Clean(a, j) ==
  \/ j = 0
  \/ a[j] # Slash
  \/ j < Len(a) /\ a[j + 1] # Slash /\ a[j + 1] # Quote

\* The reader is in the k-th argument.
InPlain(a, s) == ~open /\ \E j \in 0..Len(a) : at = s + j /\ Prefix(got[Len(got)], a, j)
InQuoted(a, s, z, p) ==
  \/ ~open /\ at = s /\ got[Len(got)] = <<>>
  \/ open /\ \E j \in 0..Len(a) : at = p[j] /\ Clean(a, j) /\ Prefix(got[Len(got)], a, j)
  \/ open /\ at + 1 = z /\ got[Len(got)] = a
  \/ ~open /\ at = z /\ got[Len(got)] = a
Inside(e, q, k) ==
  /\ k # 0
  /\ ~Blank(argv[k]) => InPlain(argv[k], From(e, k))
  /\ Blank(argv[k]) => InQuoted(argv[k], From(e, k), e[k], q[k])

\* It is behind it.
Behind(e, k) ==
  /\ k # 0 => got[k] = argv[k]
  /\ \/ k # 0 /\ at = e[k]
     \/ k < Len(argv) /\ at = From(e, k + 1)

\* What has been read is what was written.
Read(e, q) ==
  /\ Len(got) <= Len(argv)
  /\ \A x \in 1..(Len(got) - 1) : got[x] = argv[x]
  /\ inside => Inside(e, q, Len(got))
  /\ ~inside => Behind(e, Len(got))

Legible == \A k \in DOMAIN argv : ~Bare(argv[k])
Reading ==
  /\ pc \in {"read", "done"} => arg = Len(argv)
  /\ pc = "read" => \E e, q : /\ Laid(argv, line, e, q, Len(argv)) /\ e[Len(argv)] = Len(line)
                              /\ Legible => Read(e, q)
  /\ pc = "done" /\ Legible => got = argv

LineInv == LineTypes /\ InCopy /\ Writing /\ Reading

-----------------------------------------------------------------------------
(* The line is written.                                                    *)

\* The four characters.
LEMMA Characters ==
  /\ Space \in Char /\ Line \in Char /\ Quote \in Char /\ Slash \in Char /\ "end" \notin Char
  /\ Space # Line /\ Space # Quote /\ Space # Slash /\ Line # Quote /\ Line # Slash /\ Quote # Slash
  /\ Space # "end" /\ Quote # "end" /\ Slash # "end"
BY LineAssumption DEF Char

\* The arguments.
LEMMA ArgvTyped ==
  ASSUME LineTypes
  PROVE  /\ argv \in Seq(Seq(Char)) /\ Len(argv) \in Nat \ {0} /\ argv[1] # <<>>
         /\ \A k \in 1..Len(argv) : argv[k] \in Seq(Char)
         /\ \A j \in 1..Len(argv[1]) : argv[1][j] # Quote
         /\ argv[1][Len(argv[1])] # Slash
<1>1. /\ argv \in Seq(Seq(Char)) /\ argv # <<>> /\ argv[1] # <<>>
      /\ \A k \in DOMAIN argv[1] : argv[1][k] # Quote
      /\ argv[1][Len(argv[1])] # Slash
  BY LineAssumption DEF LineTypes, Char
<1>2. PICK n \in Nat : n = Len(argv)
  BY <1>1, LenProperties
<1>3. n # 0
  BY <1>1, <1>2, EmptySeq
<1>4. \A k \in 1..n : argv[k] \in Seq(Char)
  BY <1>1, <1>2, ElementOfSeq
<1>5. DOMAIN argv[1] = 1..Len(argv[1])
  BY <1>3, <1>4, LenProperties
<1>6. QED BY <1>1, <1>2, <1>3, <1>4, <1>5

\* Something is put behind.
PutAfter(ln, u, to) ==
  /\ to \in Seq(Char) /\ Grown(ln, to) /\ Len(to) = Len(ln) + Len(u)
  /\ \A x \in 1..Len(u) : to[Len(ln) + x] = u[x]
LEMMA PutBehind == \A ln, u \in Seq(Char) : PutAfter(ln, u, ln \o u)
<1> SUFFICES ASSUME NEW ln \in Seq(Char), NEW u \in Seq(Char), NEW to, to = ln \o u
             PROVE  PutAfter(ln, u, to)
  OBVIOUS
<1>1. PICK l \in Nat, m \in Nat : l = Len(ln) /\ m = Len(u)
  BY LenProperties
<1>2. to \in Seq(Char) /\ Len(to) = l + m /\ \A x \in 1..(l + m) : to[x] = IF x <= l THEN ln[x] ELSE u[x - l]
  BY <1>1, ConcatProperties
<1>3. Grown(ln, to)
  BY <1>1, <1>2 DEF Grown
<1>4. ASSUME NEW x \in 1..m PROVE to[l + x] = u[x]
  <2>1. l + x \in 1..(l + m) /\ ~(l + x <= l) /\ (l + x) - l = x
    OBVIOUS
  <2>2. QED BY <1>2, <2>1
<1>5. QED BY <1>1, <1>2, <1>3, <1>4 DEF PutAfter

\* One character is.
LEMMA OneBehind ==
  ASSUME NEW ln \in Seq(Char), NEW ch \in Char, NEW to, to = Append(ln, ch)
  PROVE  /\ to \in Seq(Char) /\ Grown(ln, to) /\ Len(to) = Len(ln) + 1 /\ to[Len(ln) + 1] = ch
<1>1. PICK l \in Nat : l = Len(ln)
  BY LenProperties
<1>2. /\ Len(Append(ln, ch)) = l + 1 /\ Append(ln, ch)[l + 1] = ch
      /\ \A x \in 1..l : Append(ln, ch)[x] = ln[x]
  BY <1>1, AppendProperties
<1>3. QED BY <1>1, <1>2 DEF Grown

\* It grows and grows.
LEMMA GrownTwice ==
  ASSUME NEW a \in Seq(Char), NEW b \in Seq(Char), NEW d \in Seq(Char), Grown(a, b), Grown(b, d)
  PROVE  Grown(a, d)
<1>1. PICK l \in Nat, m \in Nat, n \in Nat : l = Len(a) /\ m = Len(b) /\ n = Len(d)
  BY LenProperties
<1>2. l <= m /\ m <= n /\ (\A x \in 1..l : b[x] = a[x]) /\ (\A x \in 1..m : d[x] = b[x])
  BY <1>1 DEF Grown
<1>3. \A x \in 1..l : d[x] = a[x]
  BY <1>2
<1>4. QED BY <1>1, <1>2, <1>3 DEF Grown

\* A space stays.
LEMMA ApartStays ==
  ASSUME NEW ln \in Seq(Char), NEW to \in Seq(Char), Grown(ln, to), NEW e, NEW k \in Nat \ {0},
         k > 1 => e[k - 1] \in Nat, Apart(ln, e, k)
  PROVE  Apart(to, e, k)
<1>1. PICK l \in Nat, m \in Nat : l = Len(ln) /\ m = Len(to)
  BY LenProperties
<1>2. l <= m /\ \A x \in 1..l : to[x] = ln[x]
  BY <1>1 DEF Grown
<1>3. QED BY <1>1, <1>2 DEF Apart

\* The space in front of an argument.
LEMMA SeparatedIs ==
  ASSUME LineTypes, NEW e, Len(line) = IF arg = 0 THEN 0 ELSE e[arg]
  PROVE  /\ Separated \in Seq(Char) /\ Grown(line, Separated)
         /\ Len(Separated) = From(e, arg + 1) /\ Apart(Separated, e, arg + 1)
<1>1. PICK n \in Nat : n = arg
  BY ArgvTyped DEF LineTypes
<1>2. PICK l \in Nat : l = Len(line) /\ line \in Seq(Char)
  BY LenProperties DEF LineTypes
<1>3. CASE n = 0
  <2>1. Separated = line
    BY <1>1, <1>3 DEF Separated
  <2>2. Grown(line, line)
    BY <1>2 DEF Grown
  <2>3. QED BY <1>1, <1>2, <1>3, <2>1, <2>2 DEF From, Apart
<1>4. CASE n # 0
  <2>1. PICK t : t = Separated /\ t = Append(line, Space)
    BY <1>1, <1>4 DEF Separated
  <2>2. t \in Seq(Char) /\ Grown(line, t) /\ Len(t) = l + 1 /\ t[l + 1] = Space
    BY <1>2, <2>1, OneBehind, Characters
  <2>3. e[(n + 1) - 1] = l /\ n + 1 # 1 /\ n + 1 > 1
    BY <1>1, <1>2, <1>4
  <2>4. QED BY <1>1, <1>2, <2>1, <2>2, <2>3 DEF From, Apart
<1>5. QED BY <1>3, <1>4

\* The places where arguments end, with one more.
NextEnd(e, n, z) == [x \in 0..n |-> IF x = n THEN z ELSE e[x]]

\* What is laid stays when the places get one more.
LEMMA LaidFurther ==
  ASSUME NEW as \in Seq(Seq(Char)), NEW ln \in Seq(Char), NEW to \in Seq(Char), Grown(ln, to),
         NEW e, NEW q, NEW n \in Nat, n + 1 <= Len(as), Laid(as, ln, e, q, n), NEW z, NEW p
  PROVE  Laid(as, to, NextEnd(e, n + 1, z), NextEnd(q, n + 1, p), n)
<1>1. PICK m \in Nat : m = Len(as)
  BY LenProperties
<1>21. n + 1 <= m
  BY <1>1
<1>2. n \in 0..m
  BY <1>21
<1>3. PICK f, r : f = NextEnd(e, n + 1, z) /\ r = NextEnd(q, n + 1, p)
  OBVIOUS
<1>4. (\A k \in 0..n : f[k] = e[k]) /\ (\A k \in 1..n : r[k] = q[k])
  BY <1>3 DEF NextEnd
<1>5. Laid(as, to, f, r, n)
  <2>1. n \in 0..Len(as)
    BY <1>1, <1>2
  <2>2. QED BY <1>1, <1>2, <1>4, <2>1, LaidStays
<1>6. QED BY <1>3, <1>5

\* The end of the last argument is a number.
LEMMA EndTyped ==
  ASSUME NEW as, NEW ln, NEW e, NEW q, NEW n \in Nat, Laid(as, ln, e, q, n)
  PROVE  \A k \in 1..n : e[k] \in Nat
BY DEF Laid, IsArg

\* CopyPlain keeps it.
LEMMA CopyPlainKeeps == ASSUME LineInv, CopyPlain PROVE LineInv'
<1>1. /\ pc = "next" /\ arg < Len(argv) /\ ~Blank(argv[arg + 1]) /\ arg' = arg + 1
      /\ line' = Separated \o argv[arg + 1]
      /\ UNCHANGED <<argv, pos, quoted, back, pc, at, open, inside, got>>
  BY DEF CopyPlain, reader
<1>2. LineTypes /\ argv \in Seq(Seq(Char)) /\ \A k \in 1..Len(argv) : argv[k] \in Seq(Char)
  BY ArgvTyped DEF LineInv
<1>31. PICK m \in Nat : m = Len(argv)
  BY <1>2, LenProperties
<1>32. arg \in 0..m
  BY <1>2, <1>31 DEF LineTypes
<1>3. PICK n \in Nat : n = arg /\ m = Len(argv) /\ n < m
  BY <1>1, <1>31, <1>32
<1>4. PICK a \in Seq(Char) : a = argv[n + 1]
  BY <1>2, <1>3
<1>5. PICK e, q : Laid(argv, line, e, q, n) /\ Len(line) = IF n = 0 THEN 0 ELSE e[n]
  BY <1>1, <1>3 DEF LineInv, Writing
<1>6. PICK sp \in Seq(Char) : /\ sp = Separated /\ Grown(line, sp) /\ Len(sp) = From(e, n + 1)
                              /\ Apart(sp, e, n + 1)
  BY <1>2, <1>3, <1>5, SeparatedIs
<1>7. PICK to : to = sp \o a
  OBVIOUS
<1>8. /\ to \in Seq(Char) /\ Grown(sp, to) /\ Len(to) = Len(sp) + Len(a)
      /\ \A x \in 1..Len(a) : to[Len(sp) + x] = a[x]
  <2>1. PutAfter(sp, a, to)
    BY <1>7, PutBehind, Zenon
  <2>2. QED BY <2>1 DEF PutAfter
<1>9. line' = to /\ line \in Seq(Char)
  BY <1>1, <1>2, <1>3, <1>4, <1>6, <1>7 DEF LineTypes
<1>10. Grown(line, to)
  BY <1>6, <1>8, <1>9, GrownTwice
<1>11. PICK z \in Nat : z = Len(to)
  BY <1>8, LenProperties
<1>12. PICK f, r : f = NextEnd(e, n + 1, z) /\ r = NextEnd(q, n + 1, 0)
  OBVIOUS
<1>13. Laid(argv, to, f, r, n)
  <2>1. n + 1 <= Len(argv)
    BY <1>3
  <2>2. QED BY <1>2, <1>5, <1>8, <1>9, <1>10, <1>12, <2>1, LaidFurther
<1>14. f[n + 1] = z /\ f[n] = e[n]
  BY <1>12 DEF NextEnd
<1>15. From(f, n + 1) = From(e, n + 1) /\ Len(sp) \in Nat
  <2>1. (n + 1) - 1 = n
    OBVIOUS
  <2>2. QED BY <1>14, <2>1, LenProperties DEF From
<1>16. Apart(to, f, n + 1)
  <2>1. n + 1 > 1 => e[(n + 1) - 1] \in Nat
    BY <1>5, EndTyped
  <2>2. Apart(to, e, n + 1)
    BY <1>6, <1>8, <2>1, ApartStays
  <2>3. (n + 1) - 1 = n
    OBVIOUS
  <2>4. QED BY <1>14, <2>2, <2>3 DEF Apart
<1>17. Copied(to, a, From(f, n + 1), z)
  BY <1>6, <1>8, <1>11, <1>15 DEF Copied
<1>18. IsArg(argv, to, f, r, n + 1)
  BY <1>1, <1>3, <1>4, <1>11, <1>14, <1>16, <1>17 DEF IsArg
<1>19. Laid(argv, to, f, r, n + 1)
  <2>1. ASSUME NEW k \in 1..(n + 1) PROVE IsArg(argv, to, f, r, k)
    <3>1. CASE k = n + 1
      BY <1>18, <3>1
    <3>2. CASE k # n + 1
      <4>1. k \in 1..n
        BY <3>2
      <4>2. QED BY <1>13, <4>1 DEF Laid
    <3>3. QED BY <3>1, <3>2
  <2>2. QED BY <2>1 DEF Laid
<1>20. Writing'
  <2>1. Len(to) = IF n + 1 = 0 THEN 0 ELSE f[n + 1]
    BY <1>11, <1>14
  <2>2. Laid(argv', line', f, r, arg')
    BY <1>1, <1>3, <1>9, <1>19
  <2>3. Len(line') = IF arg' = 0 THEN 0 ELSE f[arg']
    BY <1>1, <1>3, <1>9, <2>1
  <2>4. pc' = "next"
    BY <1>1
  <2>5. QED BY <2>2, <2>3, <2>4 DEF Writing
<1>21. LineTypes'
  <2>1. arg' \in 0..Len(argv')
    BY <1>1, <1>3
  <2>2. line' \in Seq(Char) /\ at' \in 0..Len(line')
    BY <1>1, <1>2, <1>8, <1>9, <1>11 DEF LineTypes
  <2>3. QED BY <1>1, <1>2, <2>1, <2>2 DEF LineTypes
<1>22. QED BY <1>1, <1>20, <1>21 DEF LineInv, InCopy, Reading

\* OpenQuote keeps it.
LEMMA OpenQuoteKeeps == ASSUME LineInv, OpenQuote PROVE LineInv'
<1>1. /\ pc = "next" /\ arg < Len(argv) /\ Blank(argv[arg + 1]) /\ arg' = arg + 1
      /\ pos' = 0 /\ back' = 0 /\ quoted' = TRUE /\ pc' = "copy"
      /\ line' = Append(Separated, Quote)
      /\ UNCHANGED <<argv, at, open, inside, got>>
  BY DEF OpenQuote, reader
<1>2. LineTypes /\ argv \in Seq(Seq(Char)) /\ \A k \in 1..Len(argv) : argv[k] \in Seq(Char)
  BY ArgvTyped DEF LineInv
<1>31. PICK m \in Nat : m = Len(argv)
  BY <1>2, LenProperties
<1>32. arg \in 0..m
  BY <1>2, <1>31 DEF LineTypes
<1>3. PICK n \in Nat : n = arg /\ m = Len(argv) /\ n < m
  BY <1>1, <1>31, <1>32
<1>4. PICK a \in Seq(Char) : a = argv[n + 1]
  BY <1>2, <1>3
<1>5. PICK e, q : Laid(argv, line, e, q, n) /\ Len(line) = IF n = 0 THEN 0 ELSE e[n]
  BY <1>1, <1>3 DEF LineInv, Writing
<1>6. PICK sp \in Seq(Char) : /\ sp = Separated /\ Grown(line, sp) /\ Len(sp) = From(e, n + 1)
                              /\ Apart(sp, e, n + 1)
  BY <1>2, <1>3, <1>5, SeparatedIs
<1>7. PICK to : to = Append(sp, Quote)
  OBVIOUS
<1>8. PICK s \in Nat : s = Len(sp)
  BY LenProperties
<1>9. to \in Seq(Char) /\ Grown(sp, to) /\ Len(to) = s + 1 /\ to[s + 1] = Quote
  BY <1>7, <1>8, OneBehind, Characters
<1>10. line' = to /\ line \in Seq(Char)
  BY <1>1, <1>2, <1>6, <1>7 DEF LineTypes
<1>11. Grown(line, to)
  BY <1>6, <1>9, <1>10, GrownTwice
<1>12. Laid(argv, to, e, q, n)
  <2>1. n \in 0..Len(argv)
    BY <1>3
  <2>2. (\A k \in 0..n : e[k] = e[k]) /\ (\A k \in 1..n : q[k] = q[k])
    OBVIOUS
  <2>3. QED BY <1>2, <1>5, <1>9, <1>10, <1>11, <2>1, <2>2, LaidStays
<1>13. Apart(to, e, n + 1)
  <2>1. n + 1 > 1 => e[(n + 1) - 1] \in Nat
    BY <1>5, EndTyped
  <2>2. QED BY <1>6, <1>9, <2>1, ApartStays
<1>14. PICK p : p = [j \in 0..0 |-> s + 1]
  OBVIOUS
<1>15. Placed(to, a, s, 0, p) /\ p[0] = s + 1
  <2>1. p[0] = s + 1 /\ \A j \in 0..0 : j = 0
    BY <1>14
  <2>2. \A h, j \in 0..0 : p[j] = p[h] + (j - h)
    BY <2>1
  <2>3. QED BY <1>9, <2>1, <2>2 DEF Placed
<1>16. IsBack(a, 0, 0)
  BY DEF IsBack
<1>17. Here' = a
  BY <1>1, <1>3, <1>4 DEF Here
<1>18. Writing'
  <2>1. Laid(argv', line', e, q, arg' - 1) /\ Apart(line', e, arg')
    BY <1>1, <1>3, <1>10, <1>12, <1>13
  <2>2. From(e, arg') = s
    BY <1>1, <1>3, <1>6, <1>8
  <2>3. Placed(line', Here', From(e, arg'), pos', p) /\ p[pos'] = Len(line')
    BY <1>1, <1>9, <1>10, <1>15, <1>17, <2>2
  <2>4. QED BY <1>1, <2>1, <2>3 DEF Writing
<1>19. LineTypes'
  <2>1. arg' \in 0..Len(argv')
    BY <1>1, <1>3
  <2>2. line' \in Seq(Char) /\ at' \in 0..Len(line')
    BY <1>1, <1>2, <1>9, <1>10 DEF LineTypes
  <2>3. QED BY <1>1, <1>2, <2>1, <2>2 DEF LineTypes
<1>20. InCopy'
  <2>1. arg' # 0 /\ Blank(Here') /\ IsBack(Here', pos', back')
    BY <1>1, <1>3, <1>4, <1>16, <1>17
  <2>2. pos' \in 0..Len(Here')
    BY <1>1, <1>17, LenProperties
  <2>3. QED BY <2>1, <2>2 DEF InCopy
<1>21. QED BY <1>1, <1>18, <1>19, <1>20 DEF LineInv, Reading

\* What is there while an argument is copied.
LEMMA Copying ==
  ASSUME LineInv, pc = "copy"
  PROVE  /\ Here \in Seq(Char) /\ Blank(Here) /\ line \in Seq(Char) /\ IsBack(Here, pos, back)
         /\ argv \in Seq(Seq(Char)) /\ arg \in 1..Len(argv) /\ pos \in 0..Len(Here)
         /\ back \in 0..pos /\ Here = argv[arg]
         /\ \E e, q, p : /\ Laid(argv, line, e, q, arg - 1) /\ Apart(line, e, arg)
                         /\ Placed(line, Here, From(e, arg), pos, p)
                         /\ p[pos] = Len(line) /\ From(e, arg) \in Nat
<1>1. LineTypes /\ argv \in Seq(Seq(Char)) /\ \A k \in 1..Len(argv) : argv[k] \in Seq(Char)
  BY ArgvTyped DEF LineInv
<1>2. PICK m \in Nat : m = Len(argv)
  BY <1>1, LenProperties
<1>3. arg \in 1..m /\ pos \in 0..Len(Here) /\ Blank(Here) /\ IsBack(Here, pos, back)
  BY <1>1, <1>2 DEF LineInv, InCopy, LineTypes
<1>4. PICK e, q, p : /\ Laid(argv, line, e, q, arg - 1) /\ Apart(line, e, arg)
                     /\ Placed(line, Here, From(e, arg), pos, p)
                     /\ p[pos] = Len(line)
  BY DEF LineInv, Writing
<1>5. From(e, arg) \in Nat
  <2>1. CASE arg = 1
    BY <2>1 DEF From
  <2>2. CASE arg # 1
    <3>1. arg - 1 \in 1..(arg - 1) /\ arg - 1 \in Nat
      BY <1>3, <2>2
    <3>2. e[arg - 1] \in Nat
      BY <1>4, <3>1, EndTyped
    <3>3. QED BY <2>2, <3>2 DEF From
  <2>3. QED BY <2>1, <2>2
<1>6. back \in 0..pos
  BY <1>3 DEF IsBack
<1>7. Here \in Seq(Char) /\ Here = argv[arg] /\ line \in Seq(Char)
  BY <1>1, <1>2, <1>3 DEF Here, LineTypes
<1>8. QED BY <1>1, <1>2, <1>3, <1>4, <1>5, <1>6, <1>7

\* One character more of it is copied.
LEMMA OneCopied ==
  ASSUME LineInv, pc = "copy", pos < Len(Here), NEW to \in Seq(Char), line' = to,
         \A s \in Nat : \A p : Placed(line, Here, s, pos, p) /\ p[pos] = Len(line)
                             => Placed(to, Here, s, pos + 1, OneMore(p, pos, Len(to))),
         Grown(line, to), NEW b, back' = b, IsBack(Here, pos + 1, b), pos' = pos + 1,
         UNCHANGED <<argv, arg, quoted, pc, at, open, inside, got>>
  PROVE  LineInv'
<1>1. /\ Here \in Seq(Char) /\ Blank(Here) /\ line \in Seq(Char)
      /\ argv \in Seq(Seq(Char)) /\ arg \in 1..Len(argv) /\ pos \in 0..Len(Here)
  BY Copying
<1>2. PICK e, q, p : /\ Laid(argv, line, e, q, arg - 1) /\ Apart(line, e, arg)
                     /\ Placed(line, Here, From(e, arg), pos, p)
                     /\ p[pos] = Len(line) /\ From(e, arg) \in Nat
  BY Copying
<1>3. PICK m \in Nat, l \in Nat, t \in Nat : m = Len(argv) /\ l = Len(Here) /\ t = Len(to)
  BY <1>1, LenProperties
<1>4. PICK n \in Nat : n = pos /\ n < l
  BY <1>1, <1>3
<1>5. arg \in 1..m
  BY <1>1, <1>3
<1>6. Here' = Here
  BY DEF Here
<1>7. PICK r : r = OneMore(p, n, t)
  OBVIOUS
<1>8. Placed(to, Here, From(e, arg), n + 1, r)
  BY <1>2, <1>3, <1>4, <1>7
<1>9. r[n + 1] = t
  BY <1>4, <1>7 DEF OneMore
<1>10. Laid(argv, to, e, q, arg - 1)
  <2>1. arg - 1 \in 0..Len(argv)
    BY <1>3, <1>5
  <2>2. (\A k \in 0..(arg - 1) : e[k] = e[k]) /\ (\A k \in 1..(arg - 1) : q[k] = q[k])
    OBVIOUS
  <2>3. QED BY <1>1, <1>2, <2>1, <2>2, LaidStays
<1>11. Apart(to, e, arg)
  <2>1. arg \in Nat \ {0} /\ arg - 1 \in Nat
    BY <1>5
  <2>2. arg > 1 => e[arg - 1] \in Nat
    <3>1. arg > 1 => arg - 1 \in 1..(arg - 1)
      BY <1>5
    <3>2. QED BY <1>2, <2>1, <3>1, EndTyped
  <2>3. QED BY <1>1, <1>2, <2>1, <2>2, ApartStays
<1>12. Writing'
  <2>1. Laid(argv', line', e, q, arg' - 1) /\ Apart(line', e, arg')
    BY <1>10, <1>11
  <2>2. Placed(line', Here', From(e, arg'), pos', r) /\ r[pos'] = Len(line')
    BY <1>3, <1>4, <1>6, <1>8, <1>9
  <2>3. QED BY <2>1, <2>2 DEF Writing
<1>13. LineTypes /\ at = 0
  BY DEF LineInv, LineTypes
<1>14. LineTypes'
  <2>1. at' \in 0..Len(line')
    BY <1>3, <1>13
  <2>2. QED BY <1>13, <2>1 DEF LineTypes
<1>15. InCopy'
  <2>1. pos' \in 0..Len(Here')
    BY <1>3, <1>4, <1>6
  <2>2. IsBack(Here', pos', back')
    BY <1>6
  <2>3. arg' # 0 /\ Blank(Here')
    BY <1>1, <1>5, <1>6
  <2>4. QED BY <2>1, <2>2, <2>3 DEF InCopy
<1>16. QED BY <1>12, <1>14, <1>15 DEF LineInv, Reading

\* A backslash, and any other character.
LEMMA CopySlashKeeps == ASSUME LineInv, CopySlash PROVE LineInv'
<1>1. /\ pc = "copy" /\ pos < Len(Here) /\ Here[pos + 1] = Slash /\ back' = back + 1
      /\ line' = Append(line, Slash) /\ pos' = pos + 1
      /\ UNCHANGED <<argv, arg, quoted, pc, at, open, inside, got>>
  BY DEF CopySlash, reader
<1>2. /\ Here \in Seq(Char) /\ line \in Seq(Char) /\ IsBack(Here, pos, back) /\ pos \in Nat
  <2>1. PICK l \in Nat : l = Len(Here)
    BY <1>1, Copying, LenProperties
  <2>2. QED BY <1>1, <2>1, Copying
<1>3. PICK to : to = Append(line, Slash)
  OBVIOUS
<1>4. to \in Seq(Char) /\ Grown(line, to) /\ Len(to) = Len(line) + 1 /\ to[Len(line) + 1] = Slash
  BY <1>2, <1>3, OneBehind, Characters
<1>5. Here[pos + 1] # Quote
  BY <1>1, Characters
<1>6. \A s \in Nat : \A p : Placed(line, Here, s, pos, p) /\ p[pos] = Len(line)
        => Placed(to, Here, s, pos + 1, OneMore(p, pos, Len(to)))
  <2> SUFFICES ASSUME NEW s \in Nat, NEW p, Placed(line, Here, s, pos, p), p[pos] = Len(line)
               PROVE  Placed(to, Here, s, pos + 1, OneMore(p, pos, Len(to)))
    OBVIOUS
  <2>1. to[Len(line) + 1] = Here[pos + 1]
    BY <1>1, <1>4
  <2>2. QED BY <1>2, <1>4, <1>5, <2>1, CharCopied
<1>7. IsBack(Here, pos + 1, back + 1)
  BY <1>1, <1>2, BackNext
<1>8. QED BY <1>1, <1>3, <1>4, <1>6, <1>7, OneCopied

LEMMA CopyOtherKeeps == ASSUME LineInv, CopyOther PROVE LineInv'
<1>1. /\ pc = "copy" /\ pos < Len(Here) /\ Here[pos + 1] \notin {Slash, Quote} /\ back' = 0
      /\ line' = Append(line, Here[pos + 1]) /\ pos' = pos + 1
      /\ UNCHANGED <<argv, arg, quoted, pc, at, open, inside, got>>
  BY DEF CopyOther, reader
<1>2. PICK l \in Nat : l = Len(Here)
  BY <1>1, Copying, LenProperties
<1>3. /\ Here \in Seq(Char) /\ line \in Seq(Char) /\ IsBack(Here, pos, back) /\ pos \in Nat
  BY <1>1, <1>2, Copying
<1>4. PICK ch \in Char : ch = Here[pos + 1]
  <2>1. pos + 1 \in 1..l
    BY <1>1, <1>2, <1>3
  <2>2. QED BY <1>2, <1>3, <2>1, ElementOfSeq
<1>5. PICK to : to = Append(line, ch)
  OBVIOUS
<1>6. to \in Seq(Char) /\ Grown(line, to) /\ Len(to) = Len(line) + 1 /\ to[Len(line) + 1] = ch
  BY <1>3, <1>5, OneBehind
<1>7. \A s \in Nat : \A p : Placed(line, Here, s, pos, p) /\ p[pos] = Len(line)
        => Placed(to, Here, s, pos + 1, OneMore(p, pos, Len(to)))
  <2> SUFFICES ASSUME NEW s \in Nat, NEW p, Placed(line, Here, s, pos, p), p[pos] = Len(line)
               PROVE  Placed(to, Here, s, pos + 1, OneMore(p, pos, Len(to)))
    OBVIOUS
  <2>1. to[Len(line) + 1] = Here[pos + 1] /\ Here[pos + 1] # Quote
    BY <1>1, <1>4, <1>6
  <2>2. QED BY <1>3, <1>6, <2>1, CharCopied
<1>8. IsBack(Here, pos + 1, 0)
  BY <1>1, <1>3, BackNext
<1>9. QED BY <1>1, <1>4, <1>5, <1>6, <1>7, <1>8, OneCopied

\* Backslashes, and a quote behind them.
QuoteAfter(ln, c, to) ==
  /\ to \in Seq(Char) /\ Grown(ln, to) /\ Len(to) = Len(ln) + c + 1 /\ to[Len(to)] = Quote
  /\ \A x \in 1..c : to[Len(ln) + x] = Slash
LEMMA QuoteBehind ==
  \A ln \in Seq(Char), c \in Nat : QuoteAfter(ln, c, Append(ln \o Backslashes(c), Quote))
<1> SUFFICES ASSUME NEW ln \in Seq(Char), NEW c \in Nat, NEW to, to = Append(ln \o Backslashes(c), Quote)
             PROVE  QuoteAfter(ln, c, to)
  OBVIOUS
<1>1. PICK u : u = Backslashes(c)
  OBVIOUS
<1>2. u \in Seq(Char) /\ Len(u) = c /\ \A x \in 1..c : u[x] = Slash
  BY <1>1, Characters DEF Backslashes
<1>3. PICK w : w = ln \o u
  OBVIOUS
<1>4. PICK l \in Nat : l = Len(ln)
  BY LenProperties
<1>5. w \in Seq(Char) /\ Grown(ln, w) /\ Len(w) = l + c /\ \A x \in 1..c : w[l + x] = Slash
  <2>1. /\ w \in Seq(Char) /\ Grown(ln, w) /\ Len(w) = Len(ln) + Len(u)
        /\ \A x \in 1..Len(u) : w[Len(ln) + x] = u[x]
    <3>1. u \in Seq(Char)
      BY <1>2
    <3>2. PutAfter(ln, u, w)
      BY <1>3, <3>1, PutBehind, Zenon
    <3>3. QED BY <3>2 DEF PutAfter
  <2>2. QED BY <1>2, <1>4, <2>1
<1>6. to \in Seq(Char) /\ Grown(w, to) /\ Len(to) = l + c + 1 /\ to[l + c + 1] = Quote
  <2>1. to = Append(w, Quote)
    BY <1>1, <1>3
  <2>2. /\ to \in Seq(Char) /\ Grown(w, to) /\ Len(to) = Len(w) + 1 /\ to[Len(w) + 1] = Quote
    BY <1>5, <2>1, OneBehind, Characters
  <2>3. QED BY <1>5, <2>2
<1>7. ASSUME NEW x \in 1..c PROVE to[l + x] = Slash
  <2>1. l + x \in 1..(l + c)
    OBVIOUS
  <2>2. to[l + x] = w[l + x]
    BY <1>5, <1>6, <2>1 DEF Grown
  <2>3. QED BY <1>5, <2>2
<1>8. Grown(ln, to)
  BY <1>5, <1>6, GrownTwice
<1>9. QED BY <1>4, <1>6, <1>7, <1>8 DEF QuoteAfter

LEMMA CopyQuoteKeeps == ASSUME LineInv, CopyQuote PROVE LineInv'
<1>1. /\ pc = "copy" /\ pos < Len(Here) /\ Here[pos + 1] = Quote /\ back' = 0
      /\ line' = Append(line \o Backslashes(back + 1), Quote) /\ pos' = pos + 1
      /\ UNCHANGED <<argv, arg, quoted, pc, at, open, inside, got>>
  BY DEF CopyQuote, reader
<1>2. PICK l \in Nat : l = Len(Here)
  BY <1>1, Copying, LenProperties
<1>3. /\ Here \in Seq(Char) /\ line \in Seq(Char) /\ IsBack(Here, pos, back) /\ pos \in Nat
      /\ back \in 0..pos /\ back \in Nat
  BY <1>1, <1>2, Copying
<1>41. PICK b \in Nat : b = back + 1
  BY <1>3
<1>4. PICK to : to = Append(line \o Backslashes(b), Quote)
  OBVIOUS
<1>51. /\ to \in Seq(Char) /\ Grown(line, to) /\ Len(to) = Len(line) + b + 1
       /\ to[Len(to)] = Quote /\ \A x \in 1..b : to[Len(line) + x] = Slash
  <2>1. QuoteAfter(line, b, to)
    BY <1>3, <1>4, QuoteBehind, Zenon
  <2>2. QED BY <2>1 DEF QuoteAfter
<1>5. /\ to \in Seq(Char) /\ Grown(line, to) /\ Len(to) = Len(line) + (back + 1) + 1
      /\ to[Len(to)] = Quote /\ \A x \in 1..(back + 1) : to[Len(line) + x] = Slash
  BY <1>41, <1>51
<1>6. Len(to) = Len(line) + back + 2
  <2>1. PICK k \in Nat : k = Len(line)
    BY <1>3, LenProperties
  <2>2. QED BY <1>3, <1>5, <2>1
<1>7. \A s \in Nat : \A p : Placed(line, Here, s, pos, p) /\ p[pos] = Len(line)
        => Placed(to, Here, s, pos + 1, OneMore(p, pos, Len(to)))
  <2> SUFFICES ASSUME NEW s \in Nat, NEW p, Placed(line, Here, s, pos, p), p[pos] = Len(line)
               PROVE  Placed(to, Here, s, pos + 1, OneMore(p, pos, Len(to)))
    OBVIOUS
  <2>2. QED BY <1>1, <1>3, <1>5, <1>6, QuoteEscaped
<1>8. IsBack(Here, pos + 1, 0)
  <2>1. Here[pos + 1] # Slash
    BY <1>1, Characters
  <2>2. QED BY <1>3, <2>1, BackNext
<1>9. QED BY <1>1, <1>4, <1>41, <1>5, <1>7, <1>8, OneCopied

\* The argument ends.
LEMMA CloseQuoteKeeps == ASSUME LineInv, CloseQuote PROVE LineInv'
<1>1. /\ pc = "copy" /\ pos = Len(Here) /\ line' = Append(line \o Backslashes(back), Quote)
      /\ quoted' = FALSE /\ pc' = "next"
      /\ UNCHANGED <<argv, arg, pos, back, at, open, inside, got>>
  BY DEF CloseQuote, reader
<1>2. /\ Here \in Seq(Char) /\ Blank(Here) /\ line \in Seq(Char) /\ IsBack(Here, pos, back)
      /\ argv \in Seq(Seq(Char)) /\ arg \in 1..Len(argv) /\ back \in 0..pos /\ Here = argv[arg]
  BY <1>1, Copying
<1>3. PICK e, q, p : /\ Laid(argv, line, e, q, arg - 1) /\ Apart(line, e, arg)
                     /\ Placed(line, Here, From(e, arg), pos, p)
                     /\ p[pos] = Len(line) /\ From(e, arg) \in Nat
  BY <1>1, Copying
<1>4. PICK m \in Nat, l \in Nat, k \in Nat : m = Len(argv) /\ l = Len(Here) /\ k = Len(line)
  BY <1>2, LenProperties
<1>5. PICK n \in Nat : arg = n + 1 /\ n + 1 <= m
  <2>1. arg \in 1..m
    BY <1>2, <1>4
  <2>2. arg - 1 \in Nat /\ arg = (arg - 1) + 1 /\ (arg - 1) + 1 <= m
    BY <2>1
  <2>3. QED BY <2>2
<1>6. PICK a \in Seq(Char) : a = Here /\ a = argv[n + 1]
  BY <1>2, <1>5
<1>7. PICK b \in Nat : b = back /\ b \in 0..l
  BY <1>1, <1>2, <1>4
<1>8. PICK s \in Nat : s = From(e, n + 1)
  BY <1>3, <1>5
<1>9. PICK to : to = Append(line \o Backslashes(b), Quote)
  OBVIOUS
<1>10. /\ to \in Seq(Char) /\ Grown(line, to) /\ Len(to) = k + b + 1
       /\ to[Len(to)] = Quote /\ \A x \in 1..b : to[k + x] = Slash
  <2>1. /\ to \in Seq(Char) /\ Grown(line, to) /\ Len(to) = Len(line) + b + 1
        /\ to[Len(to)] = Quote /\ \A x \in 1..b : to[Len(line) + x] = Slash
    <3>1. PICK ln \in Seq(Char) : ln = line
      BY <1>2
    <3>2. to = Append(ln \o Backslashes(b), Quote)
      BY <1>9, <3>1
    <3>3. QuoteAfter(ln, b, to)
      BY <3>2, QuoteBehind, Zenon
    <3>4. QED BY <3>1, <3>3 DEF QuoteAfter
  <2>2. QED BY <1>4, <2>1
<1>11. line' = to
  BY <1>1, <1>7, <1>9
<1>12. PICK z \in Nat : z = k + b + 1
  OBVIOUS
<1>13. Placed(to, a, s, l, p) /\ p[l] = k
  <2>1. Placed(line, a, s, l, p)
    BY <1>1, <1>3, <1>4, <1>5, <1>6, <1>8
  <2>2. QED BY <1>1, <1>2, <1>3, <1>4, <1>10, <2>1, PlacedStays
<1>14. Closed(to, a, s, z, p)
  <2>1. b \in 0..Len(a) /\ IsBack(a, Len(a), b) /\ z = p[Len(a)] + b + 1
    BY <1>1, <1>2, <1>4, <1>6, <1>7, <1>12, <1>13
  <2>2. \A x \in 1..b : to[p[Len(a)] + x] = Slash
    BY <1>4, <1>6, <1>10, <1>13
  <2>3. z <= Len(to) /\ to[z] = Quote
    BY <1>10, <1>12
  <2>4. QED BY <1>4, <1>6, <1>13, <2>1, <2>2, <2>3 DEF Closed
<1>15. PICK f, r : f = NextEnd(e, n + 1, z) /\ r = NextEnd(q, n + 1, p)
  OBVIOUS
<1>16. Laid(argv, line, e, q, n)
  <2>1. arg - 1 = n
    BY <1>5
  <2>2. QED BY <1>3, <2>1
<1>17. Laid(argv, to, f, r, n)
  <2>1. n + 1 <= Len(argv)
    BY <1>4, <1>5
  <2>2. QED BY <1>2, <1>10, <1>15, <1>16, <2>1, LaidFurther
<1>18. f[n + 1] = z /\ f[n] = e[n] /\ r[n + 1] = p
  BY <1>15 DEF NextEnd
<1>19. From(f, n + 1) = s
  <2>1. (n + 1) - 1 = n
    OBVIOUS
  <2>2. QED BY <1>8, <1>18, <2>1 DEF From
<1>20. Apart(to, f, n + 1)
  <2>1. n + 1 > 1 => e[(n + 1) - 1] \in Nat
    BY <1>16, EndTyped
  <2>2. Apart(line, e, n + 1)
    BY <1>3, <1>5
  <2>3. Apart(to, e, n + 1)
    BY <1>2, <1>10, <2>1, <2>2, ApartStays
  <2>4. (n + 1) - 1 = n
    OBVIOUS
  <2>5. QED BY <1>18, <2>3, <2>4 DEF Apart
<1>21. IsArg(argv, to, f, r, n + 1)
  <2>1. Blank(argv[n + 1])
    BY <1>2, <1>6
  <2>2. f[n + 1] \in Nat
    BY <1>18
  <2>3. Closed(to, argv[n + 1], From(f, n + 1), f[n + 1], r[n + 1])
    BY <1>6, <1>14, <1>18, <1>19
  <2>4. QED BY <1>20, <2>1, <2>2, <2>3 DEF IsArg
<1>22. Laid(argv, to, f, r, n + 1)
  <2>1. ASSUME NEW j \in 1..(n + 1) PROVE IsArg(argv, to, f, r, j)
    <3>1. CASE j = n + 1
      BY <1>21, <3>1
    <3>2. CASE j # n + 1
      <4>1. j \in 1..n
        BY <3>2
      <4>2. QED BY <1>17, <4>1 DEF Laid
    <3>3. QED BY <3>1, <3>2
  <2>2. QED BY <2>1 DEF Laid
<1>23. Writing'
  <2>1. Laid(argv', line', f, r, arg')
    BY <1>1, <1>5, <1>11, <1>22
  <2>2. Len(line') = IF arg' = 0 THEN 0 ELSE f[arg']
    <3>1. Len(to) = f[n + 1] /\ n + 1 # 0
      BY <1>10, <1>12, <1>18
    <3>2. QED BY <1>1, <1>5, <1>11, <3>1
  <2>3. QED BY <1>1, <2>1, <2>2 DEF Writing
<1>24. LineTypes /\ at = 0
  BY <1>1 DEF LineInv, LineTypes
<1>25. LineTypes'
  <2>1. at' \in 0..Len(line')
    BY <1>1, <1>10, <1>11, <1>12, <1>24
  <2>2. line' \in Seq(Char)
    BY <1>10, <1>11
  <2>3. QED BY <1>1, <1>24, <2>1, <2>2 DEF LineTypes
<1>26. QED BY <1>1, <1>23, <1>25 DEF LineInv, InCopy, Reading

\* Start keeps it: nothing is read so far.
LEMMA StartKeeps == ASSUME LineInv, Start PROVE LineInv'
<1>1. /\ pc = "next" /\ arg = Len(argv) /\ pc' = "read"
      /\ UNCHANGED <<argv, arg, pos, quoted, back, line, at, open, inside, got>>
  BY DEF Start, reader, built
<1>2. LineTypes /\ at = 0 /\ ~open /\ ~inside /\ got = <<>>
  BY <1>1 DEF LineInv, LineTypes
<1>3. PICK m \in Nat : m = Len(argv) /\ m # 0
  BY <1>2, ArgvTyped
<1>4. PICK e, q : Laid(argv, line, e, q, m) /\ Len(line) = e[m]
  BY <1>1, <1>3 DEF LineInv, Writing
<1>5. Read(e, q)
  <2>1. Len(got) = 0
    BY <1>2
  <2>2. Behind(e, 0)
    <3>1. 0 < m /\ From(e, 0 + 1) = 0
      BY <1>3 DEF From
    <3>2. QED BY <1>2, <1>3, <3>1 DEF Behind
  <2>3. QED BY <1>2, <1>3, <2>1, <2>2 DEF Read
<1>6. Reading'
  <2>1. Read(e, q)'
    BY <1>1, <1>5 DEF Read, Inside, Behind, InPlain, InQuoted
  <2>2. Laid(argv', line', e, q, Len(argv')) /\ e[Len(argv')] = Len(line')
    BY <1>1, <1>3, <1>4
  <2>3. QED BY <1>1, <2>1, <2>2 DEF Reading
<1>7. LineTypes'
  BY <1>1, <1>2 DEF LineInv, LineTypes
<1>8. QED BY <1>1, <1>6, <1>7 DEF LineInv, InCopy, Writing

-----------------------------------------------------------------------------
(* What is ahead of the reader.                                            *)

\* A character, or the end of the line.
LEMMA AheadIs ==
  ASSUME line \in Seq(Char), at \in Nat, NEW n \in Nat
  PROVE  /\ at + n < Len(line) <=> Ahead(n) # "end"
         /\ at + n < Len(line) => Ahead(n) = line[at + n + 1] /\ Ahead(n) \in Char
<1>1. PICK l \in Nat : l = Len(line)
  BY LenProperties
<1>2. ASSUME at + n < l PROVE Ahead(n) = line[at + n + 1] /\ Ahead(n) \in Char
  <2>1. at + n + 1 \in 1..l
    BY <1>2
  <2>2. line[at + n + 1] \in Char
    BY <1>1, <2>1, ElementOfSeq
  <2>3. QED BY <1>1, <1>2, <2>2 DEF Ahead
<1>3. ~(at + n < l) => Ahead(n) = "end"
  BY <1>1 DEF Ahead
<1>4. QED BY <1>1, <1>2, <1>3, Characters

\* r backslashes, and something else behind them.
Running(r) ==
  r \in Nat /\ at + r <= Len(line) /\ (\A x \in 1..r : line[at + x] = Slash) /\ Ahead(r) # Slash

\* There is one such number.
LEMMA RunningOne ==
  ASSUME line \in Seq(Char), at \in Nat, NEW r, NEW t, Running(r), Running(t)
  PROVE  r = t
<1>1. PICK l \in Nat : l = Len(line)
  BY LenProperties
<1>2. /\ r \in Nat /\ at + r <= l /\ (\A x \in 1..r : line[at + x] = Slash) /\ Ahead(r) # Slash
      /\ t \in Nat /\ at + t <= l /\ (\A x \in 1..t : line[at + x] = Slash) /\ Ahead(t) # Slash
  BY <1>1 DEF Running
<1>3. ASSUME r < t PROVE FALSE
  <2>1. r + 1 \in 1..t /\ at + r < l /\ at + (r + 1) = at + r + 1
    BY <1>2, <1>3
  <2>2. Ahead(r) = line[at + r + 1]
    BY <1>1, <1>2, <2>1, AheadIs
  <2>3. QED BY <1>2, <2>1, <2>2
<1>4. ASSUME t < r PROVE FALSE
  <2>1. t + 1 \in 1..r /\ at + t < l /\ at + (t + 1) = at + t + 1
    BY <1>2, <1>4
  <2>2. Ahead(t) = line[at + t + 1]
    BY <1>1, <1>2, <2>1, AheadIs
  <2>3. QED BY <1>2, <2>1, <2>2
<1>5. QED BY <1>2, <1>3, <1>4

\* It is what the reader counts.
LEMMA RunIs ==
  ASSUME line \in Seq(Char), at \in 0..Len(line)
  PROVE  Running(Run)
<1>1. PICK l \in Nat : l = Len(line)
  BY LenProperties
<1>2. at \in Nat /\ at <= l
  BY <1>1
<1>3. PICK u : u = Rest
  OBVIOUS
<1>4. Len(u) = l - at /\ \A x \in 1..(l - at) : u[x] = line[at + x]
  <2>1. u = SubSeq(line, at + 1, l)
    BY <1>1, <1>3 DEF Rest
  <2>2. at + 1 \in 1..(l + 1) /\ l \in at..l
    BY <1>2
  <2>3. /\ Len(SubSeq(line, at + 1, l)) = IF at + 1 <= l THEN l - (at + 1) + 1 ELSE 0
        /\ \A x \in 1..(l - (at + 1) + 1) : SubSeq(line, at + 1, l)[x] = line[(at + 1) + x - 1]
    <3>1. (at + 1) \in 1..(Len(line) + 1) /\ l \in ((at + 1) - 1)..Len(line)
      BY <1>1, <1>2
    <3>2. QED BY <3>1, SubSeqProperties
  <2>4. ASSUME NEW x \in 1..(l - at) PROVE u[x] = line[at + x]
    <3>1. x \in 1..(l - (at + 1) + 1) /\ (at + 1) + x - 1 = at + x
      BY <1>2
    <3>2. QED BY <2>1, <2>3, <3>1
  <2>5. Len(u) = l - at
    BY <1>2, <2>1, <2>3
  <2>6. QED BY <2>4, <2>5
<1> DEFINE T == {n \in Nat : n <= l - at /\ Ahead(n) # Slash}
<1>5. l - at \in T
  <2>1. l - at \in Nat /\ ~(at + (l - at) < l)
    BY <1>2
  <2>2. Ahead(l - at) = "end"
    BY <1>1, <1>2, <2>1, AheadIs
  <2>3. QED BY <2>1, <2>2, Characters
<1>6. PICK r \in T : \A n \in T : r <= n
  <2>1. T \subseteq Nat /\ T # {}
    BY <1>5
  <2>2. QED BY <2>1, Smallest
<1>7. \A x \in 1..r : u[x] = Slash
  <2> SUFFICES ASSUME NEW x \in 1..r PROVE u[x] = Slash
    OBVIOUS
  <2>1. x - 1 \in Nat /\ x - 1 <= l - at /\ x - 1 < r /\ at + (x - 1) < l /\ at + (x - 1) + 1 = at + x /\ x \in 1..(l - at)
    BY <1>2, <1>6
  <2>2. x - 1 \notin T
    BY <1>6, <2>1
  <2>3. Ahead(x - 1) = Slash
    BY <2>1, <2>2
  <2>4. Ahead(x - 1) = line[at + x]
    BY <1>1, <1>2, <2>1, AheadIs
  <2>5. QED BY <1>4, <2>1, <2>3, <2>4
<1>8. r \in 0..Len(u) /\ (\A x \in 1..r : u[x] = Slash) /\ Ahead(r) # Slash
  BY <1>2, <1>4, <1>6, <1>7
<1>9. Run = CHOOSE n \in 0..Len(u) : (\A x \in 1..n : u[x] = Slash) /\ Ahead(n) # Slash
  BY <1>3 DEF Run
<1>10. PICK c : c = Run
  OBVIOUS
<1>11. c \in 0..Len(u) /\ (\A x \in 1..c : u[x] = Slash) /\ Ahead(c) # Slash
  BY <1>8, <1>9, <1>10
<1>12. c \in Nat /\ at + c <= l /\ \A x \in 1..c : line[at + x] = Slash
  <2>1. c \in 0..(l - at)
    BY <1>4, <1>11
  <2>2. c \in Nat /\ at + c <= l /\ \A x \in 1..c : x \in 1..(l - at)
    BY <1>2, <2>1
  <2>3. QED BY <1>4, <1>11, <2>2
<1>13. QED BY <1>1, <1>10, <1>11, <1>12 DEF Running

\* The backslashes behind the first j characters of an argument.
Runs(a, j, m) ==
  /\ m \in Nat /\ j + m <= Len(a) /\ \A x \in 1..m : a[j + x] = Slash
  /\ j + m < Len(a) => a[j + m + 1] # Slash

LEMMA RunsExist ==
  ASSUME NEW a \in Seq(Char), NEW j \in 0..Len(a)
  PROVE  \E m \in Nat : Runs(a, j, m)
<1>1. PICK l \in Nat : l = Len(a)
  BY LenProperties
<1>2. j \in Nat /\ j <= l
  BY <1>1
<1> DEFINE T == {n \in Nat : n <= l - j /\ (j + n < l => a[j + n + 1] # Slash)}
<1>3. PICK r \in T : \A n \in T : r <= n
  <2>1. l - j \in T
    BY <1>2
  <2>2. T \subseteq Nat /\ T # {}
    BY <2>1
  <2>3. QED BY <2>2, Smallest
<1>4. ASSUME NEW x \in 1..r PROVE a[j + x] = Slash
  <2>1. x - 1 \in Nat /\ x - 1 <= l - j /\ x - 1 < r /\ j + (x - 1) < l /\ j + (x - 1) + 1 = j + x
    BY <1>2, <1>3
  <2>2. PICK y \in Nat : y = x - 1
    BY <2>1
  <2>3. ~(r <= y) /\ y <= l - j /\ j + y < l /\ j + y + 1 = j + x
    BY <2>1, <2>2
  <2>4. y \notin T
    BY <1>3, <2>3, Zenon
  <2>5. QED BY <2>3, <2>4
<1>5. r \in Nat /\ j + r <= l /\ (j + r < l => a[j + r + 1] # Slash)
  BY <1>2, <1>3
<1>6. QED BY <1>1, <1>4, <1>5 DEF Runs

-----------------------------------------------------------------------------
(* What the reader has of an argument.                                     *)

\* Something more of it.
LEMMA PrefixMore ==
  ASSUME NEW a \in Seq(Char), NEW g \in Seq(Char), NEW u \in Seq(Char), NEW j \in Nat, NEW n \in Nat,
         Prefix(g, a, j), Len(u) = n, \A x \in 1..n : a[j + x] = u[x], NEW w, w = g \o u
  PROVE  w \in Seq(Char) /\ Prefix(w, a, j + n)
<1>1. Len(g) = j /\ \A x \in 1..j : g[x] = a[x]
  BY DEF Prefix
<1>2. w \in Seq(Char) /\ Len(w) = j + n /\ \A x \in 1..(j + n) : w[x] = IF x <= j THEN g[x] ELSE u[x - j]
  <2>1. /\ g \o u \in Seq(Char) /\ Len(g \o u) = Len(g) + Len(u)
        /\ \A x \in 1..(Len(g) + Len(u)) : (g \o u)[x] = IF x <= Len(g) THEN g[x] ELSE u[x - Len(g)]
    BY ConcatProperties
  <2>2. QED BY <1>1, <2>1
<1>3. ASSUME NEW x \in 1..(j + n) PROVE w[x] = a[x]
  <2>1. CASE x <= j
    BY <1>1, <1>2, <2>1
  <2>2. CASE ~(x <= j)
    <3>1. x - j \in 1..n /\ j + (x - j) = x
      BY <2>2
    <3>2. QED BY <1>2, <2>2, <3>1
  <2>3. QED BY <2>1, <2>2
<1>4. QED BY <1>2, <1>3 DEF Prefix

\* All of it.
LEMMA PrefixWhole ==
  ASSUME NEW a \in Seq(Char), NEW g \in Seq(Char), Prefix(g, a, Len(a))
  PROVE  g = a
<1>1. PICK l \in Nat : l = Len(a)
  BY LenProperties
<1>2. Len(g) = l /\ \A x \in 1..l : g[x] = a[x]
  BY <1>1 DEF Prefix
<1>3. QED BY <1>1, <1>2, SeqEqual

\* Characters are put behind the last argument read.
LEMMA AddKeeps ==
  ASSUME got \in Seq(Seq(Char)), got # <<>>, NEW u \in Seq(Char), Add(u)
  PROVE  /\ got' \in Seq(Seq(Char)) /\ Len(got') = Len(got) /\ got' # <<>>
         /\ got'[Len(got)] = got[Len(got)] \o u
         /\ \A x \in 1..(Len(got) - 1) : got'[x] = got[x]
         /\ Len(got) \in Nat \ {0} /\ got[Len(got)] \in Seq(Char)
<1>1. PICK n \in Nat : n = Len(got)
  BY LenProperties
<1>2. n # 0
  BY <1>1, EmptySeq
<1>3. got[n] \in Seq(Char)
  <2>1. n \in 1..n
    BY <1>2
  <2>2. QED BY <1>1, <2>1, ElementOfSeq
<1>4. PICK w \in Seq(Char) : w = got[n] \o u
  BY <1>3, ConcatProperties
<1>5. got' = [got EXCEPT ![n] = w]
  BY <1>1, <1>4 DEF Add, ReplaceAt
<1>6. n \in 1..Len(got)
  BY <1>1, <1>2
<1>7. /\ [got EXCEPT ![n] = w] \in Seq(Seq(Char)) /\ Len([got EXCEPT ![n] = w]) = Len(got)
      /\ \A x \in 1..Len(got) : [got EXCEPT ![n] = w][x] = IF x = n THEN w ELSE got[x]
  BY <1>6, ExceptSeq
<1>8. got' \in Seq(Seq(Char)) /\ Len(got') = n /\ \A x \in 1..n : got'[x] = IF x = n THEN w ELSE got[x]
  BY <1>1, <1>5, <1>7
<1>9. got' # <<>>
  BY <1>2, <1>8, EmptySeq
<1>10. got'[n] = w /\ \A x \in 1..(n - 1) : got'[x] = got[x]
  BY <1>2, <1>8
<1>11. QED BY <1>1, <1>2, <1>3, <1>4, <1>8, <1>9, <1>10

-----------------------------------------------------------------------------
(* An argument between quotes is read.                                     *)

\* What is ahead of the j-th of its characters: backslashes as they are, twice as many
\* and one before a quote, and twice as many before the quote at the end.
Before(a, z, p, j, m) ==
  \/ /\ j + m < Len(a) /\ a[j + m + 1] # Quote
     /\ Running(m) /\ Ahead(m) = a[j + m + 1] /\ p[j + m] = at + m /\ p[j + m + 1] = at + m + 1
  \/ /\ j + m < Len(a) /\ a[j + m + 1] = Quote
     /\ Running(2 * m + 1) /\ Ahead(2 * m + 1) = Quote /\ p[j + m + 1] = at + 2 * m + 2
  \/ /\ j + m = Len(a)
     /\ Running(2 * m) /\ Ahead(2 * m) = Quote /\ z = at + 2 * m + 1

\* The backslashes behind a clean place are all there are.
LEMMA CleanBack ==
  ASSUME NEW a \in Seq(Char), NEW j \in 0..Len(a), Clean(a, j), NEW m \in Nat, Runs(a, j, m),
         j + m < Len(a) => a[j + m + 1] = Quote
  PROVE  IsBack(a, j + m, m)
<1>1. PICK l \in Nat : l = Len(a)
  BY LenProperties
<1>2. j \in 0..l /\ j + m <= l /\ \A x \in 1..m : a[j + x] = Slash
  BY <1>1 DEF Runs
<1>3. ASSUME NEW x \in 1..m PROVE a[(j + m) + 1 - x] = Slash
  <2>1. m + 1 - x \in 1..m /\ (j + m) + 1 - x = j + (m + 1 - x)
    BY <1>2
  <2>2. QED BY <1>2, <2>1
<1>4. ASSUME m < j + m PROVE a[(j + m) - m] # Slash
  <2>1. (j + m) - m = j /\ j # 0
    BY <1>2, <1>4
  <2>2. CASE a[j] # Slash
    BY <2>1, <2>2
  <2>3. CASE j < Len(a) /\ a[j + 1] # Slash /\ a[j + 1] # Quote
    <3>1. CASE m = 0
      <4>1. j + m + 1 = j + 1 /\ j + m < l
        BY <1>1, <1>2, <2>3, <3>1
      <4>2. QED BY <1>1, <2>3, <4>1
    <3>2. CASE m # 0
      <4>1. 1 \in 1..m
        BY <3>2
      <4>2. QED BY <1>2, <2>3, <4>1
    <3>3. QED BY <3>1, <3>2
  <2>4. QED BY <2>1, <2>2, <2>3 DEF Clean
<1>5. m \in 0..(j + m)
  BY <1>2
<1>6. QED BY <1>3, <1>4, <1>5 DEF IsBack

\* There are r backslashes, and ch behind them.
LEMMA RunningTo ==
  ASSUME line \in Seq(Char), at \in Nat, NEW r \in Nat, at + r + 1 <= Len(line),
         \A x \in 1..r : line[at + x] = Slash, NEW ch, line[at + r + 1] = ch, ch # Slash
  PROVE  Running(r) /\ Ahead(r) = ch
<1>1. PICK l \in Nat : l = Len(line)
  BY LenProperties
<1>2. at + r < l /\ at + r <= l
  BY <1>1
<1>3. Ahead(r) = ch
  BY <1>1, <1>2, AheadIs
<1>4. QED BY <1>1, <1>2, <1>3 DEF Running

LEMMA Sums == \A x, y \in Nat : x + (y + 1) = x + y + 1 /\ (x + y) + y + 1 = x + 2 * y + 1
OBVIOUS

LEMMA AtChar ==
  ASSUME line \in Seq(Char), NEW a \in Seq(Char), NEW s \in Nat, NEW z \in Nat, NEW p,
         Closed(line, a, s, z, p), NEW j \in 0..Len(a), Clean(a, j), at = p[j]
  PROVE  \E m \in Nat : Runs(a, j, m) /\ Before(a, z, p, j, m)
<1>1. PICK n \in Nat, l \in Nat : n = Len(a) /\ l = Len(line)
  BY LenProperties
<1>2. Placed(line, a, s, n, p) /\ z <= l /\ line[z] = Quote
  BY <1>1 DEF Closed
<1>3. /\ \A y \in 0..n : p[y] \in 1..l
      /\ \A h, y \in 0..n : h <= y /\ (\A x \in (h + 1)..y : a[x] # Quote) => p[y] = p[h] + (y - h)
      /\ \A y \in 1..n : a[y] # Quote => line[p[y]] = a[y]
      /\ \A y \in 1..n : a[y] = Quote => Escaped(line, a, y, p)
  BY <1>1, <1>2 DEF Placed
<1>4. j \in 0..n /\ at \in 1..l /\ at \in Nat
  BY <1>1, <1>3
<1>5. PICK m \in Nat : Runs(a, j, m)
  BY RunsExist
<1>6. j + m <= n /\ (\A x \in 1..m : a[j + x] = Slash) /\ (j + m < n => a[j + m + 1] # Slash)
  BY <1>1, <1>5 DEF Runs
<1>7. ASSUME NEW y \in 0..m PROVE p[j + y] = at + y /\ j + y \in 0..n
  <2>1. j + y \in 0..n /\ j <= j + y /\ (j + y) - j = y
    BY <1>4, <1>6
  <2>2. ASSUME NEW x \in (j + 1)..(j + y) PROVE a[x] # Quote
    <3>1. x - j \in 1..m /\ j + (x - j) = x
      BY <1>4
    <3>2. a[x] = Slash
      BY <1>6, <3>1
    <3>3. QED BY <3>2, Characters
  <2>3. p[j + y] = p[j] + ((j + y) - j)
    BY <1>3, <1>4, <2>1, <2>2
  <2>4. QED BY <2>1, <2>3
<1>8. ASSUME NEW x \in 1..m PROVE line[at + x] = Slash
  <2>1. x \in 0..m /\ j + x \in 1..n
    BY <1>4, <1>6
  <2>2. p[j + x] = at + x
    BY <1>7, <2>1
  <2>3. a[j + x] = Slash
    BY <1>6
  <2>4. QED BY <1>3, <2>1, <2>2, <2>3, Characters
<1>9. p[j + m] = at + m /\ j + m \in 0..n
  <2>1. m \in 0..m
    OBVIOUS
  <2>2. QED BY <1>7, <2>1
<1>10. CASE j + m < n /\ a[j + m + 1] # Quote
  <2>1. j + m + 1 \in 1..n /\ j \in 0..n /\ j + m + 1 \in 0..n /\ j <= j + m + 1 /\ (j + m + 1) - j = m + 1
    BY <1>4, <1>10
  <2>2. ASSUME NEW x \in (j + 1)..(j + m + 1) PROVE a[x] # Quote
    <3>1. CASE x = j + m + 1
      BY <1>10, <3>1
    <3>2. CASE x # j + m + 1
      <4>1. x - j \in 1..m /\ j + (x - j) = x
        BY <1>4, <3>2
      <4>2. a[x] = Slash
        BY <1>6, <4>1
      <4>3. QED BY <4>2, Characters
    <3>3. QED BY <3>1, <3>2
  <2>3. p[j + m + 1] = p[j] + ((j + m + 1) - j)
    BY <1>3, <2>1, <2>2
  <2>4. p[j + m + 1] = at + m + 1
    <3>1. at + (m + 1) = at + m + 1
      BY <1>4, Sums, Zenon
    <3>2. p[j + m + 1] = at + (m + 1)
      BY <2>1, <2>3
    <3>3. QED BY <3>1, <3>2, Zenon
  <2>5. line[at + m + 1] = a[j + m + 1] /\ at + m + 1 <= l
    BY <1>3, <1>10, <2>1, <2>4
  <2>6. a[j + m + 1] # Slash
    BY <1>6, <1>10
  <2>7. Running(m) /\ Ahead(m) = a[j + m + 1]
    BY <1>1, <1>4, <1>8, <2>5, <2>6, RunningTo
  <2>8. Before(a, z, p, j, m)
    BY <1>1, <1>9, <1>10, <2>4, <2>7 DEF Before
  <2>9. QED BY <1>5, <2>8
<1>11. CASE j + m < n /\ a[j + m + 1] = Quote
  <2>1. j + m + 1 \in 1..n /\ (j + m + 1) - 1 = j + m
    BY <1>4, <1>11
  <2>2. Escaped(line, a, j + m + 1, p)
    BY <1>3, <1>11, <2>1
  <2>3. PICK b \in 0..(j + m) : /\ IsBack(a, j + m, b) /\ p[j + m + 1] = p[j + m] + b + 2
                                /\ \A x \in 1..(b + 1) : line[p[j + m] + x] = Slash
    BY <2>1, <2>2 DEF Escaped
  <2>4. IsBack(a, j + m, m)
    BY <1>5, <1>11, CleanBack
  <2>5. b = m
    BY <1>4, <2>3, <2>4, BackIs
  <2>6. p[j + m + 1] = at + 2 * m + 2
    BY <1>4, <1>9, <2>3, <2>5
  <2>7. ASSUME NEW x \in 1..(2 * m + 1) PROVE line[at + x] = Slash
    <3>1. CASE x \in 1..m
      BY <1>8, <3>1
    <3>2. CASE x \notin 1..m
      <4>1. x - m \in 1..(m + 1) /\ (at + m) + (x - m) = at + x
        BY <1>4, <3>2
      <4>2. QED BY <1>9, <2>3, <2>5, <4>1
    <3>3. QED BY <3>1, <3>2
  <2>8. line[at + 2 * m + 2] = Quote
    BY <2>2, <2>6 DEF Escaped
  <2>9. at + 2 * m + 2 <= l
    <3>1. j + m + 1 \in 0..n
      BY <2>1
    <3>2. p[j + m + 1] \in 1..l
      BY <1>3, <3>1
    <3>3. QED BY <2>6, <3>2
  <2>10. PICK r \in Nat : r = 2 * m + 1
    OBVIOUS
  <2>11. at + r + 1 = at + 2 * m + 2
    BY <1>4, <2>10
  <2>12. Running(r) /\ Ahead(r) = Quote
    <3>1. at + r + 1 <= Len(line) /\ line[at + r + 1] = Quote /\ \A x \in 1..r : line[at + x] = Slash
      BY <1>1, <2>7, <2>8, <2>9, <2>10, <2>11
    <3>2. QED BY <1>4, <3>1, RunningTo, Characters
  <2>13. Before(a, z, p, j, m)
    BY <1>1, <1>11, <2>6, <2>10, <2>12 DEF Before
  <2>14. QED BY <1>5, <2>13
<1>12. CASE j + m = n
  <2>1. PICK b \in 0..n : /\ IsBack(a, n, b) /\ z = p[n] + b + 1
                          /\ \A x \in 1..b : line[p[n] + x] = Slash
    BY <1>1 DEF Closed
  <2>2. IsBack(a, j + m, m)
    BY <1>1, <1>5, <1>12, CleanBack
  <2>3. b = m
    BY <1>12, <2>1, <2>2, BackIs
  <2>4. z = at + 2 * m + 1
    <3>1. z = (at + m) + m + 1
      BY <1>9, <1>12, <2>1, <2>3
    <3>2. (at + m) + m + 1 = at + 2 * m + 1
      BY <1>4, Sums, Zenon
    <3>3. QED BY <3>1, <3>2
  <2>5. ASSUME NEW x \in 1..(2 * m) PROVE line[at + x] = Slash
    <3>1. CASE x \in 1..m
      BY <1>8, <3>1
    <3>2. CASE x \notin 1..m
      <4>1. x - m \in 1..m
        BY <3>2
      <4>3. (at + m) + (x - m) = at + x
        BY <1>4
      <4>2. QED BY <4>3, <1>9, <1>12, <2>1, <2>3, <4>1
    <3>3. QED BY <3>1, <3>2
  <2>6. PICK r \in Nat : r = 2 * m
    OBVIOUS
  <2>7. Running(r) /\ Ahead(r) = Quote
    <3>1. at + r + 1 <= Len(line) /\ line[at + r + 1] = Quote /\ \A x \in 1..r : line[at + x] = Slash
      BY <1>1, <1>2, <2>4, <2>5, <2>6
    <3>2. QED BY <1>4, <3>1, RunningTo, Characters
  <2>8. Before(a, z, p, j, m)
    BY <1>1, <1>12, <2>4, <2>6, <2>7 DEF Before
  <2>9. QED BY <1>5, <2>8
<1>13. QED BY <1>4, <1>6, <1>10, <1>11, <1>12

\* Between the quotes of an argument, which for the first has neither quotes nor
\* backslashes at its end.
Quoting(a, s, z, p) ==
  /\ Closed(line, a, s, z, p) /\ (z < Len(line) => line[z + 1] = Space)
  /\ Len(got) = 1 => (\A x \in 1..Len(a) : a[x] # Quote) /\ a[Len(a)] # Slash

\* Something else than a backslash.
LEMMA NoRun ==
  ASSUME line \in Seq(Char), at \in 0..Len(line), Ahead(0) # Slash
  PROVE  Run = 0
<1>1. PICK l \in Nat : l = Len(line)
  BY LenProperties
<1>2. at \in Nat /\ at + 0 <= l
  BY <1>1
<1>3. Running(0)
  BY <1>1, <1>2 DEF Running
<1>4. QED BY <1>2, <1>3, RunIs, RunningOne

\* An argument ends n characters ahead.
LEMMA EndAhead ==
  ASSUME line \in Seq(Char), at \in Nat, NEW n \in Nat, at + n <= Len(line),
         at + n < Len(line) => line[at + n + 1] = Space
  PROVE  Ahead(n) \in {Space, "end"}
BY AheadIs

\* Where the reader can be between quotes, but for the characters.
LEMMA AheadQuoted ==
  ASSUME LineTypes, NEW a \in Seq(Char), NEW s \in Nat, NEW z \in Nat, NEW p, Quoting(a, s, z, p)
  PROVE  /\ at = s => Ahead(0) = Quote /\ at + 1 = p[0] /\ at + 1 <= Len(line)
         /\ at + 1 = z => Ahead(0) = Quote /\ Ahead(1) \in {Space, "end"}
         /\ at = z => Ahead(0) \in {Space, "end"}
         /\ z <= Len(line)
<1>1. line \in Seq(Char) /\ at \in 0..Len(line)
  BY DEF LineTypes
<1>2. PICK l \in Nat, n \in Nat : l = Len(line) /\ n = Len(a)
  BY <1>1, LenProperties
<1>3. at \in Nat
  BY <1>1, <1>2
<1>4. /\ z <= l /\ line[z] = Quote /\ (z < l => line[z + 1] = Space)
      /\ s + 1 <= l /\ line[s + 1] = Quote /\ p[0] = s + 1
  BY <1>2 DEF Quoting, Closed, Placed
<1>5. ASSUME at = s PROVE Ahead(0) = Quote
  <2>1. at + 0 < l /\ at + 0 + 1 = s + 1
    BY <1>4, <1>5
  <2>2. QED BY <1>1, <1>2, <1>3, <1>4, <2>1, AheadIs
<1>6. ASSUME at + 1 = z PROVE Ahead(0) = Quote /\ Ahead(1) \in {Space, "end"}
  <2>1. at + 0 < l /\ at + 0 + 1 = z
    BY <1>3, <1>4, <1>6
  <2>2. Ahead(0) = Quote
    BY <1>1, <1>2, <1>3, <1>4, <2>1, AheadIs
  <2>3. at + 1 <= Len(line) /\ (at + 1 < Len(line) => line[at + 1 + 1] = Space)
    BY <1>2, <1>4, <1>6
  <2>4. QED BY <1>1, <1>3, <2>2, <2>3, EndAhead
<1>7. ASSUME at = z PROVE Ahead(0) \in {Space, "end"}
  <2>1. at + 0 <= Len(line) /\ (at + 0 < Len(line) => line[at + 0 + 1] = Space)
    BY <1>2, <1>4, <1>7
  <2>2. QED BY <1>1, <1>3, <2>1, EndAhead
<1>8. QED BY <1>2, <1>4, <1>5, <1>6, <1>7

\* The reader is at the j-th character of a, and has those before it.
AtPlace(a, p, j) == open /\ at = p[j] /\ Clean(a, j) /\ Prefix(got[Len(got)], a, j)

LEMMA InQuotedCases ==
  ASSUME NEW a, NEW s, NEW z, NEW p
  PROVE  InQuoted(a, s, z, p) <=>
           \/ ~open /\ at = s /\ got[Len(got)] = <<>>
           \/ \E j \in 0..Len(a) : AtPlace(a, p, j)
           \/ open /\ at + 1 = z /\ got[Len(got)] = a
           \/ ~open /\ at = z /\ got[Len(got)] = a
BY DEF InQuoted, AtPlace

\* What the reader has of the argument.
LEMMA LastGot ==
  ASSUME LineTypes, inside
  PROVE  /\ got \in Seq(Seq(Char)) /\ got # <<>> /\ Len(got) \in Nat \ {0}
         /\ got[Len(got)] \in Seq(Char)
<1>1. got \in Seq(Seq(Char)) /\ got # <<>>
  BY DEF LineTypes
<1>2. PICK n \in Nat : n = Len(got)
  BY <1>1, LenProperties
<1>3. n # 0
  BY <1>1, <1>2, EmptySeq
<1>4. n \in 1..n
  BY <1>3
<1>5. QED BY <1>1, <1>2, <1>3, <1>4, ElementOfSeq

\* It gets u behind it.
LEMMA LastMore ==
  ASSUME LineTypes, inside, NEW a \in Seq(Char), NEW j \in Nat, Prefix(got[Len(got)], a, j),
         NEW u \in Seq(Char), NEW n \in Nat, Len(u) = n, \A x \in 1..n : a[j + x] = u[x], Add(u)
  PROVE  /\ Prefix(got[Len(got)], a, j + n)'
         /\ j + n = Len(a) => got'[Len(got')] = a
<1>1. PICK g \in Seq(Char) : g = got[Len(got)]
  BY LastGot
<1>2. got'[Len(got')] = g \o u
  BY <1>1, LastGot, AddKeeps
<1>3. PICK w : w = g \o u
  OBVIOUS
<1>4. w \in Seq(Char) /\ Prefix(w, a, j + n)
  BY <1>1, <1>3, PrefixMore
<1>5. Prefix(got[Len(got)], a, j + n)'
  BY <1>2, <1>3, <1>4 DEF Prefix
<1>6. j + n = Len(a) => w = a
  BY <1>4, PrefixWhole
<1>7. QED BY <1>2, <1>3, <1>5, <1>6

LEMMA BackslashesAre ==
  ASSUME NEW n \in Nat
  PROVE  /\ Backslashes(n) \in Seq(Char) /\ Len(Backslashes(n)) = n
         /\ \A x \in 1..n : Backslashes(n)[x] = Slash
BY Characters DEF Backslashes

\* The backslashes are read.
LEMMA SlashesQuoted ==
  ASSUME LineTypes, inside, NEW a \in Seq(Char), NEW s \in Nat, NEW z \in Nat, NEW p,
         Quoting(a, s, z, p), InQuoted(a, s, z, p), ReadSlashes
  PROVE  InQuoted(a, s, z, p)'
<1>1. /\ Run > 0 /\ open' = open
      /\ IF Plain \/ Ahead(Run) # Quote
           THEN at' = at + Run /\ Add(Backslashes(Run))
           ELSE IF Run % 2 = 1
             THEN at' = at + Run + 1 /\ Add(Append(Backslashes(Run \div 2), Quote))
             ELSE at' = at + Run /\ Add(Backslashes(Run \div 2))
  BY DEF ReadSlashes
<1>2. line \in Seq(Char) /\ at \in 0..Len(line)
  BY DEF LineTypes
<1>3. PICK l \in Nat, n \in Nat : l = Len(line) /\ n = Len(a)
  BY <1>2, LenProperties
<1>4. at \in Nat
  BY <1>2, <1>3
<1>5. Running(Run) /\ Run # 0
  BY <1>1, <1>2, RunIs
<1>6. Ahead(0) = Slash
  BY <1>2, <1>5, NoRun
<1>7. PICK j \in 0..n : AtPlace(a, p, j)
  <2>1. at # s /\ at + 1 # z /\ at # z
    BY <1>6, AheadQuoted, Characters
  <2>2. QED BY <1>3, <2>1, InQuotedCases
<1>8. open /\ at = p[j] /\ Clean(a, j) /\ Prefix(got[Len(got)], a, j) /\ j \in Nat
  BY <1>7 DEF AtPlace
<1>9. Closed(line, a, s, z, p)
  BY DEF Quoting
<1>10. PICK m \in Nat : Runs(a, j, m) /\ Before(a, z, p, j, m)
  BY <1>2, <1>3, <1>8, <1>9, AtChar
<1>11. j + m <= n /\ (\A x \in 1..m : a[j + x] = Slash) /\ (j + m < n => a[j + m + 1] # Slash)
  BY <1>3, <1>10 DEF Runs
<1>12. PICK u : u = Backslashes(m)
  OBVIOUS
<1>13. u \in Seq(Char) /\ Len(u) = m /\ \A x \in 1..m : u[x] = Slash
  BY <1>12, BackslashesAre
<1>14. Plain => (\A x \in 1..n : a[x] # Quote) /\ a[n] # Slash
  BY <1>3 DEF Quoting, Plain
<1>15. CASE /\ j + m < Len(a) /\ a[j + m + 1] # Quote
            /\ Running(m) /\ Ahead(m) = a[j + m + 1] /\ p[j + m] = at + m
  <2>1. Run = m
    BY <1>2, <1>4, <1>5, <1>15, RunningOne
  <2>2. at' = p[j + m] /\ Add(u)
    BY <1>1, <1>12, <1>15, <2>1
  <2>3. Prefix(got[Len(got)], a, j + m)'
    BY <1>8, <1>11, <1>13, <2>2, LastMore
  <2>4. Clean(a, j + m)
    BY <1>3, <1>11, <1>15 DEF Clean
  <2>5. j + m \in 0..Len(a)
    BY <1>3, <1>8, <1>11
  <2>6. AtPlace(a, p, j + m)'
    BY <1>1, <1>8, <2>2, <2>3, <2>4 DEF AtPlace
  <2>7. QED BY <2>5, <2>6 DEF AtPlace, InQuoted
<1>16. CASE /\ j + m < Len(a) /\ a[j + m + 1] = Quote
            /\ Running(2 * m + 1) /\ Ahead(2 * m + 1) = Quote /\ p[j + m + 1] = at + 2 * m + 2
  <2>1. Run = 2 * m + 1
    BY <1>2, <1>4, <1>5, <1>16, RunningOne
  <2>2. ~Plain
    <3>1. j + m + 1 \in 1..n
      BY <1>3, <1>8, <1>16
    <3>2. QED BY <1>14, <1>16, <3>1
  <2>3. Run % 2 = 1 /\ Run \div 2 = m
    BY <2>1
  <2>4. at' = p[j + m + 1] /\ Add(Append(u, Quote))
    <3>1. at + Run + 1 = at + 2 * m + 2
      BY <1>4, <2>1
    <3>2. QED BY <1>1, <1>12, <1>16, <2>1, <2>2, <2>3, <3>1
  <2>5. PICK w : w = Append(u, Quote)
    OBVIOUS
  <2>6. w \in Seq(Char) /\ Len(w) = m + 1 /\ w[m + 1] = Quote /\ \A x \in 1..m : w[x] = Slash
    BY <1>13, <2>5, AppendProperties, Characters
  <2>7. ASSUME NEW x \in 1..(m + 1) PROVE a[j + x] = w[x]
    <3>1. CASE x = m + 1
      <4>1. j + x = j + m + 1
        BY <3>1
      <4>2. QED BY <1>16, <2>6, <3>1, <4>1
    <3>2. CASE x # m + 1
      <4>1. x \in 1..m
        BY <3>2
      <4>2. QED BY <1>11, <2>6, <4>1
    <3>3. QED BY <3>1, <3>2
  <2>8. Prefix(got[Len(got)], a, j + (m + 1))'
    <3>1. PICK t \in Nat : t = m + 1
      OBVIOUS
    <3>2. Add(w) /\ Len(w) = t /\ \A x \in 1..t : a[j + x] = w[x]
      BY <2>4, <2>5, <2>6, <2>7, <3>1
    <3>3. Prefix(got[Len(got)], a, j + t)'
      BY <1>8, <2>6, <3>2, LastMore
    <3>4. QED BY <3>1, <3>3
  <2>9. j + (m + 1) = j + m + 1 /\ j + m + 1 \in 0..Len(a)
    BY <1>3, <1>8, <1>16
  <2>10. Clean(a, j + m + 1)
    BY <1>16, Characters DEF Clean
  <2>11. AtPlace(a, p, j + m + 1)'
    BY <1>1, <1>8, <2>4, <2>8, <2>9, <2>10 DEF AtPlace
  <2>12. QED BY <2>9, <2>11 DEF AtPlace, InQuoted
<1>17. CASE j + m = Len(a) /\ Running(2 * m) /\ Ahead(2 * m) = Quote /\ z = at + 2 * m + 1
  <2>1. Run = 2 * m
    BY <1>2, <1>4, <1>5, <1>17, RunningOne
  <2>2. m # 0
    BY <1>5, <2>1
  <2>3. ~Plain
    <3>1. m \in 1..m
      BY <2>2
    <3>2. a[n] = Slash
      BY <1>3, <1>11, <1>17, <3>1
    <3>3. QED BY <1>14, <3>2
  <2>4. Run % 2 # 1 /\ Run \div 2 = m
    BY <2>1
  <2>5. at' = at + 2 * m /\ Add(u)
    BY <1>1, <1>12, <1>17, <2>1, <2>3, <2>4
  <2>6. got'[Len(got')] = a
    BY <1>8, <1>11, <1>13, <1>17, <2>5, LastMore
  <2>7. at' + 1 = z
    BY <1>4, <1>17, <2>5
  <2>8. QED BY <1>1, <1>8, <2>6, <2>7 DEF InQuoted
<1>18. QED BY <1>10, <1>15, <1>16, <1>17 DEF Before

\* No backslashes are there.
LEMMA AtOther ==
  ASSUME LineTypes, inside, NEW a \in Seq(Char), NEW s \in Nat, NEW z \in Nat, NEW p,
         Quoting(a, s, z, p), NEW j \in 0..Len(a), AtPlace(a, p, j), Ahead(0) # Slash
  PROVE  \/ /\ j < Len(a) /\ Ahead(0) = a[j + 1] /\ a[j + 1] \notin {Quote, Slash}
            /\ p[j + 1] = at + 1 /\ at < Len(line)
         \/ j = Len(a) /\ Ahead(0) = Quote /\ at + 1 = z /\ got[Len(got)] = a
<1>1. line \in Seq(Char) /\ at \in 0..Len(line)
  BY DEF LineTypes
<1>2. PICK l \in Nat, n \in Nat : l = Len(line) /\ n = Len(a)
  BY <1>1, LenProperties
<1>3. at \in Nat /\ at <= l /\ j \in 0..n
  BY <1>1, <1>2
<1>4. Running(0)
  <2>1. at + 0 <= Len(line)
    BY <1>2, <1>3
  <2>2. QED BY <2>1 DEF Running
<1>5. open /\ at = p[j] /\ Clean(a, j) /\ Prefix(got[Len(got)], a, j)
  BY DEF AtPlace
<1>6. Closed(line, a, s, z, p)
  BY DEF Quoting
<1>7. PICK m \in Nat : Runs(a, j, m) /\ Before(a, z, p, j, m)
  BY <1>1, <1>5, <1>6, AtChar
<1>8. CASE /\ j + m < Len(a) /\ a[j + m + 1] # Quote
           /\ Running(m) /\ Ahead(m) = a[j + m + 1] /\ p[j + m + 1] = at + m + 1
  <2>1. m = 0
    BY <1>1, <1>3, <1>4, <1>8, RunningOne
  <2>2. j + m = j /\ j + m + 1 = j + 1 /\ at + m + 1 = at + 1 /\ at + 0 = at
    BY <1>3, <2>1
  <2>3. j < Len(a) /\ a[j + 1] # Quote /\ Ahead(0) = a[j + 1] /\ p[j + 1] = at + 1
    BY <1>8, <2>1, <2>2
  <2>4. a[j + 1] \in Char
    <3>1. j + 1 \in 1..n
      BY <1>2, <1>3, <2>3
    <3>2. QED BY <1>2, <3>1, ElementOfSeq
  <2>5. at < Len(line)
    <3>1. Ahead(0) # "end"
      BY <2>3, <2>4, Characters
    <3>2. at + 0 < Len(line)
      BY <1>1, <1>3, <3>1, AheadIs
    <3>3. QED BY <2>2, <3>2
  <2>6. QED BY <2>3, <2>5
<1>9. CASE Running(2 * m + 1)
  <2>1. PICK r \in Nat : r = 2 * m + 1
    OBVIOUS
  <2>2. r = 0
    BY <1>1, <1>3, <1>4, <1>9, <2>1, RunningOne
  <2>3. QED BY <2>1, <2>2
<1>10. CASE j + m = Len(a) /\ Running(2 * m) /\ Ahead(2 * m) = Quote /\ z = at + 2 * m + 1
  <2>1. PICK r \in Nat : r = 2 * m
    OBVIOUS
  <2>2. r = 0
    BY <1>1, <1>3, <1>4, <1>10, <2>1, RunningOne
  <2>3. m = 0
    BY <2>1, <2>2
  <2>4. j = Len(a) /\ Ahead(0) = Quote /\ z = at + 1
    BY <1>3, <1>10, <2>1, <2>2, <2>3
  <2>5. got[Len(got)] = a
    <3>1. PICK g \in Seq(Char) : g = got[Len(got)]
      BY LastGot
    <3>2. Prefix(g, a, Len(a))
      BY <1>5, <2>4, <3>1
    <3>3. QED BY <3>1, <3>2, PrefixWhole
  <2>6. QED BY <2>4, <2>5
<1>11. QED BY <1>7, <1>8, <1>9, <1>10 DEF Before

\* A quote opens and closes.
LEMMA QuoteQuoted ==
  ASSUME LineTypes, inside, NEW a \in Seq(Char), NEW s \in Nat, NEW z \in Nat, NEW p,
         Quoting(a, s, z, p), InQuoted(a, s, z, p), ReadQuote
  PROVE  InQuoted(a, s, z, p)'
<1>1. /\ Ahead(0) = Quote /\ inside' = inside
      /\ IF open /\ Ahead(1) = Quote /\ ~Plain
           THEN at' = at + 2 /\ Add(<<Quote>>) /\ UNCHANGED open
           ELSE at' = at + 1 /\ open' = ~open /\ UNCHANGED got
  BY DEF ReadQuote
<1>2. line \in Seq(Char) /\ at \in 0..Len(line)
  BY DEF LineTypes
<1>3. PICK l \in Nat, n \in Nat : l = Len(line) /\ n = Len(a)
  BY <1>2, LenProperties
<1>4. CASE ~open /\ at = s /\ got[Len(got)] = <<>>
  <2>1. at' = p[0] /\ open' /\ got' = got
    BY <1>1, <1>4, AheadQuoted
  <2>2. Prefix(got[Len(got)], a, 0)'
    BY <1>4, <2>1 DEF Prefix
  <2>3. 0 \in 0..Len(a)
    BY <1>3
  <2>4. Clean(a, 0)
    BY DEF Clean
  <2>5. QED BY <2>1, <2>2, <2>3, <2>4 DEF InQuoted
<1>5. CASE open /\ at + 1 = z /\ got[Len(got)] = a
  <2>1. Ahead(1) # Quote
    BY <1>5, AheadQuoted, Characters
  <2>2. at' = z /\ ~open' /\ got' = got
    BY <1>1, <1>5, <2>1
  <2>3. QED BY <1>5, <2>2 DEF InQuoted
<1>6. ASSUME NEW j \in 0..Len(a), AtPlace(a, p, j) PROVE open /\ at + 1 = z /\ got[Len(got)] = a
  <2>1. Ahead(0) # Slash
    BY <1>1, Characters
  <2>2. open
    BY <1>6 DEF AtPlace
  <2>3. QED BY <1>1, <1>6, <2>1, <2>2, AtOther
<1>7. at # z
  BY <1>1, AheadQuoted, Characters
<1>8. QED BY <1>4, <1>5, <1>6, <1>7, InQuotedCases

\* Any other character is read.
LEMMA OtherQuoted ==
  ASSUME LineTypes, inside, NEW a \in Seq(Char), NEW s \in Nat, NEW z \in Nat, NEW p,
         Quoting(a, s, z, p), InQuoted(a, s, z, p), ReadOther
  PROVE  InQuoted(a, s, z, p)'
<1>1. /\ Ahead(0) \notin {Quote, Slash, "end"} /\ (Ahead(0) = Space => open)
      /\ at' = at + 1 /\ open' = open /\ Add(<<Ahead(0)>>)
  BY DEF ReadOther
<1>2. PICK n \in Nat : n = Len(a)
  BY LenProperties
<1>3. PICK j \in 0..n : AtPlace(a, p, j)
  <2>1. at # s /\ at + 1 # z /\ (at = z => open)
    BY <1>1, AheadQuoted
  <2>2. QED BY <1>2, <2>1, InQuotedCases
<1>4. open /\ Prefix(got[Len(got)], a, j) /\ j \in Nat
  BY <1>3 DEF AtPlace
<1>5. j < n /\ Ahead(0) = a[j + 1] /\ p[j + 1] = at + 1
  BY <1>1, <1>2, <1>3, AtOther
<1>6. PICK u : u = <<a[j + 1]>>
  OBVIOUS
<1>7. u \in Seq(Char) /\ Len(u) = 1 /\ u[1] = a[j + 1]
  <2>1. j + 1 \in 1..n
    BY <1>4, <1>5
  <2>2. a[j + 1] \in Char
    BY <1>2, <2>1, ElementOfSeq
  <2>3. QED BY <1>6, <2>2
<1>8. Add(u)
  BY <1>1, <1>5, <1>6
<1>9. Prefix(got[Len(got)], a, j + 1)'
  <2>1. \A x \in 1..1 : a[j + x] = u[x]
    BY <1>7
  <2>2. QED BY <1>4, <1>7, <1>8, <2>1, LastMore
<1>10. Clean(a, j + 1)
  BY <1>1, <1>5 DEF Clean
<1>11. j + 1 \in 0..Len(a)
  BY <1>2, <1>4, <1>5
<1>12. QED BY <1>1, <1>4, <1>5, <1>9, <1>10, <1>11 DEF InQuoted

\* Between quotes no argument ends.
LEMMA EndQuoted ==
  ASSUME LineTypes, inside, NEW a \in Seq(Char), NEW s \in Nat, NEW z \in Nat, NEW p,
         Quoting(a, s, z, p), InQuoted(a, s, z, p), EndArgument
  PROVE  at = z /\ got[Len(got)] = a
<1>1. Ahead(0) = "end" \/ (Ahead(0) = Space /\ ~open)
  BY DEF EndArgument
<1>2. Ahead(0) # Quote /\ Ahead(0) # Slash
  BY <1>1, Characters
<1>3. at # s /\ at + 1 # z
  BY <1>2, AheadQuoted
<1>4. ASSUME NEW j \in 0..Len(a), AtPlace(a, p, j) PROVE FALSE
  <2>1. open
    BY <1>4 DEF AtPlace
  <2>2. Ahead(0) = "end"
    BY <1>1, <2>1
  <2>3. Ahead(0) = a[j + 1] /\ j < Len(a)
    BY <1>2, <1>4, AtOther
  <2>4. PICK n \in Nat : n = Len(a)
    BY LenProperties
  <2>5. j + 1 \in 1..n
    BY <2>3, <2>4
  <2>6. a[j + 1] \in Char
    BY <2>4, <2>5, ElementOfSeq
  <2>7. QED BY <2>2, <2>3, <2>6, Characters
<1>5. QED BY <1>3, <1>4, InQuotedCases

-----------------------------------------------------------------------------
(* An argument that was copied as it is is read.                           *)

Word(a, s, z) ==
  /\ Copied(line, a, s, z) /\ ~Blank(a) /\ (\A x \in 1..Len(a) : a[x] # Quote)
  /\ z < Len(line) => line[z + 1] = Space

\* What is ahead of its j-th character: the backslashes that follow, and a character
\* that is no quote, or the end.
Behold(a, z, j, m) ==
  /\ Running(m)
  /\ \/ /\ j + m < Len(a) /\ Ahead(m) = a[j + m + 1] /\ a[j + m + 1] \in Char
        /\ a[j + m + 1] \notin {Quote, Slash, Space}
     \/ j + m = Len(a) /\ at + m = z /\ Ahead(m) \in {Space, "end"}

LEMMA AtWord ==
  ASSUME LineTypes, NEW a \in Seq(Char), NEW s \in Nat, NEW z \in Nat, Word(a, s, z),
         NEW j \in 0..Len(a), at = s + j
  PROVE  \E m \in Nat : Runs(a, j, m) /\ Behold(a, z, j, m)
<1>1. line \in Seq(Char)
  BY DEF LineTypes
<1>2. PICK l \in Nat, n \in Nat : l = Len(line) /\ n = Len(a)
  BY <1>1, LenProperties
<1>3. at \in Nat /\ j \in 0..n
  BY <1>2
<1>4. /\ z = s + n /\ z <= l /\ (\A x \in 1..n : line[s + x] = a[x])
      /\ (\A x \in 1..n : a[x] # Quote) /\ (z < l => line[z + 1] = Space)
  BY <1>2 DEF Word, Copied
<1>5. \A x \in 1..n : a[x] \in Char /\ a[x] # Space
  <2>1. \A x \in 1..n : a[x] \in Char
    BY <1>2, ElementOfSeq
  <2>2. ~Blank(a) /\ DOMAIN a = 1..n
    BY <1>2, LenProperties DEF Word
  <2>3. QED BY <2>1, <2>2 DEF Blank
<1>6. PICK m \in Nat : Runs(a, j, m)
  BY RunsExist
<1>7. j + m <= n /\ (\A x \in 1..m : a[j + x] = Slash) /\ (j + m < n => a[j + m + 1] # Slash)
  BY <1>2, <1>6 DEF Runs
<1>8. ASSUME NEW x \in 1..m PROVE line[at + x] = Slash
  <2>1. j + x \in 1..n /\ at + x = s + (j + x)
    BY <1>3, <1>7
  <2>2. QED BY <1>4, <1>7, <2>1
<1>9. at + m <= l
  BY <1>3, <1>4, <1>7
<1>10. CASE j + m < n
  <2>1. j + m + 1 \in 1..n /\ at + m + 1 = s + (j + m + 1)
    BY <1>3, <1>10
  <2>2. line[at + m + 1] = a[j + m + 1] /\ a[j + m + 1] \in Char /\ a[j + m + 1] \notin {Quote, Slash, Space}
    BY <1>4, <1>5, <1>7, <1>10, <2>1
  <2>3. at + m < l
    BY <1>3, <1>4, <1>10
  <2>4. Ahead(m) = a[j + m + 1]
    BY <1>1, <1>2, <1>3, <2>2, <2>3, AheadIs
  <2>5. Running(m)
    BY <1>2, <1>8, <1>9, <2>2, <2>4 DEF Running
  <2>6. QED BY <1>2, <1>6, <1>10, <2>2, <2>4, <2>5 DEF Behold
<1>11. CASE j + m = n
  <2>1. at + m = z
    BY <1>3, <1>4, <1>11
  <2>2. at + m <= Len(line) /\ (at + m < Len(line) => line[at + m + 1] = Space)
    BY <1>2, <1>4, <2>1
  <2>3. Ahead(m) \in {Space, "end"}
    BY <1>1, <1>3, <2>2, EndAhead
  <2>4. Running(m)
    BY <1>2, <1>8, <1>9, <2>3, Characters DEF Running
  <2>5. QED BY <1>2, <1>6, <1>11, <2>1, <2>3, <2>4 DEF Behold
<1>12. QED BY <1>3, <1>7, <1>10, <1>11

\* The backslashes are read.
LEMMA SlashesPlain ==
  ASSUME LineTypes, inside, NEW a \in Seq(Char), NEW s \in Nat, NEW z \in Nat,
         Word(a, s, z), InPlain(a, s), ReadSlashes
  PROVE  InPlain(a, s)'
<1>1. /\ Run > 0 /\ open' = open
      /\ Plain \/ Ahead(Run) # Quote => at' = at + Run /\ Add(Backslashes(Run))
  BY DEF ReadSlashes
<1>2. line \in Seq(Char) /\ at \in 0..Len(line)
  BY DEF LineTypes
<1>3. PICK l \in Nat, n \in Nat : l = Len(line) /\ n = Len(a)
  BY <1>2, LenProperties
<1>4. at \in Nat
  BY <1>2, <1>3
<1>5. PICK j \in 0..n : ~open /\ at = s + j /\ Prefix(got[Len(got)], a, j)
  BY <1>3 DEF InPlain
<1>6. PICK m \in Nat : Runs(a, j, m) /\ Behold(a, z, j, m)
  BY <1>3, <1>5, AtWord
<1>7. Run = m
  <2>1. Running(Run) /\ Running(m)
    BY <1>2, <1>6, RunIs DEF Behold
  <2>2. QED BY <1>2, <1>4, <2>1, RunningOne
<1>8. Ahead(m) # Quote
  BY <1>6, Characters DEF Behold
<1>9. PICK u : u = Backslashes(m)
  OBVIOUS
<1>10. u \in Seq(Char) /\ Len(u) = m /\ \A x \in 1..m : u[x] = Slash
  BY <1>9, BackslashesAre
<1>11. at' = at + m /\ Add(u)
  BY <1>1, <1>7, <1>8, <1>9
<1>12. j + m <= n /\ \A x \in 1..m : a[j + x] = Slash
  BY <1>3, <1>6 DEF Runs
<1>13. Prefix(got[Len(got)], a, j + m)'
  <2>1. j \in Nat
    BY <1>5
  <2>2. \A x \in 1..m : a[j + x] = u[x]
    BY <1>10, <1>12, Zenon
  <2>3. QED BY <1>5, <1>10, <1>11, <2>1, <2>2, LastMore
<1>14. at' = s + (j + m) /\ j + m \in 0..Len(a)
  BY <1>3, <1>5, <1>11, <1>12
<1>15. QED BY <1>1, <1>5, <1>13, <1>14 DEF InPlain

\* No backslashes are there.
LEMMA AtOtherPlain ==
  ASSUME LineTypes, inside, NEW a \in Seq(Char), NEW s \in Nat, NEW z \in Nat, Word(a, s, z),
         NEW j \in 0..Len(a), at = s + j, Prefix(got[Len(got)], a, j), Ahead(0) # Slash
  PROVE  \/ /\ j < Len(a) /\ Ahead(0) = a[j + 1] /\ a[j + 1] \in Char
            /\ a[j + 1] \notin {Quote, Slash, Space}
         \/ j = Len(a) /\ at = z /\ Ahead(0) \in {Space, "end"} /\ got[Len(got)] = a
<1>1. line \in Seq(Char) /\ at \in 0..Len(line)
  BY DEF LineTypes
<1>2. PICK l \in Nat, n \in Nat : l = Len(line) /\ n = Len(a)
  BY <1>1, LenProperties
<1>3. at \in Nat /\ at <= l /\ j \in 0..n
  BY <1>1, <1>2
<1>4. PICK m \in Nat : Runs(a, j, m) /\ Behold(a, z, j, m)
  BY AtWord
<1>5. Running(0)
  <2>1. at + 0 <= Len(line)
    BY <1>2, <1>3
  <2>2. QED BY <2>1 DEF Running
<1>6. m = 0
  <2>1. Running(m)
    BY <1>4 DEF Behold
  <2>2. QED BY <1>1, <1>3, <1>5, <2>1, RunningOne
<1>7. j + m = j /\ j + m + 1 = j + 1 /\ at + m = at
  BY <1>3, <1>6
<1>8. \/ /\ j < Len(a) /\ Ahead(0) = a[j + 1] /\ a[j + 1] \in Char
         /\ a[j + 1] \notin {Quote, Slash, Space}
      \/ j = Len(a) /\ at = z /\ Ahead(0) \in {Space, "end"}
  BY <1>4, <1>6, <1>7 DEF Behold
<1>9. ASSUME j = Len(a) PROVE got[Len(got)] = a
  <2>1. PICK g \in Seq(Char) : g = got[Len(got)]
    BY LastGot
  <2>2. Prefix(g, a, Len(a))
    BY <1>9, <2>1
  <2>3. QED BY <2>1, <2>2, PrefixWhole
<1>10. QED BY <1>8, <1>9

\* There is no quote.
LEMMA QuotePlain ==
  ASSUME LineTypes, inside, NEW a \in Seq(Char), NEW s \in Nat, NEW z \in Nat,
         Word(a, s, z), InPlain(a, s)
  PROVE  ~ReadQuote
<1> SUFFICES ASSUME ReadQuote PROVE FALSE
  OBVIOUS
<1>1. Ahead(0) = Quote
  BY DEF ReadQuote
<1>2. PICK j \in 0..Len(a) : at = s + j /\ Prefix(got[Len(got)], a, j)
  BY DEF InPlain
<1>3. Ahead(0) # Slash
  BY <1>1, Characters
<1>4. QED BY <1>1, <1>2, <1>3, AtOtherPlain, Characters

\* Any other character is read.
LEMMA OtherPlain ==
  ASSUME LineTypes, inside, NEW a \in Seq(Char), NEW s \in Nat, NEW z \in Nat,
         Word(a, s, z), InPlain(a, s), ReadOther
  PROVE  InPlain(a, s)'
<1>1. /\ Ahead(0) \notin {Quote, Slash, "end"} /\ (Ahead(0) = Space => open)
      /\ at' = at + 1 /\ open' = open /\ Add(<<Ahead(0)>>)
  BY DEF ReadOther
<1>2. PICK n \in Nat : n = Len(a)
  BY LenProperties
<1>3. PICK j \in 0..n : ~open /\ at = s + j /\ Prefix(got[Len(got)], a, j)
  BY <1>2 DEF InPlain
<1>4. j < n /\ Ahead(0) = a[j + 1] /\ a[j + 1] \in Char /\ j \in Nat
  <2>1. Ahead(0) # Slash /\ Ahead(0) \notin {Space, "end"}
    BY <1>1, <1>3
  <2>2. QED BY <1>2, <1>3, <2>1, AtOtherPlain
<1>5. PICK u : u = <<a[j + 1]>>
  OBVIOUS
<1>6. u \in Seq(Char) /\ Len(u) = 1 /\ u[1] = a[j + 1]
  BY <1>4, <1>5
<1>7. Add(u)
  BY <1>1, <1>4, <1>5
<1>8. Prefix(got[Len(got)], a, j + 1)'
  <2>1. \A x \in 1..1 : a[j + x] = u[x]
    BY <1>6
  <2>2. QED BY <1>3, <1>4, <1>6, <1>7, <2>1, LastMore
<1>9. at' = s + (j + 1) /\ j + 1 \in 0..Len(a)
  BY <1>1, <1>2, <1>3, <1>4
<1>10. QED BY <1>1, <1>3, <1>8, <1>9 DEF InPlain

\* It ends where it should.
LEMMA EndPlain ==
  ASSUME LineTypes, inside, NEW a \in Seq(Char), NEW s \in Nat, NEW z \in Nat,
         Word(a, s, z), InPlain(a, s), EndArgument
  PROVE  at = z /\ got[Len(got)] = a
<1>1. Ahead(0) \in {Space, "end"}
  BY DEF EndArgument
<1>2. PICK j \in 0..Len(a) : at = s + j /\ Prefix(got[Len(got)], a, j)
  BY DEF InPlain
<1>3. Ahead(0) # Slash
  BY <1>1, Characters
<1>4. QED BY <1>1, <1>2, <1>3, AtOtherPlain, Characters

-----------------------------------------------------------------------------
(* All arguments are read.                                                 *)

\* The k-th argument, in a line that is whole.
LEMMA TheArgument ==
  ASSUME LineTypes, NEW e, NEW q, Laid(argv, line, e, q, Len(argv)), e[Len(argv)] = Len(line),
         Legible, NEW k \in 1..Len(argv)
  PROVE  /\ argv[k] \in Seq(Char) /\ argv[k] # <<>> /\ From(e, k) \in Nat
         /\ e[k] \in Nat /\ e[k] <= Len(line) /\ (e[k] < Len(line) => line[e[k] + 1] = Space)
         /\ k < Len(argv) => e[k] < Len(line)
         /\ ~Blank(argv[k]) => Word(argv[k], From(e, k), e[k])
         /\ Blank(argv[k]) => Closed(line, argv[k], From(e, k), e[k], q[k])
         /\ Blank(argv[k]) /\ k = Len(got) => Quoting(argv[k], From(e, k), e[k], q[k])
<1>1. /\ argv \in Seq(Seq(Char)) /\ Len(argv) \in Nat /\ \A y \in 1..Len(argv) : argv[y] \in Seq(Char)
      /\ \A j \in 1..Len(argv[1]) : argv[1][j] # Quote
      /\ argv[1][Len(argv[1])] # Slash
  BY ArgvTyped
<1>2. PICK m \in Nat : m = Len(argv)
  BY <1>1
<1>3. PICK l \in Nat : l = Len(line) /\ line \in Seq(Char)
  BY LenProperties DEF LineTypes
<1>4. k \in 1..m
  BY <1>2
<1>5. PICK a \in Seq(Char) : a = argv[k]
  BY <1>1
<1>6. PICK n \in Nat : n = Len(a)
  BY LenProperties
<1>7. IsArg(argv, line, e, q, k) /\ e[k] \in Nat
  BY <1>2, <1>4 DEF Laid, IsArg
<1>8. From(e, k) \in Nat
  <2>1. CASE k = 1
    BY <2>1 DEF From
  <2>2. CASE k # 1
    <3>1. k - 1 \in 1..m
      BY <1>4, <2>2
    <3>2. e[k - 1] \in Nat
      BY <1>2, <3>1 DEF Laid, IsArg
    <3>3. QED BY <2>2, <3>2 DEF From
  <2>3. QED BY <2>1, <2>2
<1>9. a # <<>> /\ (~Blank(a) => \A x \in 1..n : a[x] # Quote)
  <2>1. DOMAIN argv = 1..m /\ DOMAIN a = 1..n
    BY <1>1, <1>2, <1>6, LenProperties
  <2>2. ~Bare(a)
    BY <1>4, <1>5, <2>1 DEF Legible
  <2>3. QED BY <2>1, <2>2 DEF Bare
<1>10. ASSUME k < m PROVE e[k] < l /\ line[e[k] + 1] = Space
  <2>1. k + 1 \in 1..m /\ k + 1 > 1 /\ (k + 1) - 1 = k
    BY <1>4, <1>10
  <2>2. IsArg(argv, line, e, q, k + 1)
    BY <1>2, <2>1 DEF Laid
  <2>3. Apart(line, e, k + 1)
    BY <2>2 DEF IsArg
  <2>4. QED BY <1>3, <2>1, <2>3 DEF Apart
<1>11. k = m => e[k] = l
  BY <1>2, <1>3
<1>12. e[k] <= l /\ (e[k] < l => line[e[k] + 1] = Space)
  BY <1>4, <1>7, <1>10, <1>11
<1>13. ASSUME ~Blank(a) PROVE Word(a, From(e, k), e[k])
  <2>1. Copied(line, a, From(e, k), e[k])
    BY <1>5, <1>7, <1>13 DEF IsArg
  <2>2. QED BY <1>3, <1>6, <1>9, <1>12, <1>13, <2>1 DEF Word
<1>14. ASSUME Blank(a) PROVE Closed(line, a, From(e, k), e[k], q[k])
  BY <1>5, <1>7, <1>14 DEF IsArg
<1>15. ASSUME Blank(a), k = Len(got) PROVE Quoting(a, From(e, k), e[k], q[k])
  <2>1. Len(got) = 1 => (\A x \in 1..Len(a) : a[x] # Quote) /\ a[Len(a)] # Slash
    BY <1>1, <1>5, <1>15
  <2>2. QED BY <1>3, <1>12, <1>14, <1>15, <2>1 DEF Quoting
<1>16. QED BY <1>2, <1>3, <1>5, <1>7, <1>8, <1>9, <1>10, <1>12, <1>13, <1>14, <1>15

\* In an argument, the reader takes a character or more of the line.
Take == ReadSlashes \/ ReadQuote \/ ReadOther

LEMMA TakeTypes ==
  ASSUME LineTypes, inside, Take
  PROVE  /\ UNCHANGED <<argv, arg, pos, quoted, back, line, pc, inside>>
         /\ at' \in 0..Len(line) /\ open' \in BOOLEAN
         /\ got' \in Seq(Seq(Char)) /\ got' # <<>> /\ Len(got') = Len(got)
         /\ \A x \in 1..(Len(got) - 1) : got'[x] = got[x]
<1>1. line \in Seq(Char) /\ at \in 0..Len(line) /\ open \in BOOLEAN /\ got \in Seq(Seq(Char)) /\ got # <<>>
  BY DEF LineTypes
<1>2. PICK l \in Nat : l = Len(line)
  BY <1>1, LenProperties
<1>3. at \in Nat /\ at <= l
  BY <1>1, <1>2
<1>4. ASSUME NEW u \in Seq(Char), Add(u)
      PROVE  /\ got' \in Seq(Seq(Char)) /\ got' # <<>> /\ Len(got') = Len(got)
             /\ \A x \in 1..(Len(got) - 1) : got'[x] = got[x]
  BY <1>1, <1>4, AddKeeps
<1>5. CASE ReadSlashes
  <2>1. /\ UNCHANGED <<argv, arg, pos, quoted, back, line, pc, inside, open>>
        /\ IF Plain \/ Ahead(Run) # Quote
             THEN at' = at + Run /\ Add(Backslashes(Run))
             ELSE IF Run % 2 = 1
               THEN at' = at + Run + 1 /\ Add(Append(Backslashes(Run \div 2), Quote))
               ELSE at' = at + Run /\ Add(Backslashes(Run \div 2))
    BY <1>5 DEF ReadSlashes, built
  <2>2. PICK r \in Nat : r = Run /\ at + r <= l
    BY <1>1, <1>2, RunIs DEF Running
  <2>3. Ahead(r) = Quote => at + r + 1 <= l
    <3>1. Ahead(r) = Quote => at + r < l
      BY <1>1, <1>2, <1>3, AheadIs, Characters
    <3>2. QED BY <1>3, <3>1
  <2>4. PICK h \in Nat : h = r \div 2
    OBVIOUS
  <2>5. Backslashes(r) \in Seq(Char) /\ Backslashes(h) \in Seq(Char)
    BY BackslashesAre
  <2>6. Append(Backslashes(h), Quote) \in Seq(Char)
    BY <2>5, AppendProperties, Characters
  <2>7. at' \in 0..l
    BY <1>3, <2>1, <2>2, <2>3
  <2>8. \E u \in Seq(Char) : Add(u)
    BY <2>1, <2>2, <2>4, <2>5, <2>6
  <2>9. QED BY <1>1, <1>2, <1>4, <2>1, <2>7, <2>8
<1>6. CASE ReadQuote
  <2>1. /\ Ahead(0) = Quote /\ UNCHANGED <<argv, arg, pos, quoted, back, line, pc, inside>>
        /\ IF open /\ Ahead(1) = Quote /\ ~Plain
             THEN at' = at + 2 /\ Add(<<Quote>>) /\ UNCHANGED open
             ELSE at' = at + 1 /\ open' = ~open /\ UNCHANGED got
    BY <1>6 DEF ReadQuote, built
  <2>2. at + 0 < l /\ (Ahead(1) = Quote => at + 1 < l)
    BY <1>1, <1>2, <1>3, <2>1, AheadIs, Characters
  <2>9. open' \in BOOLEAN
    BY <1>1, <2>1, Zenon
  <2>10. at' = at + 1 \/ (Ahead(1) = Quote /\ at' = at + 2)
    BY <2>1
  <2>3. at' \in 0..l /\ open' \in BOOLEAN
    BY <1>3, <2>2, <2>9, <2>10
  <2>4. CASE Add(<<Quote>>)
    <3>1. <<Quote>> \in Seq(Char)
      BY Characters
    <3>2. QED BY <1>2, <1>4, <2>1, <2>3, <2>4, <3>1
  <2>5. CASE UNCHANGED got
    BY <1>1, <1>2, <2>1, <2>3, <2>5
  <2>6. QED BY <2>1, <2>4, <2>5
<1>7. CASE ReadOther
  <2>1. /\ Ahead(0) \notin {Quote, Slash, "end"} /\ at' = at + 1 /\ Add(<<Ahead(0)>>)
        /\ UNCHANGED <<argv, arg, pos, quoted, back, line, pc, inside, open>>
    BY <1>7 DEF ReadOther, built
  <2>2. at + 0 < l /\ Ahead(0) \in Char
    BY <1>1, <1>2, <1>3, <2>1, AheadIs
  <2>6. PICK ch \in Char : ch = Ahead(0)
    BY <2>2
  <2>7. <<ch>> \in Seq(Char)
    OBVIOUS
  <2>3. PICK u \in Seq(Char) : u = <<Ahead(0)>>
    BY <2>6, <2>7
  <2>4. at' \in 0..l
    BY <1>3, <2>1, <2>2
  <2>5. QED BY <1>1, <1>2, <1>4, <2>1, <2>3, <2>4
<1>8. QED BY <1>5, <1>6, <1>7 DEF Take

\* What was read stays, and of the argument it has what it should.
LEMMA TakeInside ==
  ASSUME LineTypes, NEW e, NEW q, Laid(argv, line, e, q, Len(argv)), e[Len(argv)] = Len(line),
         Legible, NEW k \in 1..Len(argv), k = Len(got), inside, Inside(e, q, k), Take
  PROVE  Inside(e, q, k)'
<1>1. UNCHANGED <<argv, line>>
  BY TakeTypes
<1>6. PICK p : p = q[k]
  OBVIOUS
<1>2. PICK a \in Seq(Char), s \in Nat, z \in Nat :
        a = argv[k] /\ s = From(e, k) /\ z = e[k] /\ p = q[k]
  BY <1>6, TheArgument
<1>3. CASE ~Blank(a)
  <2>1. Word(a, s, z) /\ InPlain(a, s)
    BY <1>2, <1>3, TheArgument DEF Inside
  <2>2. InPlain(a, s)'
    BY <2>1, SlashesPlain, QuotePlain, OtherPlain DEF Take
  <2>3. ~Blank(argv'[k]) /\ k # 0
    BY <1>1, <1>2, <1>3, ArgvTyped
  <2>4. QED BY <1>1, <1>2, <1>3, <2>2, <2>3 DEF Inside
<1>4. CASE Blank(a)
  <2>1. Quoting(a, s, z, p) /\ InQuoted(a, s, z, p)
    BY <1>2, <1>4, TheArgument DEF Inside
  <2>2. InQuoted(a, s, z, p)'
    BY <2>1, SlashesQuoted, QuoteQuoted, OtherQuoted DEF Take
  <2>3. k # 0
    BY ArgvTyped
  <2>4. QED BY <1>1, <1>2, <1>4, <2>2, <2>3 DEF Inside
<1>5. QED BY <1>3, <1>4

\* The line is what it was: what is read of it decides.
LEMMA ReaderKeeps ==
  ASSUME LineInv, pc = "read", pc' = "read", UNCHANGED <<argv, arg, pos, quoted, back, line>>,
         LineTypes',
         \A e, q : Laid(argv, line, e, q, Len(argv)) /\ e[Len(argv)] = Len(line) /\ Legible
                     /\ Read(e, q) => Read(e, q)'
  PROVE  LineInv'
<1>1. PICK e, q : /\ Laid(argv, line, e, q, Len(argv)) /\ e[Len(argv)] = Len(line)
                  /\ Legible => Read(e, q)
  BY DEF LineInv, Reading
<1>2. Legible' = Legible
  BY DEF Legible
<1>3. Laid(argv', line', e, q, Len(argv')) /\ e[Len(argv')] = Len(line')
  BY <1>1
<1>4. Legible' => Read(e, q)'
  BY <1>1, <1>2
<1>5. arg' = Len(argv')
  BY DEF LineInv, Reading
<1>6. Reading'
  BY <1>3, <1>4, <1>5 DEF Reading
<1>7. QED BY <1>6 DEF LineInv, InCopy, Writing

LEMMA TakeKeeps == ASSUME LineInv, Take PROVE LineInv'
<1>1. LineTypes /\ inside /\ pc = "read"
  BY DEF LineInv, Take, ReadSlashes, ReadQuote, ReadOther
<1>2. /\ UNCHANGED <<argv, arg, pos, quoted, back, line, pc, inside>>
      /\ at' \in 0..Len(line) /\ open' \in BOOLEAN
      /\ got' \in Seq(Seq(Char)) /\ got' # <<>> /\ Len(got') = Len(got)
      /\ \A x \in 1..(Len(got) - 1) : got'[x] = got[x]
  BY <1>1, TakeTypes
<1>3. LineTypes'
  BY <1>1, <1>2 DEF LineTypes
<1>4. ASSUME NEW e, NEW q, Laid(argv, line, e, q, Len(argv)), e[Len(argv)] = Len(line), Legible, Read(e, q)
      PROVE  Read(e, q)'
  <2>1. PICK k \in Nat : k = Len(got) /\ k # 0
    BY <1>1, LastGot
  <2>2. k <= Len(argv) /\ (\A x \in 1..(k - 1) : got[x] = argv[x]) /\ Inside(e, q, k)
    BY <1>1, <1>4, <2>1 DEF Read
  <2>3. PICK m \in Nat : m = Len(argv)
    BY <1>1, ArgvTyped
  <2>4. k \in 1..m
    BY <2>1, <2>2, <2>3
  <2>5. Inside(e, q, k)'
    BY <1>1, <1>4, <2>1, <2>2, <2>3, <2>4, TakeInside
  <2>6. Len(got') = k /\ k <= Len(argv') /\ \A x \in 1..(k - 1) : got'[x] = argv'[x]
    BY <1>2, <2>1, <2>2
  <2>7. inside'
    BY <1>1, <1>2
  <2>8. QED BY <2>5, <2>6, <2>7 DEF Read
<1>5. QED BY <1>1, <1>2, <1>3, <1>4, ReaderKeeps

\* Between arguments: a space or the end of the line, or what an argument begins with.
LEMMA BehindIs ==
  ASSUME LineTypes, NEW e, NEW q, Laid(argv, line, e, q, Len(argv)), e[Len(argv)] = Len(line),
         Legible, NEW k \in 0..Len(argv), Behind(e, k)
  PROVE  \/ k # 0 /\ at = e[k] /\ Ahead(0) = IF k = Len(argv) THEN "end" ELSE Space
         \/ k < Len(argv) /\ at = From(e, k + 1) /\ Ahead(0) \notin {Space, "end"}
<1>1. PICK m \in Nat : m = Len(argv)
  BY ArgvTyped
<1>2. PICK l \in Nat : l = Len(line) /\ line \in Seq(Char) /\ at \in 0..l
  BY LenProperties DEF LineTypes
<1>3. at \in Nat /\ k \in 0..m
  BY <1>1, <1>2
<1>4. CASE k # 0 /\ at = e[k]
  <2>1. k \in 1..m
    BY <1>3, <1>4
  <2>2. /\ e[k] <= l /\ (e[k] < l => line[e[k] + 1] = Space) /\ (k < m => e[k] < l)
    BY <1>1, <1>2, <2>1, TheArgument
  <2>3. CASE k = m
    <3>1. ~(at + 0 < l)
      BY <1>1, <1>2, <1>4, <2>3
    <3>2. Ahead(0) = "end"
      BY <1>2, <1>3, <3>1, AheadIs
    <3>3. QED BY <1>1, <1>4, <2>3, <3>2
  <2>4. CASE k # m
    <3>1. at + 0 < l /\ at + 0 + 1 = e[k] + 1 /\ line[e[k] + 1] = Space
      BY <1>3, <1>4, <2>1, <2>2, <2>4
    <3>2. Ahead(0) = Space
      BY <1>2, <1>3, <3>1, AheadIs
    <3>3. QED BY <1>1, <1>4, <2>4, <3>2
  <2>5. QED BY <2>3, <2>4
<1>5. CASE k < m /\ at = From(e, k + 1)
  <2>1. k + 1 \in 1..m
    BY <1>3, <1>5
  <2>2. PICK a \in Seq(Char) : a = argv[k + 1] /\ a # <<>>
    BY <1>1, <2>1, TheArgument
  <2>3. PICK n \in Nat : n = Len(a) /\ n # 0
    BY <2>2, LenProperties, EmptySeq
  <2>4. PICK z \in Nat : z = e[k + 1] /\ z <= l
    BY <1>1, <1>2, <2>1, TheArgument
  <2>5. CASE Blank(a)
    <3>1. Closed(line, a, at, z, q[k + 1])
      BY <1>1, <1>5, <2>1, <2>2, <2>4, <2>5, TheArgument
    <3>2. at + 1 <= l /\ line[at + 1] = Quote
      BY <1>2, <3>1 DEF Closed, Placed
    <3>3. at + 0 < l /\ at + 0 + 1 = at + 1
      BY <1>3, <3>2
    <3>4. Ahead(0) = Quote
      BY <1>2, <1>3, <3>2, <3>3, AheadIs
    <3>5. QED BY <1>1, <1>5, <3>4, Characters
  <2>6. CASE ~Blank(a)
    <3>1. Word(a, at, z)
      BY <1>1, <1>5, <2>1, <2>2, <2>4, <2>6, TheArgument
    <3>2. z = at + n /\ line[at + 1] = a[1]
      BY <2>3, <3>1 DEF Word, Copied
    <3>3. at + 0 < l /\ at + 0 + 1 = at + 1
      BY <1>3, <2>3, <2>4, <3>2
    <3>4. Ahead(0) = a[1] /\ Ahead(0) \in Char
      BY <1>2, <1>3, <3>2, <3>3, AheadIs
    <3>5. a[1] # Space
      <4>1. 1 \in DOMAIN a
        BY <2>3, LenProperties
      <4>2. QED BY <2>6, <4>1 DEF Blank
    <3>6. QED BY <1>1, <1>5, <3>4, <3>5, Characters
  <2>7. QED BY <2>5, <2>6
<1>6. QED BY <1>1, <1>4, <1>5 DEF Behind

\* What the reader has.
LEMMA GotTyped ==
  ASSUME LineTypes, NEW e, NEW q, Read(e, q)
  PROVE  Len(got) \in 0..Len(argv) /\ Len(got) \in Nat /\ Len(argv) \in Nat
<1>1. Len(got) \in Nat
  BY LenProperties DEF LineTypes
<1>2. Len(argv) \in Nat
  BY ArgvTyped
<1>3. Len(got) <= Len(argv)
  BY DEF Read
<1>4. QED BY <1>1, <1>2, <1>3

LEMMA SkipBlankKeeps == ASSUME LineInv, SkipBlank PROVE LineInv'
<1>1. /\ pc = "read" /\ ~inside /\ Ahead(0) = Space /\ at' = at + 1
      /\ UNCHANGED <<argv, arg, pos, quoted, back, line, pc, open, inside, got>>
  BY DEF SkipBlank, built
<1>2. LineTypes
  BY DEF LineInv
<1>3. PICK l \in Nat : l = Len(line) /\ line \in Seq(Char) /\ at \in 0..l
  BY <1>2, LenProperties DEF LineTypes
<1>4. at' \in 0..Len(line)
  <2>1. at + 0 < l
    BY <1>1, <1>3, AheadIs, Characters
  <2>2. QED BY <1>1, <1>3, <2>1
<1>5. LineTypes'
  BY <1>1, <1>2, <1>4 DEF LineTypes
<1>6. ASSUME NEW e, NEW q, Laid(argv, line, e, q, Len(argv)), e[Len(argv)] = Len(line), Legible, Read(e, q)
      PROVE  Read(e, q)'
  <2>1. PICK k \in Nat, m \in Nat : k = Len(got) /\ m = Len(argv) /\ k \in 0..m
    BY <1>2, <1>6, GotTyped
  <2>2. Behind(e, k) /\ k <= m /\ \A x \in 1..(k - 1) : got[x] = argv[x]
    BY <1>1, <1>6, <2>1 DEF Read
  <2>3. k # 0 /\ at = e[k] /\ k # m
    BY <1>1, <1>2, <1>6, <2>1, <2>2, BehindIs, Characters
  <2>4. at' = From(e, k + 1) /\ k < m
    <3>1. k + 1 # 1 /\ (k + 1) - 1 = k /\ k < m
      BY <2>1, <2>3
    <3>2. QED BY <1>1, <2>3, <3>1 DEF From
  <2>5. Behind(e, k)'
    BY <1>1, <2>1, <2>2, <2>4 DEF Behind
  <2>6. QED BY <1>1, <2>1, <2>2, <2>5 DEF Read
<1>7. QED BY <1>1, <1>5, <1>6, ReaderKeeps

LEMMA NewArgumentKeeps == ASSUME LineInv, NewArgument PROVE LineInv'
<1>1. /\ pc = "read" /\ ~inside /\ Ahead(0) \notin {Space, "end"} /\ inside' = TRUE /\ open' = FALSE
      /\ got' = Append(got, <<>>)
      /\ UNCHANGED <<argv, arg, pos, quoted, back, line, pc, at>>
  BY DEF NewArgument, built
<1>2. LineTypes /\ got \in Seq(Seq(Char))
  BY DEF LineInv, LineTypes
<1>3. PICK k \in Nat : k = Len(got)
  BY <1>2, LenProperties
<1>4. <<>> \in Seq(Char)
  OBVIOUS
<1>5. PICK w : w = Append(got, <<>>)
  OBVIOUS
<1>6. /\ w \in Seq(Seq(Char)) /\ w # <<>> /\ Len(w) = k + 1 /\ w[k + 1] = <<>>
      /\ \A x \in 1..k : w[x] = got[x]
  <2>1. /\ w \in Seq(Seq(Char)) /\ w # <<>> /\ Len(w) = Len(got) + 1 /\ w[Len(got) + 1] = <<>>
        /\ \A x \in 1..Len(got) : w[x] = got[x]
    BY <1>2, <1>4, <1>5, AppendProperties
  <2>2. QED BY <1>3, <2>1
<1>7. LineTypes'
  BY <1>1, <1>2, <1>5, <1>6 DEF LineTypes
<1>8. ASSUME NEW e, NEW q, Laid(argv, line, e, q, Len(argv)), e[Len(argv)] = Len(line), Legible, Read(e, q)
      PROVE  Read(e, q)'
  <2>1. PICK m \in Nat : m = Len(argv) /\ k \in 0..m
    BY <1>2, <1>3, <1>8, GotTyped
  <2>2. Behind(e, k) /\ \A x \in 1..(k - 1) : got[x] = argv[x]
    BY <1>1, <1>3, <1>8 DEF Read
  <2>3. k < m /\ at = From(e, k + 1)
    BY <1>1, <1>2, <1>8, <2>1, <2>2, BehindIs
  <2>4. \A x \in 1..k : w[x] = argv[x]
    <3>1. k # 0 => got[k] = argv[k]
      BY <2>2 DEF Behind
    <3>2. ASSUME NEW x \in 1..k PROVE got[x] = argv[x]
      <4>1. CASE x = k
        BY <3>1, <4>1
      <4>2. CASE x # k
        <5>1. x \in 1..(k - 1)
          BY <4>2
        <5>2. QED BY <2>2, <5>1
      <4>3. QED BY <4>1, <4>2
    <3>3. QED BY <1>6, <3>2
  <2>5. k + 1 \in 1..m /\ (k + 1) - 1 = k /\ k + 1 # 0
    BY <2>1, <2>3
  <2>14. PICK p : p = q[k + 1]
    OBVIOUS
  <2>6. PICK a \in Seq(Char), s \in Nat, z \in Nat :
          a = argv[k + 1] /\ s = From(e, k + 1) /\ z = e[k + 1] /\ p = q[k + 1]
    BY <1>2, <1>8, <2>1, <2>5, <2>14, TheArgument
  <2>7. got'[Len(got')] = <<>>
    BY <1>1, <1>5, <1>6
  <2>8. InQuoted(a, s, z, p)'
    BY <1>1, <2>3, <2>6, <2>7 DEF InQuoted
  <2>9. InPlain(a, s)'
    <3>1. Prefix(got[Len(got)], a, 0)'
      BY <2>7 DEF Prefix
    <3>2. 0 \in 0..Len(a) /\ at' = s + 0
      <4>1. PICK n \in Nat : n = Len(a)
        BY LenProperties
      <4>2. QED BY <1>1, <2>3, <2>6, <4>1
    <3>3. QED BY <1>1, <3>1, <3>2 DEF InPlain
  <2>10. Inside(e, q, k + 1)'
    BY <1>1, <2>5, <2>6, <2>8, <2>9 DEF Inside
  <2>11. Len(got') = k + 1 /\ k + 1 <= Len(argv')
    BY <1>1, <1>5, <1>6, <2>1, <2>3
  <2>12. \A x \in 1..((k + 1) - 1) : got'[x] = argv'[x]
    BY <1>1, <1>5, <2>4, <2>5
  <2>13. QED BY <1>1, <2>10, <2>11, <2>12 DEF Read
<1>9. QED BY <1>1, <1>7, <1>8, ReaderKeeps

LEMMA EndArgumentKeeps == ASSUME LineInv, EndArgument PROVE LineInv'
<1>1. /\ pc = "read" /\ inside /\ inside' = FALSE
      /\ UNCHANGED <<argv, arg, pos, quoted, back, line, pc, at, open, got>>
  BY DEF EndArgument, built
<1>2. LineTypes
  BY DEF LineInv
<1>3. LineTypes'
  BY <1>1, <1>2 DEF LineTypes
<1>4. ASSUME NEW e, NEW q, Laid(argv, line, e, q, Len(argv)), e[Len(argv)] = Len(line), Legible, Read(e, q)
      PROVE  Read(e, q)'
  <2>1. PICK k \in Nat, m \in Nat : k = Len(got) /\ k # 0 /\ m = Len(argv) /\ k \in 1..m
    <3>1. Len(got) \in Nat \ {0}
      BY <1>1, <1>2, LastGot
    <3>2. Len(got) \in 0..Len(argv) /\ Len(argv) \in Nat
      BY <1>2, <1>4, GotTyped
    <3>3. Len(got) \in 1..Len(argv)
      BY <3>1, <3>2
    <3>4. QED BY <3>1, <3>2, <3>3
  <2>2. Inside(e, q, k) /\ \A x \in 1..(k - 1) : got[x] = argv[x]
    BY <1>1, <1>4, <2>1 DEF Read
  <2>7. PICK p : p = q[k]
    OBVIOUS
  <2>3. PICK a \in Seq(Char), s \in Nat, z \in Nat :
          a = argv[k] /\ s = From(e, k) /\ z = e[k] /\ p = q[k]
    BY <1>2, <1>4, <2>1, <2>7, TheArgument
  <2>4. at = z /\ got[k] = a
    <3>1. CASE ~Blank(a)
      <4>1. Word(a, s, z) /\ InPlain(a, s)
        BY <1>2, <1>4, <2>1, <2>2, <2>3, <3>1, TheArgument DEF Inside
      <4>2. QED BY <1>1, <1>2, <2>1, <4>1, EndPlain
    <3>2. CASE Blank(a)
      <4>1. Quoting(a, s, z, p) /\ InQuoted(a, s, z, p)
        BY <1>2, <1>4, <2>1, <2>2, <2>3, <3>2, TheArgument DEF Inside
      <4>2. QED BY <1>1, <1>2, <2>1, <4>1, EndQuoted
    <3>3. QED BY <3>1, <3>2
  <2>5. Behind(e, k)'
    BY <1>1, <2>1, <2>3, <2>4 DEF Behind
  <2>6. QED BY <1>1, <2>1, <2>2, <2>5 DEF Read
<1>5. QED BY <1>1, <1>3, <1>4, ReaderKeeps

\* EndLine keeps it: all arguments have been read.
LEMMA EndLineKeeps == ASSUME LineInv, EndLine PROVE LineInv'
<1>1. /\ pc = "read" /\ ~inside /\ Ahead(0) = "end" /\ pc' = "done"
      /\ UNCHANGED <<argv, arg, pos, quoted, back, line, at, open, inside, got>>
  BY DEF EndLine, built, reader
<1>2. LineTypes /\ got \in Seq(Seq(Char)) /\ argv \in Seq(Seq(Char))
  BY ArgvTyped DEF LineInv, LineTypes
<1>3. LineTypes'
  BY <1>1, <1>2 DEF LineTypes
<1>4. PICK e, q : /\ Laid(argv, line, e, q, Len(argv)) /\ e[Len(argv)] = Len(line)
                  /\ Legible => Read(e, q)
  BY <1>1 DEF LineInv, Reading
<1>5. ASSUME Legible PROVE got = argv
  <2>1. PICK k \in Nat, m \in Nat : k = Len(got) /\ m = Len(argv) /\ k \in 0..m
    BY <1>2, <1>4, <1>5, GotTyped
  <2>2. Behind(e, k) /\ \A x \in 1..(k - 1) : got[x] = argv[x]
    BY <1>1, <1>4, <1>5, <2>1 DEF Read
  <2>3. k = m /\ k # 0
    BY <1>1, <1>2, <1>4, <1>5, <2>1, <2>2, BehindIs, Characters
  <2>4. got[k] = argv[k]
    BY <2>2, <2>3 DEF Behind
  <2>5. ASSUME NEW x \in 1..k PROVE got[x] = argv[x]
    <3>1. CASE x = k
      BY <2>4, <3>1
    <3>2. CASE x # k
      <4>1. x \in 1..(k - 1)
        BY <3>2
      <4>2. QED BY <2>2, <4>1
    <3>3. QED BY <3>1, <3>2
  <2>6. QED BY <1>2, <2>1, <2>3, <2>5, SeqEqual
<1>6. Legible' = Legible
  BY <1>1 DEF Legible
<1>7. Reading'
  BY <1>1, <1>5, <1>6 DEF LineInv, Reading
<1>8. QED BY <1>1, <1>3, <1>7 DEF LineInv, InCopy, Writing

-----------------------------------------------------------------------------
(* Every step keeps the invariant.                                         *)

LEMMA LineInit == Init => LineInv
<1> SUFFICES ASSUME Init PROVE LineInv
  OBVIOUS
<1>1. /\ argv \in Argvs /\ arg = 0 /\ quoted = FALSE /\ line = <<>> /\ pc = "next"
      /\ at = 0 /\ open = FALSE /\ inside = FALSE /\ got = <<>>
  BY DEF Init
<1>2. argv \in Seq(Seq(Char))
  BY <1>1, LineAssumption DEF Char
<1>3. PICK m \in Nat : m = Len(argv)
  BY <1>2, LenProperties
<1>4. line \in Seq(Char) /\ got \in Seq(Seq(Char)) /\ Len(line) = 0
  BY <1>1
<1>5. LineTypes
  <2>1. arg \in 0..Len(argv) /\ at \in 0..Len(line)
    BY <1>1, <1>3, <1>4
  <2>2. quoted = (pc = "copy")
    BY <1>1
  <2>3. QED BY <1>1, <1>4, <2>1, <2>2 DEF LineTypes
<1>6. Writing
  <2>1. Laid(argv, line, 0, 0, 0)
    BY DEF Laid
  <2>2. QED BY <1>1, <1>4, <2>1 DEF Writing
<1>7. QED BY <1>1, <1>5, <1>6 DEF LineInv, InCopy, Reading

LEMMA LineStep == LineInv /\ [Next]_vars => LineInv'
<1> SUFFICES ASSUME LineInv, [Next]_vars PROVE LineInv'
  OBVIOUS
<1>1. CASE Next
  BY <1>1, CopyPlainKeeps, OpenQuoteKeeps, CopySlashKeeps, CopyQuoteKeeps, CopyOtherKeeps,
     CloseQuoteKeeps, StartKeeps, SkipBlankKeeps, NewArgumentKeeps, TakeKeeps,
     EndArgumentKeeps, EndLineKeeps DEF Next, Take
<1>2. CASE UNCHANGED vars
  BY <1>2 DEF vars, built, reader, LineInv, LineTypes, InCopy, Here, Writing, Reading, Legible, Read,
     Inside, Behind, InPlain, InQuoted
<1>3. QED BY <1>1, <1>2

\* What the runs check of the line.
LEMMA LineShows == LineInv => TypeOK /\ ReadBack
<1> SUFFICES ASSUME LineInv PROVE TypeOK /\ ReadBack
  OBVIOUS
<1>1. LineTypes
  BY DEF LineInv
<1>2. ASSUME pc = "copy"
      PROVE  /\ pos \in 0..Len(Here) /\ back \in 0..pos
             /\ \A k \in 1..back : Here[pos + 1 - k] = Slash
             /\ back < pos => Here[pos - back] # Slash
  BY <1>2 DEF LineInv, InCopy, IsBack
<1>3. TypeOK
  BY <1>1, <1>2 DEF TypeOK, LineTypes
<1>4. ReadBack
  BY DEF LineInv, Reading, ReadBack, Legible
<1>5. QED BY <1>3, <1>4

\* What the tool gets is what the wrapper was given, whatever the arguments are: the quoting
\* of win_argv_build (wrap.c) and the reading of the runtime undo each other.
THEOREM LineReadBack == Spec => []ReadBack
<1>1. Spec => []LineInv
  BY LineInit, LineStep, PTL DEF Spec
<1>2. QED BY <1>1, LineShows, PTL

-----------------------------------------------------------------------------
(* The three together.                                                     *)

\* Before the command has been read nothing is known of the run but how the wrapper
\* was called.
NotRun ==
  /\ step = "self" /\ self = "" /\ tool = <<>> /\ libdir = <<>>
  /\ child.state = "none" /\ heard.name = ""

AllInv ==
  /\ LineInv /\ ArgsInv /\ RunInv
  /\ IF begun THEN phase = "done" ELSE NotRun

LEMMA InitAllInv == InitAll => AllInv
<1> SUFFICES ASSUME InitAll PROVE AllInv
  OBVIOUS
<1>1. Init /\ ArgsInit /\ RunInit /\ begun = FALSE
  BY DEF InitAll
<1>2. LineInv /\ ArgsInv /\ RunInv
  BY <1>1, LineInit, InitArgsInv, Starts
<1>3. NotRun
  BY <1>1 DEF RunInit, NotRun
<1>4. QED BY <1>1, <1>2, <1>3 DEF AllInv

\* Arguments are read until the command is.
LEMMA ArgsUntilDone == ArgsNext => phase # "done"
  BY DEF ArgsNext, Proc, Thumb, Flag, Value, Other, EndParse, RemoveIpa, KeepArgument, EndIpa

\* A command without arguments, which is what the model keeps of one that has been
\* read.
NothingRead ==
  /\ units = <<>> /\ left = <<>> /\ kept = <<>> /\ opts = NoOptions
  /\ arch = "v5" /\ thumb = FALSE /\ i = 1 /\ phase = "done"

LEMMA NothingToRead == NothingRead => ArgsInv
<1> SUFFICES ASSUME NothingRead PROVE ArgsInv
  OBVIOUS
<1> USE DEF NothingRead
<1>1. Shape(units) /\ Len(units) = 0
  BY EmptySeq DEF Shape
<1>2. FlattenSeq(units) = <<>>
  BY FlattenEmpty
<1>3. ArgsTypes
  <2>1. opts \in [Valued \cup Flags -> Text]
    BY DEF NoOptions, Text
  <2>2. kept \in Seq(Text) /\ left \in Seq(Text) /\ Len(kept) = 0 /\ Len(FlattenSeq(units)) = 0
    BY <1>2, EmptySeq
  <2>3. Len(kept) + Len(left) <= Len(FlattenSeq(units))
    BY <2>2
  <2>4. QED BY <2>1, <2>2, <2>3 DEF ArgsTypes
<1>4. ReadTo(units, 0, opts, arch, thumb)
  BY <1>1, NothingSaid
<1>5. kept = FlattenSeq(Staying(units))
  <2>1. Staying(units) = <<>>
    BY <1>1 DEF Staying
  <2>2. QED BY <2>1, FlattenEmpty
<1>6. Finished
  BY <1>1, <1>4, <1>5 DEF Finished
<1>7. QED BY <1>1, <1>3, <1>6 DEF ArgsInv, Parsing, Removing

LEMMA NothingToReadNext == NothingRead' => ArgsInv'
  BY NothingToRead, PTL

\* The run starts with the options of the command: nothing it has found so far
\* depends on them.
LEMMA BeginRun == AllInv /\ Begin => RunInv'
<1> SUFFICES ASSUME AllInv, Begin PROVE RunInv'
  OBVIOUS
<1>1. RunInv /\ NotRun
  BY DEF AllInv, Begin
<1>2. /\ home' \in Homes
      /\ env' = [n \in Asked \cup Set |-> IF n \in user' THEN UserVal ELSE Unset]
      /\ UNCHANGED <<self, seen, tool, libdir, child, heard, code, step>>
  BY <1>1 DEF Begin, RunInv, RunTypes
<1>3. RunTypes'
  BY <1>1, <1>2 DEF RunInv, RunTypes
<1>4. SelfKnown' /\ ToolFound' /\ LibrariesFound'
  BY <1>1, <1>2 DEF NotRun, SelfKnown, ToolFound, LibrariesFound
<1>5. EnvironmentSet'
  BY <1>1, <1>2 DEF NotRun, EnvironmentSet, Given
<1>6. ToolRuns' /\ SuccessIsReal'
  BY <1>1, <1>2 DEF NotRun, ToolRuns, SuccessIsReal, Set
<1>7. QED BY <1>3, <1>4, <1>5, <1>6 DEF RunInv

\* The command is forgotten when the run starts, and the line is not touched.
LEMMA BeginKeeps == AllInv /\ Begin => AllInv'
<1> SUFFICES ASSUME AllInv, Begin PROVE AllInv'
  OBVIOUS
<1>1. RunInv'
  BY BeginRun
<1>2. /\ units' = <<>> /\ left' = <<>> /\ kept' = <<>> /\ opts' = NoOptions
      /\ arch' = "v5" /\ thumb' = FALSE /\ i' = 1 /\ phase' = "done" /\ begun' = TRUE
      /\ UNCHANGED vars
  BY DEF Begin
<1>3. ArgsInv'
  BY <1>2, NothingToReadNext DEF NothingRead
<1>4. LineInv'
  BY <1>2, LineStep DEF AllInv
<1>5. QED BY <1>1, <1>2, <1>3, <1>4 DEF AllInv

\* Each step is one of the three parts' own, and leaves the other two alone.
LEMMA AllStep == AllInv /\ [NextAll]_allVars => AllInv'
<1> SUFFICES ASSUME AllInv, [NextAll]_allVars PROVE AllInv'
  OBVIOUS
<1>1. LineInv /\ ArgsInv /\ RunInv
  BY DEF AllInv
<1>2. CASE ArgsNext /\ UNCHANGED <<vars, runVars, windows, begun>>
  <2>1. LineInv' /\ ArgsInv' /\ RunInv'
    BY <1>1, <1>2, LineStep, StepArgsInv, KeepsIdle
  <2>2. ~begun /\ NotRun
    BY <1>2, ArgsUntilDone DEF AllInv
  <2>3. ~begun' /\ NotRun'
    BY <1>2, <2>2 DEF NotRun, runVars
  <2>4. QED BY <2>1, <2>3 DEF AllInv
<1>3. CASE Begin
  BY <1>3, BeginKeeps
<1>4. CASE begun /\ RunNext /\ UNCHANGED <<vars, argsVars, windows, begun>>
  <2>1. LineInv' /\ ArgsInv' /\ RunInv'
    BY <1>1, <1>4, LineStep, StutterArgsInv, Keeps
  <2>2. begun' /\ phase' = "done"
    BY <1>4 DEF AllInv, argsVars
  <2>3. QED BY <2>1, <2>2 DEF AllInv
<1>5. CASE (Next \/ UNCHANGED vars) /\ UNCHANGED <<argsVars, runVars, windows, begun>>
  <2>1. LineInv' /\ ArgsInv' /\ RunInv'
    BY <1>1, <1>5, LineStep, StutterArgsInv, KeepsIdle
  <2>2. IF begun' THEN phase' = "done" ELSE NotRun'
    BY <1>5 DEF AllInv, argsVars, runVars, NotRun
  <2>3. QED BY <2>1, <2>2 DEF AllInv
<1>6. QED
  BY <1>2, <1>3, <1>4, <1>5 DEF NextAll, Main, RunNext, allVars

\* What the runs check of the three.
LEMMA AllShows ==
  AllInv => TypesOK /\ ReadBack /\ CommandRead /\ SuccessIsReal /\ RightTool /\ AsSet
<1> SUFFICES ASSUME AllInv
             PROVE  TypesOK /\ ReadBack /\ CommandRead /\ SuccessIsReal /\ RightTool /\ AsSet
  OBVIOUS
<1>1. TypeOK /\ ReadBack
  BY LineShows DEF AllInv
<1>2. ArgsTypeOK /\ CommandRead
  BY ArgsInvTypes, ArgsInvRead DEF AllInv
<1>3. RunTypeOK /\ SuccessIsReal /\ RightTool /\ AsSet
  BY InvTypes, InvSdk, InvBeside, InvAsSet DEF AllInv, RunInv, RightTool
<1>4. QED BY <1>1, <1>2, <1>3 DEF TypesOK

\* main as the runs check it, from the command to the exit and on both systems: every
\* command is read, every line is read back and every tool is run as above; new_argv
\* never holds more than it has room for (wrap.c:91), the backslashes that are doubled
\* are those that were copied, and no tool runs without its list of library files.
THEOREM WrapperAsChecked ==
  SpecAll => [](TypesOK /\ ReadBack /\ CommandRead /\ SuccessIsReal /\ RightTool /\ AsSet)
<1>1. SpecAll => []AllInv
  BY InitAllInv, AllStep, PTL DEF SpecAll
<1>2. QED BY <1>1, AllShows, PTL

=============================================================================
