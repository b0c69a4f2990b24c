------------------------------ MODULE FindFile ------------------------------
(***************************************************************************)
(* FindFirstFileA, FindNextFileA and FindClose of dlls/kernel32.c on top   *)
(* of opendir, readdir and stat.  The program has one thread; the files    *)
(* belong to everyone, and change between any two calls of the system.     *)
(*                                                                         *)
(* readdir is external.  POSIX leaves open whether it returns a file that  *)
(* came or went after opendir; it returns every other file once.  That it  *)
(* does not fail on an open directory is assumed: the code takes its NULL  *)
(* for the end of the listing and would lose what is left.                 *)
(***************************************************************************)
EXTENDS Naturals

CONSTANTS Names,       \* names of directory entries
          Searches,    \* the searches a program can have open
          MaxChanges   \* changes by other processes, a bound of the model

ASSUME FindAssumption == MaxChanges \in Nat

\* What stat says of a name: there, ENOENT ("absent", or a link to nowhere), or
\* another error.
Kinds      == {"absent", "file", "directory", "dangling", "unreadable"}
Visible(k) == k \in {"file", "directory"}
Gone(k)    == k \in {"absent", "dangling"}

VARIABLES
  entries,   \* what the file system has under each name
  changes,   \* how often it has changed
  find,      \* struct findfile of each search: is it there, dir, path, and
             \* the names the search is for
  call,      \* where the program is: "idle", before opendir ("open"), in
             \* FindNextFileA_do at its head ("read") or before stat ("stat"),
             \* or "exit" after DIE
  seen,      \* what readdir has returned for a search
  might,     \* what was in the directory at some time since opendir
  stays,     \* what the search is for and nobody has touched since it began
  times,     \* how often the search returned a name
  heap,      \* blocks allocated: the struct, its path, a joined path
  streams,   \* directory streams open
  fault      \* a block was released that was not allocated

vars == <<entries, changes, find, call, seen, might, stays, times, heap, streams, fault>>

Idle   == [at |-> "idle"]
Closed == [open |-> FALSE, dir |-> FALSE, path |-> FALSE, scope |-> {}]

Init ==
  /\ entries \in [Names -> Kinds]
  /\ changes = 0
  /\ find = [s \in Searches |-> Closed]
  /\ call = Idle
  /\ seen = [s \in Searches |-> {}]
  /\ might = [s \in Searches |-> {}]
  /\ stays = [s \in Searches |-> {}]
  /\ times = [s \in Searches |-> [n \in Names |-> 0]]
  /\ heap = {} /\ streams = {}
  /\ fault = FALSE

Present == {n \in Names : entries[n] # "absent"}
Free(B) == heap' = heap \ B /\ fault' = (fault \/ ~(B \subseteq heap))

\* The blocks FindClose and the failing FindFirstFileA release.
Held(s) == {<<s, "object">>} \cup (IF find[s].path THEN {<<s, "path">>} ELSE {})

-----------------------------------------------------------------------------
\* What FindFirstFileA is asked for: a path that ends in /*, or that of a file.
Targets == {[dir |-> TRUE, scope |-> Names]}
             \cup {[dir |-> FALSE, scope |-> {n}] : n \in Names}

FindFirst(s) ==
  /\ call.at = "idle" /\ ~find[s].open
  /\ \E t \in Targets : call' = [at |-> "open", s |-> s, target |-> t]
  /\ heap' = heap \cup {<<s, "path">>}
  /\ UNCHANGED <<entries, changes, find, seen, might, stays, times, streams, fault>>

OpenFails ==
  /\ call.at = "open" /\ call.target.dir
  /\ Free({<<call.s, "path">>})
  /\ call' = Idle
  /\ UNCHANGED <<entries, changes, find, seen, might, stays, times, streams>>

\* The findfile object, and the first file is looked for.
Opened ==
  /\ call.at = "open"
  /\ LET s == call.s
         t == call.target
     IN  /\ find' = [find EXCEPT ![s] = [open |-> TRUE, dir |-> t.dir,
                                         path |-> TRUE, scope |-> t.scope]]
         /\ streams' = IF t.dir THEN streams \cup {s} ELSE streams
         /\ seen' = [seen EXCEPT ![s] = {}]
         /\ might' = [might EXCEPT ![s] = Present]
         /\ stays' = [stays EXCEPT ![s] = {n \in t.scope : Visible(entries[n])}]
         /\ times' = [times EXCEPT ![s] = [n \in Names |-> 0]]
         /\ heap' = heap \cup {<<s, "object">>}
         /\ call' = [at |-> "read", s |-> s, first |-> TRUE]
  /\ UNCHANGED <<entries, changes, fault>>

FindNext(s) ==
  /\ call.at = "idle" /\ find[s].open
  /\ call' = [at |-> "read", s |-> s, first |-> FALSE]
  /\ UNCHANGED <<entries, changes, find, seen, might, stays, times, heap, streams, fault>>

\* What readdir has returned is over with the search.
Forget(s) == seen' = [seen EXCEPT ![s] = {}] /\ might' = [might EXCEPT ![s] = {}]

\* Mutant: the stream stays open.
ReleaseKeepStream(s) ==
  /\ Free(Held(s)) /\ Forget(s)
  /\ find' = [find EXCEPT ![s] = Closed]
  /\ UNCHANGED streams

\* closedir, the path if it is still there, and the object.
Release(s) ==
  /\ Free(Held(s)) /\ Forget(s)
  /\ find' = [find EXCEPT ![s] = Closed]
  /\ streams' = streams \ {s}

FindClose(s) ==
  /\ call.at = "idle" /\ find[s].open
  /\ Release(s)
  /\ UNCHANGED <<entries, changes, call, stays, times>>

\* FindNextFileA_do has the full path of an entry.
Look(n, full) == call' = [at |-> "stat", s |-> call.s, first |-> call.first,
                          n |-> n, full |-> full]

\* readdir returns an entry, and its path is joined.
ReadEntry(n) ==
  /\ call.at = "read" /\ find[call.s].dir
  /\ n \in might[call.s] \ seen[call.s]
  /\ seen' = [seen EXCEPT ![call.s] = @ \cup {n}]
  /\ heap' = heap \cup {<<call.s, "joined">>}
  /\ Look(n, "joined")
  /\ UNCHANGED <<entries, changes, find, might, stays, times, streams, fault>>

\* Mutants: the path is used again by the next turn; it is cleared too early.
TakePathAgain(n) ==
  /\ call.at = "read" /\ ~find[call.s].dir
  /\ find[call.s].path /\ n \in find[call.s].scope
  /\ Look(n, "path")
  /\ UNCHANGED <<entries, changes, find, seen, might, stays, times, heap, streams, fault>>
TakePathCleared(n) ==
  /\ call.at = "read" /\ ~find[call.s].dir
  /\ find[call.s].path /\ n \in find[call.s].scope
  /\ find' = [find EXCEPT ![call.s].path = FALSE]
  /\ Look(n, "null")
  /\ UNCHANGED <<entries, changes, seen, might, stays, times, heap, streams, fault>>

\* Without a directory the path itself is the entry, and changes hands.
TakePath(n) ==
  /\ call.at = "read" /\ ~find[call.s].dir
  /\ find[call.s].path /\ n \in find[call.s].scope
  /\ find' = [find EXCEPT ![call.s].path = FALSE]
  /\ Look(n, "path")
  /\ UNCHANGED <<entries, changes, seen, might, stays, times, heap, streams, fault>>

\* readdir has returned all it has to, or the path is used up: FALSE, and
\* FindFirstFileA takes everything down again.
NoMore ==
  /\ call.at = "read"
  /\ IF find[call.s].dir THEN stays[call.s] \subseteq seen[call.s]
                         ELSE ~find[call.s].path
  /\ IF call.first THEN Release(call.s) ELSE UNCHANGED <<find, seen, might, heap, streams, fault>>
  /\ call' = Idle
  /\ UNCHANGED <<entries, changes, stays, times>>

\* stat finds the file: TRUE, with its name and attributes.
StatFound ==
  /\ call.at = "stat" /\ Visible(entries[call.n])
  /\ times' = [times EXCEPT ![call.s][call.n] = @ + 1]
  /\ Free({<<call.s, call.full>>})
  /\ call' = Idle
  /\ UNCHANGED <<entries, changes, find, seen, might, stays, streams>>

\* Mutant: a file that is gone ends the search.
StatGoneEnds ==
  /\ call.at = "stat" /\ Gone(entries[call.n])
  /\ Free({<<call.s, call.full>>})
  /\ call' = IF call.first THEN [at |-> "read", s |-> call.s, first |-> TRUE] ELSE Idle
  /\ UNCHANGED <<entries, changes, find, seen, might, stays, times, streams>>

\* ENOENT: it was removed meanwhile, the next one is taken.
StatGone ==
  /\ call.at = "stat" /\ Gone(entries[call.n])
  /\ Free({<<call.s, call.full>>})
  /\ call' = [at |-> "read", s |-> call.s, first |-> call.first]
  /\ UNCHANGED <<entries, changes, find, seen, might, stays, times, streams>>

\* Any other error: DIE.
StatFails ==
  /\ call.at = "stat" /\ entries[call.n] = "unreadable"
  /\ Free({<<call.s, call.full>>})
  /\ call' = [at |-> "exit", s |-> call.s, first |-> call.first]
  /\ UNCHANGED <<entries, changes, find, seen, might, stays, times, streams>>

\* Another process creates, removes or replaces a file.
Change(n, k) ==
  /\ changes < MaxChanges
  /\ entries[n] # k
  /\ entries' = [entries EXCEPT ![n] = k]
  /\ changes' = changes + 1
  /\ might' = [s \in Searches |->
                IF k = "absent" \/ ~find[s].open THEN might[s] ELSE might[s] \cup {n}]
  \* a file that comes back may be returned again
  /\ seen' = [s \in Searches |-> IF entries[n] = "absent" THEN seen[s] \ {n} ELSE seen[s]]
  /\ stays' = [s \in Searches |-> stays[s] \ {n}]
  /\ UNCHANGED <<find, call, times, heap, streams, fault>>

\* The steps of a call once it is made.
InCall == \/ OpenFails \/ Opened
          \/ \E n \in Names : ReadEntry(n) \/ TakePath(n)
          \/ NoMore \/ StatFound \/ StatGone \/ StatFails

Next == \/ InCall
        \/ \E s \in Searches : FindFirst(s) \/ FindNext(s) \/ FindClose(s)
        \/ \E n \in Names, k \in Kinds : Change(n, k)

\* A program that has called runs on; nobody is made to call or to change files.
Spec == Init /\ [][Next]_vars /\ WF_vars(InCall)

-----------------------------------------------------------------------------
\* Types of the state.
TypeOK ==
  /\ entries \in [Names -> Kinds]
  /\ changes \in 0..MaxChanges
  /\ find \in [Searches -> [open : BOOLEAN, dir : BOOLEAN, path : BOOLEAN,
                            scope : SUBSET Names]]
  /\ call.at \in {"idle", "open", "read", "stat", "exit"}
  /\ call.at = "stat" => call.n \in find[call.s].scope /\ call.full \in {"path", "joined"}
  /\ seen \in [Searches -> SUBSET Names] /\ might \in [Searches -> SUBSET Names]
  /\ stays \in [Searches -> SUBSET Names]
  /\ times \in [Searches -> [Names -> Nat]]
  /\ heap \subseteq Searches \X {"object", "path", "joined"}
  /\ streams \subseteq Searches
  /\ fault \in BOOLEAN

\* findfile, dir and path between the three functions: whatever way a call ends,
\* with a file, at the end, or having found nothing, what stays allocated is
\* what the searches still open will release, and nothing is released twice.
Owned ==
  /\ ~fault
  /\ call.at = "idle" =>
       /\ heap = UNION {Held(s) : s \in {s \in Searches : find[s].open}}
       /\ streams = {s \in Searches : find[s].open /\ find[s].dir}

State(s) ==
  IF call.at \in {"read", "stat", "exit"} /\ call.s = s
    THEN IF call.first THEN "first" ELSE "more"
    ELSE IF find[s].open THEN "open" ELSE "closed"

Search == INSTANCE DirSearch
            WITH state <- [s \in Searches |-> State(s)], dead <- (call.at = "exit")

\* FindNextFileA_do, "if the file was removed between opendir() and now, skip
\* it": a search loses no file that stays, returns none that is gone, and none
\* that stays twice, with any changes between readdir and stat.
Listing == Search!Spec

\* Every call returns, or the program has died: neither files that go away nor a
\* link to nowhere keep the loop going for ever.
CallsReturn ==
  (call.at \in {"open", "read", "stat"}) ~> (call.at \in {"idle", "exit"})

=============================================================================
