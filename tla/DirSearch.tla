----------------------------- MODULE DirSearch -----------------------------
(***************************************************************************)
(* What a program relies on when it lists a directory that other processes *)
(* change meanwhile: whatever they do, a search returns every file that    *)
(* stays exactly once before it says that there are no more, returns       *)
(* nothing that is not there, and gives up only over a file that cannot be *)
(* examined.                                                               *)
(***************************************************************************)
EXTENDS Naturals

CONSTANTS Names,      \* names of directory entries
          Searches    \* the searches a program can have open

VARIABLES
  entries,   \* what the file system has under each name
  state,     \* of a search: "closed", "open", "first" or "more" (in a call)
  stays,     \* the files a search is for that nobody has touched since it began
  times,     \* how often a search returned a name
  dead       \* the program has given up

vars == <<entries, state, stays, times, dead>>

Kinds      == {"absent", "file", "directory", "dangling", "unreadable"}
Visible(k) == k \in {"file", "directory"}

Init ==
  /\ entries \in [Names -> Kinds]
  /\ state = [s \in Searches |-> "closed"]
  /\ stays = [s \in Searches |-> {}]
  /\ times = [s \in Searches |-> [n \in Names |-> 0]]
  /\ dead = FALSE

\* A search for some names begins: a directory's, or one.
Begin(s, scope) ==
  /\ state[s] = "closed"
  /\ state' = [state EXCEPT ![s] = "first"]
  /\ stays' = [stays EXCEPT ![s] = {n \in scope : Visible(entries[n])}]
  /\ times' = [times EXCEPT ![s] = [n \in Names |-> 0]]
  /\ UNCHANGED <<entries, dead>>

Continue(s) ==
  /\ state[s] = "open"
  /\ state' = [state EXCEPT ![s] = "more"]
  /\ UNCHANGED <<entries, stays, times, dead>>

\* A file that is there, and that, if it stayed, was not returned before.
Deliver(s, n) ==
  /\ state[s] \in {"first", "more"}
  /\ Visible(entries[n])
  /\ n \in stays[s] => times[s][n] = 0
  /\ times' = [times EXCEPT ![s][n] = @ + 1]
  /\ state' = [state EXCEPT ![s] = "open"]
  /\ UNCHANGED <<entries, stays, dead>>

\* No more files: those that stayed have all been returned.
NoMore(s) ==
  /\ state[s] \in {"first", "more"}
  /\ \A n \in stays[s] : times[s][n] = 1
  /\ state' = [state EXCEPT ![s] = IF @ = "first" THEN "closed" ELSE "open"]
  /\ UNCHANGED <<entries, stays, times, dead>>

Close(s) ==
  /\ state[s] = "open"
  /\ state' = [state EXCEPT ![s] = "closed"]
  /\ UNCHANGED <<entries, stays, times, dead>>

GiveUp ==
  /\ \E n \in Names : entries[n] = "unreadable"
  /\ dead' = TRUE
  /\ UNCHANGED <<entries, state, stays, times>>

\* Another process creates, removes or replaces a file.
Change(n, k) ==
  /\ entries[n] # k
  /\ entries' = [entries EXCEPT ![n] = k]
  /\ stays' = [s \in Searches |-> stays[s] \ {n}]
  /\ UNCHANGED <<state, times, dead>>

Next ==
  \/ \E s \in Searches :
       \/ \E scope \in SUBSET Names : Begin(s, scope)
       \/ Continue(s)
       \/ \E n \in Names : Deliver(s, n)
       \/ NoMore(s)
       \/ Close(s)
  \/ GiveUp
  \/ \E n \in Names, k \in Kinds : Change(n, k)

Spec == Init /\ [][Next]_vars

=============================================================================
