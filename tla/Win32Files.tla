----------------------------- MODULE Win32Files -----------------------------
(***************************************************************************)
(* What a program of Windows counts on when it uses files: a handle is its *)
(* own until it closes it, leads to one file with a position of its own,   *)
(* and what a call answers is what it did.  The console's handles are      *)
(* never lost.                                                             *)
(***************************************************************************)
EXTENDS Integers, Sequences

CONSTANTS Bytes, MaxLen

VARIABLES open,     \* the handles of files: which file, and where in it
          data,     \* what is in the files
          kept,     \* the files there are, with a name or a handle
          console,  \* the handles of the console that work
          answer    \* of the last call: whether it was done, and how much of it

vars == <<open, data, kept, console, answer>>

Done(n) == answer'.ok /\ answer'.n = n
Put(s, at, b) == [k \in 1..(IF at + Len(b) > Len(s) THEN at + Len(b) ELSE Len(s)) |->
                    IF k \in (at + 1)..(at + Len(b)) THEN b[k - at]
                    ELSE IF k \in DOMAIN s THEN s[k] ELSE 0]

\* The files that are left have what they had.
Left == kept' \subseteq kept /\ \A f \in kept' : data'[f] = data[f]

\* A handle nobody has; the file is there, was emptied, or is new.
Open ==
  /\ \E h \in DOMAIN open' \ DOMAIN open :
       /\ h \notin console /\ Done(h)
       /\ open'[h].at = 0
       /\ DOMAIN open' = DOMAIN open \cup {h} /\ \A g \in DOMAIN open : open'[g] = open[g]
       /\ data' \in {data, [data EXCEPT ![open'[h].file] = <<>>]}
       /\ kept' = kept \cup {open'[h].file}
  /\ UNCHANGED console

Write(h) ==
  /\ \E b \in UNION {[1..k -> Bytes] : k \in 0..MaxLen} :
       /\ Done(Len(b))
       /\ data' = [data EXCEPT ![open[h].file] = Put(@, open[h].at, b)]
       /\ open' = [open EXCEPT ![h].at = @ + Len(b)]
  /\ UNCHANGED <<kept, console>>

Read(h) ==
  /\ \E k \in 0..MaxLen :
       /\ Done(k)
       /\ k = 0 \/ open[h].at + k <= Len(data[open[h].file])
       /\ answer'.bytes = SubSeq(data[open[h].file], open[h].at + 1, open[h].at + k)
       /\ open' = [open EXCEPT ![h].at = @ + k]
  /\ UNCHANGED <<data, kept, console>>

Move(h) ==
  /\ \E p \in 0..MaxLen : Done(p) /\ open' = [open EXCEPT ![h].at = p]
  /\ UNCHANGED <<data, kept, console>>

Close(h) ==
  /\ answer'.ok
  /\ open' = [g \in DOMAIN open \ {h} |-> open[g]]
  /\ Left /\ UNCHANGED console

\* A call that is refused, one that is not about a file's handle, the deletion of
\* a file.
Other == Left /\ UNCHANGED <<open, console>>

Next == \/ Open \/ Other
        \/ \E h \in DOMAIN open :
             \/ answer'.call = "write" /\ Write(h)
             \/ answer'.call = "read" /\ Read(h)
             \/ answer'.call = "move" /\ Move(h)
             \/ answer'.call = "close" /\ answer'.h = h /\ Close(h)

Init == open = <<>> /\ console = {1, 2, 3}

Spec == Init /\ [][Next]_vars

=============================================================================
