--------------------------- MODULE Kernel32Proofs ---------------------------
(***************************************************************************)
(* Proofs about the parts of kernel32.c that keep state: FindFile, for every *)
(* set of names and of searches, and any number of changes; FileHandles, for *)
(* any number of descriptors, names, files and bytes, and every disposition; *)
(* FullPath, for every name, every set of directories, every buffer and any *)
(* number of renames; and the three together (Kernel32MC).                 *)
(***************************************************************************)
EXTENDS Kernel32MC, SeqFacts

-----------------------------------------------------------------------------
(* Directory searches.                                                     *)

-----------------------------------------------------------------------------
(* The inductive invariant.                                                *)

\* The places a call can be at, with what it has there.
CallType ==
  {Idle} \cup [at : {"open"}, s : Searches, target : Targets]
         \cup [at : {"read", "exit"}, s : Searches, first : BOOLEAN]
         \cup [at : {"stat"}, s : Searches, first : BOOLEAN, n : Names,
               full : {"path", "joined"}]

SearchType == [open : BOOLEAN, dir : BOOLEAN, path : BOOLEAN, scope : SUBSET Names]

FindTypes ==
  /\ entries \in [Names -> Kinds]
  /\ changes \in 0..MaxChanges
  /\ find \in [Searches -> SearchType]
  /\ call \in CallType
  /\ seen \in [Searches -> SUBSET Names] /\ might \in [Searches -> SUBSET Names]
  /\ stays \in [Searches -> SUBSET Names]
  /\ times \in [Searches -> [Names -> Nat]]
  /\ heap \subseteq Searches \X {"object", "path", "joined"}
  /\ streams \subseteq Searches

\* A search that is not open is Closed; a directory's is for every name and keeps
\* its path, any other is for one name.
Shape ==
  \A s \in Searches :
    IF ~find[s].open THEN find[s] = Closed
    ELSE IF find[s].dir THEN find[s].path /\ find[s].scope = Names
    ELSE \E n \in Names : find[s].scope = {n}

\* A call is about a search that is not open yet, or about one that is.  The path
\* that stat is given is the one joined for it, or the one the search had.
CallFits ==
  /\ call.at = "open" => ~find[call.s].open
  /\ call.at \in {"read", "stat", "exit"} => find[call.s].open
  /\ call.at = "stat" =>
       /\ call.n \in find[call.s].scope
       /\ IF find[call.s].dir
            THEN call.full = "joined" /\ (call.n \in stays[call.s] => call.n \in seen[call.s])
            ELSE call.full = "path" /\ ~find[call.s].path

\* The block a call has taken and not given back.
Lent(s, b) ==
  \/ call.at = "open" /\ call.s = s /\ b = "path"
  \/ call.at = "stat" /\ call.s = s /\ b = call.full

\* What is allocated belongs to a search that is open, or to the call.
Blocks ==
  /\ fault = FALSE
  /\ \A s \in Searches :
       /\ <<s, "object">> \in heap <=> find[s].open
       /\ <<s, "path">> \in heap <=> find[s].path \/ Lent(s, "path")
       /\ <<s, "joined">> \in heap <=> Lent(s, "joined")
       /\ s \in streams <=> find[s].dir

\* The search has returned the name, or found that it is gone.
Looking(s, n) == call.at = "stat" /\ call.s = s /\ call.n = n
Passed(s, n)  == /\ IF find[s].dir THEN n \in seen[s] ELSE ~find[s].path
                 /\ ~Looking(s, n)

\* A file that stays is there, is one the search is for, and has been returned
\* once if the search is past it, and not before.
Counted ==
  \A s \in Searches : find[s].open =>
    \A n \in stays[s] :
      /\ Visible(entries[n])
      /\ n \in find[s].scope
      /\ times[s][n] = IF Passed(s, n) THEN 1 ELSE 0

FindInv == FindTypes /\ Shape /\ CallFits /\ Blocks /\ Counted

-----------------------------------------------------------------------------
(* Steps preserve it.                                                      *)

\* What a call carries at each place.
LEMMA FindCallFacts ==
  ASSUME call \in CallType
  PROVE  /\ call.at \in {"idle", "open", "read", "stat", "exit"}
         /\ call.at = "open" => call.s \in Searches /\ call.target \in Targets
         /\ call.at \in {"read", "stat", "exit"} => call.s \in Searches /\ call.first \in BOOLEAN
         /\ call.at = "stat" => call.n \in Names /\ call.full \in {"path", "joined"}
BY DEF CallType, Idle

\* What a path is for: every name, or one.
LEMMA TargetFacts ==
  ASSUME NEW t \in Targets
  PROVE  /\ t.dir \in BOOLEAN /\ t.scope \subseteq Names
         /\ IF t.dir THEN t.scope = Names ELSE \E n \in Names : t.scope = {n}
<1>1. CASE t = [dir |-> TRUE, scope |-> Names]
  BY <1>1
<1>2. CASE \E n \in Names : t = [dir |-> FALSE, scope |-> {n}]
  BY <1>2
<1>3. QED BY <1>1, <1>2 DEF Targets

\* What is released was allocated: no fault.
LEMMA FreeFacts ==
  ASSUME fault = FALSE, NEW B, B \subseteq heap, Free(B)
  PROVE  heap' = heap \ B /\ fault' = FALSE
BY DEF Free

\* A call begins: a path is copied.
LEMMA FindFirstInv == ASSUME FindInv, NEW s \in Searches, FindFirst(s) PROVE FindInv'
<1>1. PICK t \in Targets : call' = [at |-> "open", s |-> s, target |-> t]
  BY DEF FindFirst
<1>2. /\ call.at = "idle" /\ ~find[s].open
      /\ heap' = heap \cup {<<s, "path">>}
      /\ UNCHANGED <<entries, changes, find, seen, might, stays, times, streams, fault>>
  BY DEF FindFirst
<1>3. FindTypes'
  <2>1. call' \in CallType
    BY <1>1 DEF CallType
  <2>2. QED BY <1>2, <2>1 DEF FindInv, FindTypes
<1>4. Shape'
  BY <1>2 DEF FindInv, Shape
<1>5. CallFits'
  BY <1>1, <1>2 DEF CallFits
<1>6. Blocks'
  BY <1>1, <1>2 DEF FindInv, Blocks, Lent, FindTypes
<1>7. Counted'
  BY <1>1, <1>2 DEF FindInv, Counted, Passed, Looking
<1>8. QED BY <1>3, <1>4, <1>5, <1>6, <1>7 DEF FindInv

\* opendir has failed: the path is released.
LEMMA OpenFailsInv == ASSUME FindInv, OpenFails PROVE FindInv'
<1>1. /\ call.at = "open" /\ call.s \in Searches /\ call' = Idle
      /\ Free({<<call.s, "path">>})
      /\ UNCHANGED <<entries, changes, find, seen, might, stays, times, streams>>
  BY FindCallFacts DEF OpenFails, FindInv, FindTypes
<1>2. /\ ~find[call.s].open /\ find[call.s] = Closed
      /\ heap' = heap \ {<<call.s, "path">>} /\ fault' = FALSE
  <2>1. ~find[call.s].open /\ find[call.s] = Closed
    BY <1>1 DEF FindInv, CallFits, Shape
  <2>2. {<<call.s, "path">>} \subseteq heap /\ fault = FALSE
    BY <1>1 DEF FindInv, Blocks, Lent
  <2>3. QED BY <1>1, <2>1, <2>2, FreeFacts
<1>3. FindTypes'
  BY <1>1, <1>2 DEF FindInv, FindTypes, CallType
<1>4. Shape'
  BY <1>1 DEF FindInv, Shape
<1>5. CallFits'
  BY <1>1 DEF CallFits, Idle
<1>6. Blocks'
  BY <1>1, <1>2 DEF FindInv, Blocks, Lent, Idle, Closed
<1>7. Counted'
  BY <1>1 DEF FindInv, Counted, Passed, Looking, Idle
<1>8. QED BY <1>3, <1>4, <1>5, <1>6, <1>7 DEF FindInv

\* The search is there, and nothing of it has been returned.
LEMMA OpenedInv == ASSUME FindInv, Opened PROVE FindInv'
<1> DEFINE s == call.s
           t == call.target
<1>1. /\ call.at = "open" /\ s \in Searches /\ t \in Targets
      /\ find' = [find EXCEPT ![s] = [open |-> TRUE, dir |-> t.dir, path |-> TRUE, scope |-> t.scope]]
      /\ streams' = IF t.dir THEN streams \cup {s} ELSE streams
      /\ seen' = [seen EXCEPT ![s] = {}]
      /\ might' = [might EXCEPT ![s] = Present]
      /\ stays' = [stays EXCEPT ![s] = {n \in t.scope : Visible(entries[n])}]
      /\ times' = [times EXCEPT ![s] = [n \in Names |-> 0]]
      /\ heap' = heap \cup {<<s, "object">>}
      /\ call' = [at |-> "read", s |-> s, first |-> TRUE]
      /\ UNCHANGED <<entries, changes, fault>>
  BY FindCallFacts DEF Opened, FindInv, FindTypes
<1> HIDE DEF s, t
<1>2. /\ t.dir \in BOOLEAN /\ t.scope \subseteq Names
      /\ IF t.dir THEN t.scope = Names ELSE \E n \in Names : t.scope = {n}
  BY <1>1, TargetFacts
<1>3. find[s] = Closed
  BY <1>1 DEF FindInv, CallFits, Shape, s
<1>4. FindTypes'
  <2>1. call' \in CallType
    BY <1>1 DEF CallType
  <2>2. find' \in [Searches -> SearchType]
    BY <1>1, <1>2 DEF FindInv, FindTypes, SearchType
  <2>3. Present \subseteq Names
    BY DEF Present
  <2>4. QED BY <1>1, <1>2, <2>1, <2>2, <2>3 DEF FindInv, FindTypes
<1>5. Shape'
  BY <1>1, <1>2 DEF FindInv, FindTypes, Shape
<1>6. CallFits'
  BY <1>1 DEF FindInv, FindTypes, CallFits
<1>7. Blocks'
  BY <1>1, <1>2, <1>3 DEF FindInv, FindTypes, Blocks, Lent, Closed, s
<1>8. Counted'
  <2> SUFFICES ASSUME NEW r \in Searches, find'[r].open, NEW n \in stays'[r]
               PROVE  (/\ Visible(entries[n])
                       /\ n \in find[r].scope
                       /\ times[r][n] = IF Passed(r, n) THEN 1 ELSE 0)'
    BY DEF Counted
  <2>1. CASE r = s
    <3>1. n \in t.scope /\ n \in Names /\ Visible(entries[n]) /\ find'[r].scope = t.scope
      BY <1>1, <1>2, <2>1 DEF FindInv, FindTypes
    <3>2. times'[r][n] = 0 /\ seen'[r] = {} /\ find'[r].path
      BY <1>1, <2>1, <3>1 DEF FindInv, FindTypes
    <3>3. QED BY <1>1, <3>1, <3>2 DEF Passed, Visible
  <2>2. CASE r # s
    <3>1. find'[r] = find[r] /\ stays'[r] = stays[r] /\ times'[r] = times[r] /\ seen'[r] = seen[r]
      BY <1>1, <2>2 DEF FindInv, FindTypes
    <3>2. QED BY <1>1, <3>1 DEF FindInv, Counted, Passed, Looking, Visible
  <2>3. QED BY <2>1, <2>2
<1>9. QED BY <1>4, <1>5, <1>6, <1>7, <1>8 DEF FindInv

\* FindNextFileA begins.
LEMMA FindNextInv == ASSUME FindInv, NEW s \in Searches, FindNext(s) PROVE FindInv'
<1>1. /\ call.at = "idle" /\ find[s].open
      /\ call' = [at |-> "read", s |-> s, first |-> FALSE]
      /\ UNCHANGED <<entries, changes, find, seen, might, stays, times, heap, streams, fault>>
  BY DEF FindNext
<1>2. FindTypes'
  <2>1. call' \in CallType
    BY <1>1 DEF CallType
  <2>2. QED BY <1>1, <2>1 DEF FindInv, FindTypes
<1>3. Shape'
  BY <1>1 DEF FindInv, Shape
<1>4. CallFits'
  BY <1>1 DEF CallFits
<1>5. Blocks'
  BY <1>1 DEF FindInv, Blocks, Lent
<1>6. Counted'
  BY <1>1 DEF FindInv, Counted, Passed, Looking
<1>7. QED BY <1>2, <1>3, <1>4, <1>5, <1>6 DEF FindInv

\* A search is taken down, at the end of FindFirstFileA or by FindClose: what it
\* holds is there to be released, and nothing of it is left.
LEMMA ReleaseInv ==
  ASSUME FindInv, NEW s \in Searches, find[s].open, Release(s), call' = Idle,
         call.at = "idle" \/ (call.at = "read" /\ call.s = s),
         UNCHANGED <<entries, changes, stays, times>>
  PROVE  FindInv'
<1>1. /\ Free(Held(s)) /\ streams' = streams \ {s}
      /\ find' = [find EXCEPT ![s] = Closed]
      /\ seen' = [seen EXCEPT ![s] = {}] /\ might' = [might EXCEPT ![s] = {}]
  BY DEF Release, Forget
<1>2. Held(s) \subseteq heap /\ fault = FALSE
  BY DEF FindInv, Blocks, Held
<1>3. heap' = heap \ Held(s) /\ fault' = FALSE
  BY <1>1, <1>2, FreeFacts
<1>4. FindTypes'
  <2>1. call' \in CallType
    BY DEF CallType
  <2>2. find' \in [Searches -> SearchType]
    BY <1>1 DEF FindInv, FindTypes, SearchType, Closed
  <2>3. seen' \in [Searches -> SUBSET Names] /\ might' \in [Searches -> SUBSET Names]
    BY <1>1 DEF FindInv, FindTypes
  <2>4. QED BY <1>1, <1>3, <2>1, <2>2, <2>3 DEF FindInv, FindTypes
<1>5. Shape'
  BY <1>1 DEF FindInv, FindTypes, Shape, Closed
<1>6. CallFits'
  BY DEF CallFits, Idle
<1>7. Blocks'
  <2> SUFFICES ASSUME NEW r \in Searches
               PROVE  (/\ <<r, "object">> \in heap <=> find[r].open
                       /\ <<r, "path">> \in heap <=> find[r].path
                       /\ <<r, "joined">> \notin heap
                       /\ r \in streams <=> find[r].dir)'
    BY <1>3 DEF Blocks, Lent, Idle
  <2>1. /\ <<r, "object">> \in heap <=> find[r].open
        /\ <<r, "path">> \in heap <=> find[r].path
        /\ <<r, "joined">> \notin heap
        /\ r \in streams <=> find[r].dir
    BY DEF FindInv, Blocks, Lent
  <2>2. CASE r = s
    BY <1>1, <1>3, <2>1, <2>2 DEF Held, Closed, FindInv, FindTypes
  <2>3. CASE r # s
    <3>1. find'[r] = find[r]
      BY <1>1, <2>3 DEF FindInv, FindTypes
    <3>2. \A b : <<r, b>> \notin Held(s)
      BY <2>3 DEF Held
    <3>3. QED BY <1>1, <1>3, <2>1, <2>3, <3>1, <3>2
  <2>4. QED BY <2>2, <2>3
<1>8. Counted'
  BY <1>1 DEF FindInv, FindTypes, Counted, Passed, Looking, Idle, Closed
<1>9. QED BY <1>4, <1>5, <1>6, <1>7, <1>8 DEF FindInv

\* FindClose keeps the invariant: it only frees what the search holds.
LEMMA FindCloseInv == ASSUME FindInv, NEW s \in Searches, FindClose(s) PROVE FindInv'
<1>1. call = Idle
  BY DEF FindClose, FindInv, FindTypes, CallType
<1>2. QED BY <1>1, ReleaseInv DEF FindClose

\* readdir has returned a name, and the path to it is joined.
LEMMA ReadEntryInv == ASSUME FindInv, NEW n \in Names, ReadEntry(n) PROVE FindInv'
<1> DEFINE s == call.s
<1>1. /\ call.at = "read" /\ s \in Searches /\ call.first \in BOOLEAN
      /\ find[s].open /\ find[s].dir
      /\ n \notin seen[s]
      /\ seen' = [seen EXCEPT ![s] = @ \cup {n}]
      /\ heap' = heap \cup {<<s, "joined">>}
      /\ call' = [at |-> "stat", s |-> s, first |-> call.first, n |-> n, full |-> "joined"]
      /\ UNCHANGED <<entries, changes, find, might, stays, times, streams, fault>>
  BY FindCallFacts DEF ReadEntry, Look, FindInv, FindTypes, CallFits
<1> HIDE DEF s
<1>2. find[s].path /\ find[s].scope = Names
  BY <1>1 DEF FindInv, Shape
<1>3. FindTypes'
  <2>1. call' \in CallType
    BY <1>1 DEF CallType
  <2>2. QED BY <1>1, <2>1 DEF FindInv, FindTypes
<1>4. Shape'
  BY <1>1 DEF FindInv, Shape
<1>5. CallFits'
  BY <1>1, <1>2 DEF FindInv, FindTypes, CallFits
<1>6. Blocks'
  BY <1>1 DEF FindInv, FindTypes, Blocks, Lent
<1>7. Counted'
  <2> SUFFICES ASSUME NEW r \in Searches, find[r].open, NEW m \in stays[r]
               PROVE  (times[r][m] = IF Passed(r, m) THEN 1 ELSE 0)'
    BY <1>1 DEF FindInv, Counted
  <2>1. times[r][m] = IF Passed(r, m) THEN 1 ELSE 0
    BY DEF FindInv, Counted
  <2>2. Passed(r, m)' <=> Passed(r, m)
    <3>1. seen'[r] = IF r = s THEN seen[r] \cup {n} ELSE seen[r]
      BY <1>1 DEF FindInv, FindTypes
    <3>2. QED BY <1>1, <3>1 DEF Passed, Looking
  <2>3. QED BY <1>1, <2>1, <2>2
<1>8. QED BY <1>3, <1>4, <1>5, <1>6, <1>7 DEF FindInv

\* The path of a search without a directory becomes the one that stat is given.
LEMMA TakePathInv == ASSUME FindInv, NEW n \in Names, TakePath(n) PROVE FindInv'
<1> DEFINE s == call.s
<1>1. /\ call.at = "read" /\ s \in Searches /\ call.first \in BOOLEAN
      /\ find[s].open /\ ~find[s].dir /\ find[s].path /\ n \in find[s].scope
      /\ find' = [find EXCEPT ![s].path = FALSE]
      /\ call' = [at |-> "stat", s |-> s, first |-> call.first, n |-> n, full |-> "path"]
      /\ UNCHANGED <<entries, changes, seen, might, stays, times, heap, streams, fault>>
  BY FindCallFacts DEF TakePath, Look, FindInv, FindTypes, CallFits
<1> HIDE DEF s
<1>2. PICK k \in Names : find[s].scope = {k}
  BY <1>1 DEF FindInv, Shape
<1>3. \A r \in Searches : /\ find'[r].open = find[r].open
                          /\ find'[r].dir = find[r].dir
                          /\ find'[r].scope = find[r].scope
                          /\ find'[r].path = (find[r].path /\ r # s)
                          /\ r # s => find'[r] = find[r]
  BY <1>1 DEF FindInv, FindTypes, SearchType
<1>4. FindTypes'
  <2>1. call' \in CallType
    BY <1>1 DEF CallType
  <2>2. find' \in [Searches -> SearchType]
    <3>1. find \in [Searches -> SearchType] /\ find[s] \in SearchType
      BY <1>1 DEF FindInv, FindTypes
    <3>2. [find[s] EXCEPT !.path = FALSE] \in SearchType
      BY <3>1 DEF SearchType
    <3>3. QED BY <1>1, <3>1, <3>2
  <2>3. QED BY <1>1, <2>1, <2>2 DEF FindInv, FindTypes
<1>5. Shape'
  BY <1>1, <1>3 DEF FindInv, Shape
<1>6. CallFits'
  BY <1>1, <1>3 DEF FindInv, FindTypes, CallFits
<1>7. Blocks'
  BY <1>1, <1>3 DEF FindInv, FindTypes, Blocks, Lent
<1>8. Counted'
  <2> SUFFICES ASSUME NEW r \in Searches, find[r].open, NEW m \in stays[r]
               PROVE  (/\ Visible(entries[m]) /\ m \in find[r].scope
                       /\ times[r][m] = IF Passed(r, m) THEN 1 ELSE 0)'
    BY <1>1, <1>3 DEF Counted
  <2>1. /\ Visible(entries[m]) /\ m \in find[r].scope
        /\ times[r][m] = IF Passed(r, m) THEN 1 ELSE 0
    BY DEF FindInv, Counted
  <2>2. Passed(r, m)' <=> Passed(r, m)
    BY <1>1, <1>2, <1>3, <2>1 DEF Passed, Looking
  <2>3. QED BY <1>1, <1>3, <2>1, <2>2 DEF Visible
<1>9. QED BY <1>4, <1>5, <1>6, <1>7, <1>8 DEF FindInv

\* There is no more: the first search is taken down, any other stays.
LEMMA NoMoreInv == ASSUME FindInv, NoMore PROVE FindInv'
<1>1. /\ call.at = "read" /\ call.s \in Searches /\ find[call.s].open /\ call' = Idle
      /\ UNCHANGED <<entries, changes, stays, times>>
  BY FindCallFacts DEF NoMore, FindInv, FindTypes, CallFits
<1>2. CASE call.first
  BY <1>1, <1>2, ReleaseInv DEF NoMore
<1>3. CASE ~call.first
  <2>1. UNCHANGED <<find, seen, might, heap, streams, fault>>
    BY <1>3 DEF NoMore
  <2>2. FindTypes'
    BY <1>1, <2>1 DEF FindInv, FindTypes, CallType
  <2>3. Shape' /\ CallFits'
    BY <1>1, <2>1 DEF FindInv, Shape, CallFits, Idle
  <2>4. Blocks'
    BY <1>1, <2>1 DEF FindInv, Blocks, Lent, Idle
  <2>5. Counted'
    BY <1>1, <2>1 DEF FindInv, Counted, Passed, Looking, Idle
  <2>6. QED BY <2>2, <2>3, <2>4, <2>5 DEF FindInv
<1>4. QED BY <1>2, <1>3

\* stat has been asked: the path it was given is there, and is released.
LEMMA StatRelease ==
  ASSUME FindInv, call.at = "stat", Free({<<call.s, call.full>>}), UNCHANGED <<find, streams>>,
         call'.at \in {"idle", "read", "exit"}
  PROVE  /\ heap' = heap \ {<<call.s, call.full>>}
         /\ Blocks'
<1>1. call.s \in Searches /\ call.full \in {"path", "joined"}
  BY FindCallFacts DEF FindInv, FindTypes
<1>2. fault = FALSE /\ {<<call.s, call.full>>} \subseteq heap
  BY <1>1 DEF FindInv, Blocks, Lent
<1>3. heap' = heap \ {<<call.s, call.full>>} /\ fault' = FALSE
  BY <1>2, FreeFacts
<1>4. call.full = "path" => ~find[call.s].path
  BY DEF FindInv, CallFits
<1>5. Blocks'
  <2> SUFFICES ASSUME NEW r \in Searches
               PROVE  (/\ <<r, "object">> \in heap <=> find[r].open
                       /\ <<r, "path">> \in heap <=> find[r].path
                       /\ <<r, "joined">> \notin heap
                       /\ r \in streams <=> find[r].dir)'
    BY <1>3 DEF Blocks, Lent
  <2>1. /\ <<r, "object">> \in heap <=> find[r].open
        /\ <<r, "path">> \in heap <=> find[r].path \/ (call.s = r /\ call.full = "path")
        /\ <<r, "joined">> \in heap <=> (call.s = r /\ call.full = "joined")
        /\ r \in streams <=> find[r].dir
    BY DEF FindInv, Blocks, Lent
  <2>2. QED BY <1>1, <1>3, <1>4, <2>1
<1>6. QED BY <1>3, <1>5

\* A file that is there is returned.
LEMMA StatFoundInv == ASSUME FindInv, StatFound PROVE FindInv'
<1> DEFINE s == call.s
           n == call.n
<1>1. /\ call.at = "stat" /\ s \in Searches /\ n \in Names /\ call' = Idle
      /\ times' = [times EXCEPT ![s][n] = @ + 1]
      /\ Free({<<s, call.full>>})
      /\ UNCHANGED <<entries, changes, find, seen, might, stays, streams>>
  BY FindCallFacts DEF StatFound, FindInv, FindTypes
<1>2. heap' = heap \ {<<s, call.full>>} /\ Blocks'
  BY <1>1, StatRelease DEF Idle
<1>3. /\ find[s].open /\ n \in find[s].scope
      /\ IF find[s].dir THEN n \in stays[s] => n \in seen[s] ELSE ~find[s].path
  BY <1>1 DEF FindInv, CallFits
<1> HIDE DEF s, n
<1>4. FindTypes'
  <2>1. [times[s] EXCEPT ![n] = @ + 1] \in [Names -> Nat]
    BY <1>1 DEF FindInv, FindTypes
  <2>2. times' \in [Searches -> [Names -> Nat]]
    BY <1>1, <2>1 DEF FindInv, FindTypes
  <2>3. QED BY <1>1, <1>2, <2>2 DEF FindInv, FindTypes, CallType
<1>5. Shape'
  BY <1>1 DEF FindInv, Shape
<1>6. CallFits'
  BY <1>1 DEF CallFits, Idle
<1>7. Counted'
  <2> SUFFICES ASSUME NEW r \in Searches, find[r].open, NEW m \in stays[r]
               PROVE  (times[r][m] = IF Passed(r, m) THEN 1 ELSE 0)'
    BY <1>1 DEF FindInv, Counted
  <2>1. times[r][m] = (IF Passed(r, m) THEN 1 ELSE 0) /\ m \in Names
    BY DEF FindInv, Counted, FindTypes
  <2>2. CASE r = s /\ m = n
    <3>1. times[r][m] = 0
      BY <1>1, <2>1, <2>2 DEF Passed, Looking, s, n
    <3>2. times'[r][m] = 1
      BY <1>1, <2>1, <2>2, <3>1 DEF FindInv, FindTypes
    <3>3. Passed(r, m)'
      BY <1>1, <1>3, <2>2 DEF Passed, Looking, Idle
    <3>4. QED BY <3>2, <3>3
  <2>3. CASE ~(r = s /\ m = n)
    <3>1. times'[r][m] = times[r][m]
      BY <1>1, <2>1, <2>3 DEF FindInv, FindTypes
    <3>2. Passed(r, m)' <=> Passed(r, m)
      BY <1>1, <2>3 DEF Passed, Looking, Idle, s, n
    <3>3. QED BY <2>1, <3>1, <3>2
  <2>4. QED BY <2>2, <2>3
<1>8. QED BY <1>2, <1>4, <1>5, <1>6, <1>7 DEF FindInv

\* One that is gone is passed over, and one that cannot be examined ends the
\* program: neither is a file that stays.
LEMMA StatGoneInv == ASSUME FindInv, StatGone \/ StatFails PROVE FindInv'
<1>1. /\ call.at = "stat" /\ call.s \in Searches /\ call.n \in Names /\ call.first \in BOOLEAN
      /\ ~Visible(entries[call.n])
      /\ Free({<<call.s, call.full>>})
      /\ call' \in {[at |-> a, s |-> call.s, first |-> call.first] : a \in {"read", "exit"}}
      /\ UNCHANGED <<entries, changes, find, seen, might, stays, times, streams>>
  BY FindCallFacts DEF StatGone, StatFails, Visible, Gone, FindInv, FindTypes
<1>2. call'.at \in {"read", "exit"} /\ call'.s = call.s /\ find[call.s].open
  BY <1>1 DEF FindInv, CallFits
<1>3. heap' = heap \ {<<call.s, call.full>>} /\ Blocks'
  BY <1>1, <1>2, StatRelease
<1>4. FindTypes'
  <2>1. call' \in CallType
    BY <1>1 DEF CallType
  <2>2. QED BY <1>1, <1>3, <2>1 DEF FindInv, FindTypes
<1>5. Shape'
  BY <1>1 DEF FindInv, Shape
<1>6. CallFits'
  BY <1>1, <1>2 DEF CallFits
<1>7. Counted'
  <2> SUFFICES ASSUME NEW r \in Searches, find[r].open, NEW m \in stays[r]
               PROVE  (times[r][m] = IF Passed(r, m) THEN 1 ELSE 0)'
    BY <1>1 DEF FindInv, Counted
  <2>1. times[r][m] = (IF Passed(r, m) THEN 1 ELSE 0) /\ Visible(entries[m])
    BY DEF FindInv, Counted
  <2>2. m # call.n
    BY <1>1, <2>1
  <2>3. Passed(r, m)' <=> Passed(r, m)
    BY <1>1, <1>2, <2>2 DEF Passed, Looking
  <2>4. QED BY <1>1, <2>1, <2>3
<1>8. QED BY <1>3, <1>4, <1>5, <1>6, <1>7 DEF FindInv

\* A file that another process changes no longer stays; all others are as before.
LEMMA ChangeInv == ASSUME FindInv, NEW n \in Names, NEW k \in Kinds, Change(n, k) PROVE FindInv'
<1>1. /\ changes < MaxChanges
      /\ entries' = [entries EXCEPT ![n] = k]
      /\ changes' = changes + 1
      /\ might' = [s \in Searches |->
                    IF k = "absent" \/ ~find[s].open THEN might[s] ELSE might[s] \cup {n}]
      /\ seen' = [s \in Searches |-> IF entries[n] = "absent" THEN seen[s] \ {n} ELSE seen[s]]
      /\ stays' = [s \in Searches |-> stays[s] \ {n}]
      /\ UNCHANGED <<find, call, times, heap, streams, fault>>
  BY DEF Change
<1>2. FindTypes'
  <2>1. entries' \in [Names -> Kinds] /\ changes' \in 0..MaxChanges
    BY <1>1, FindAssumption DEF FindInv, FindTypes
  <2>2. /\ might' \in [Searches -> SUBSET Names] /\ seen' \in [Searches -> SUBSET Names]
        /\ stays' \in [Searches -> SUBSET Names]
    BY <1>1 DEF FindInv, FindTypes
  <2>3. QED BY <1>1, <2>1, <2>2 DEF FindInv, FindTypes, CallType, Targets
<1>3. Shape'
  BY <1>1 DEF FindInv, Shape
<1>4. \A s \in Searches : \A m \in stays'[s] :
        m \in stays[s] /\ m # n /\ m \in Names /\ entries'[m] = entries[m]
          /\ (m \in seen'[s] <=> m \in seen[s])
  BY <1>1 DEF FindInv, FindTypes
<1>5. CallFits'
  <2>1. call.at = "stat" => call.s \in Searches
    BY FindCallFacts DEF FindInv, FindTypes
  <2>2. QED BY <1>1, <1>4, <2>1 DEF FindInv, CallFits
<1>6. Blocks'
  BY <1>1 DEF FindInv, Blocks, Lent
<1>7. Counted'
  <2> SUFFICES ASSUME NEW s \in Searches, find[s].open, NEW m \in stays'[s]
               PROVE  (/\ Visible(entries[m]) /\ m \in find[s].scope
                       /\ times[s][m] = IF Passed(s, m) THEN 1 ELSE 0)'
    BY <1>1 DEF Counted
  <2>1. /\ Visible(entries[m]) /\ m \in find[s].scope
        /\ times[s][m] = IF Passed(s, m) THEN 1 ELSE 0
    BY <1>4 DEF FindInv, Counted
  <2>2. Passed(s, m)' <=> Passed(s, m)
    BY <1>1, <1>4 DEF Passed, Looking
  <2>3. QED BY <1>1, <1>4, <2>1, <2>2 DEF Visible
<1>8. QED BY <1>2, <1>3, <1>5, <1>6, <1>7 DEF FindInv

\* Before the first call there is nothing to hold.
LEMMA InitFindInv == Init => FindInv
<1> SUFFICES ASSUME Init PROVE FindInv
  OBVIOUS
<1>1. FindTypes
  BY FindAssumption DEF Init, FindTypes, CallType, SearchType, Closed
<1>2. Shape /\ CallFits
  BY DEF Init, Shape, CallFits, Closed, Idle
<1>3. Blocks
  BY DEF Init, Blocks, Lent, Closed, Idle
<1>4. Counted
  BY DEF Init, Counted, Closed
<1>5. QED BY <1>1, <1>2, <1>3, <1>4 DEF FindInv

\* A step that changes nothing keeps the invariant.
LEMMA StutterInv == ASSUME FindInv, UNCHANGED vars PROVE FindInv'
BY DEF vars, FindInv, FindTypes, CallType, Targets, Shape, CallFits, Blocks, Lent, Counted, Passed,
       Looking

\* Every step keeps the invariant.
LEMMA StepFindInv == FindInv /\ [Next]_vars => FindInv'
<1> SUFFICES ASSUME FindInv, [Next]_vars PROVE FindInv'
  OBVIOUS
<1>1. CASE \E s \in Searches : FindFirst(s) \/ FindNext(s) \/ FindClose(s)
  BY <1>1, FindFirstInv, FindNextInv, FindCloseInv
<1>2. CASE OpenFails \/ Opened \/ NoMore
  BY <1>2, OpenFailsInv, OpenedInv, NoMoreInv
<1>3. CASE \E n \in Names : ReadEntry(n) \/ TakePath(n)
  BY <1>3, ReadEntryInv, TakePathInv
<1>4. CASE StatFound \/ StatGone \/ StatFails
  BY <1>4, StatFoundInv, StatGoneInv
<1>5. CASE \E n \in Names, k \in Kinds : Change(n, k)
  BY <1>5, ChangeInv
<1>6. CASE UNCHANGED vars
  BY <1>6, StutterInv
<1>7. QED BY <1>1, <1>2, <1>3, <1>4, <1>5, <1>6 DEF Next, InCall

-----------------------------------------------------------------------------
(* The invariants.                                                         *)

\* FindFirstFileA, FindNextFileA_do and FindClose: at every step each block that
\* is allocated has one owner, a search or the call.
THEOREM FindInvariance == Spec => []FindInv
<1>1. Init => FindInv
  BY InitFindInv
<1>2. FindInv /\ [Next]_vars => FindInv'
  BY StepFindInv
<1>3. QED BY <1>1, <1>2, PTL DEF Spec

\* The types of the searches of kernel32.c.
THEOREM TypeCorrect == Spec => []TypeOK
<1>1. FindInv => TypeOK
  <2> SUFFICES ASSUME FindInv PROVE TypeOK
    OBVIOUS
  <2>1. call.at \in {"idle", "open", "read", "stat", "exit"}
    BY FindCallFacts DEF FindInv, FindTypes
  <2>2. call.at = "stat" => call.n \in find[call.s].scope /\ call.full \in {"path", "joined"}
    BY FindCallFacts DEF FindInv, FindTypes, CallFits
  <2>3. fault \in BOOLEAN
    BY DEF FindInv, Blocks
  <2>4. QED BY <2>1, <2>2, <2>3 DEF FindInv, FindTypes, SearchType, TypeOK
<1>2. QED BY <1>1, FindInvariance, PTL

\* findfile, its stream and its path: however the calls end, no block is released
\* twice, and between the calls what is allocated is what the open searches hold.
THEOREM BlocksOwned == Spec => []Owned
<1>1. FindInv => Owned
  <2> SUFFICES ASSUME FindInv PROVE Owned
    OBVIOUS
  <2>1. ~fault
    BY DEF FindInv, Blocks
  <2>2. \A s \in Searches : /\ find[s].path => find[s].open
                            /\ find[s].dir => find[s].open
    BY DEF FindInv, Shape, Closed
  <2>3. ASSUME call.at = "idle"
        PROVE  heap = UNION {Held(s) : s \in {s \in Searches : find[s].open}}
    <3>1. \A s \in Searches : /\ <<s, "object">> \in heap <=> find[s].open
                              /\ <<s, "path">> \in heap <=> find[s].path
                              /\ <<s, "joined">> \notin heap
      BY <2>3 DEF FindInv, Blocks, Lent
    <3>2. ASSUME NEW b \in heap
          PROVE  \E s \in Searches : find[s].open /\ b \in Held(s)
      <4>1. PICK s \in Searches, k \in {"object", "path", "joined"} : b = <<s, k>>
        BY DEF FindInv, FindTypes
      <4>2. (k = "object" /\ find[s].open) \/ (k = "path" /\ find[s].path)
        BY <3>1, <4>1
      <4>3. QED BY <2>2, <4>1, <4>2 DEF Held
    <3>3. ASSUME NEW s \in Searches, find[s].open
          PROVE  Held(s) \subseteq heap
      BY <3>1, <3>3 DEF Held
    <3>4. QED BY <3>2, <3>3
  <2>4. streams = {s \in Searches : find[s].open /\ find[s].dir}
    <3>1. streams \subseteq Searches /\ \A s \in Searches : s \in streams <=> find[s].dir
      BY DEF FindInv, FindTypes, Blocks
    <3>2. QED BY <2>2, <3>1
  <2>5. QED BY <2>1, <2>3, <2>4 DEF Owned
<1>2. QED BY <1>1, FindInvariance, PTL

-----------------------------------------------------------------------------
(* The refinement of DirSearch: FindFirstFileA's second step begins a      *)
(* search, stat delivers a file, and what comes between is not seen.       *)

\* One search changes its state, and the others keep theirs.
LEMMA StateStep ==
  ASSUME NEW s \in Searches, NEW v, State(s)' = v,
         \A r \in Searches : r # s => State(r)' = State(r)
  PROVE  [r \in Searches |-> State(r)]' = [[r \in Searches |-> State(r)] EXCEPT ![s] = v]
OBVIOUS

\* Steps within a call.
LEMMA HiddenSteps ==
  ASSUME FindInv, (\E s \in Searches : FindFirst(s)) \/ OpenFails
                \/ (\E n \in Names : ReadEntry(n) \/ TakePath(n)) \/ StatGone
  PROVE  UNCHANGED Search!vars
<1>1. UNCHANGED <<entries, stays, times>> /\ call.at # "exit" /\ call'.at # "exit"
  BY DEF FindFirst, OpenFails, ReadEntry, TakePath, StatGone, Look, Idle
<1>2. \A r \in Searches : State(r)' = State(r)
  <2>1. CASE (\E s \in Searches : FindFirst(s)) \/ OpenFails
    BY <2>1 DEF FindFirst, OpenFails, State, Idle
  <2>2. CASE (\E n \in Names : ReadEntry(n)) \/ StatGone
    BY <2>2 DEF ReadEntry, StatGone, Look, State
  <2>3. CASE \E n \in Names : TakePath(n)
    <3>1. call.at = "read" /\ call'.at = "stat" /\ call'.s = call.s /\ call'.first = call.first
      BY <2>3 DEF TakePath, Look
    <3>2. \A r \in Searches : find'[r].open = find[r].open
      BY <2>3 DEF TakePath, FindInv, FindTypes, SearchType
    <3>3. QED BY <3>1, <3>2 DEF State
  <2>4. QED BY <2>1, <2>2, <2>3
<1>3. QED BY <1>1, <1>2 DEF Search!vars

\* The object is made: the search begins, for what it was asked for.
LEMMA OpenedRefines == ASSUME FindInv, Opened PROVE Search!Next
<1>1. PICK s \in Searches, t \in Targets : s = call.s /\ t = call.target
  BY FindCallFacts DEF Opened, FindInv, FindTypes
<1>2. /\ call.at = "open" /\ t.scope \subseteq Names /\ ~find[s].open
      /\ find' = [find EXCEPT ![s] = [open |-> TRUE, dir |-> t.dir, path |-> TRUE, scope |-> t.scope]]
      /\ stays' = [stays EXCEPT ![s] = {n \in t.scope : Visible(entries[n])}]
      /\ times' = [times EXCEPT ![s] = [n \in Names |-> 0]]
      /\ call' = [at |-> "read", s |-> s, first |-> TRUE]
      /\ entries' = entries
  BY <1>1, TargetFacts DEF Opened, FindInv, CallFits
<1>3. State(s) = "closed" /\ State(s)' = "first"
  BY <1>1, <1>2 DEF State
<1>4. \A r \in Searches : r # s => State(r)' = State(r)
  BY <1>2 DEF State, FindInv, FindTypes
<1>5. (call.at = "exit")' = (call.at = "exit")
  BY <1>2
<1>6. Search!Begin(s, t.scope)
  BY <1>2, <1>3, <1>4, <1>5, StateStep DEF Search!Begin, Visible, Search!Visible
<1>7. QED BY <1>2, <1>6 DEF Search!Next

\* FindNextFileA goes on.
LEMMA FindNextRefines == ASSUME FindInv, NEW s \in Searches, FindNext(s) PROVE Search!Next
<1>1. State(s) = "open" /\ State(s)' = "more"
  BY DEF FindNext, State
<1>2. \A r \in Searches : r # s => State(r)' = State(r)
  BY DEF FindNext, State
<1>3. Search!Continue(s)
  BY <1>1, <1>2 DEF Search!Continue, FindNext
<1>4. QED BY <1>3 DEF Search!Next

\* FindClose ends it.
LEMMA FindCloseRefines == ASSUME FindInv, NEW s \in Searches, FindClose(s) PROVE Search!Next
<1>1. /\ find' = [find EXCEPT ![s] = Closed] /\ find[s].open /\ call.at = "idle"
      /\ UNCHANGED <<entries, call, stays, times>>
  BY DEF FindClose, Release
<1>2. State(s) = "open" /\ State(s)' = "closed"
  BY <1>1 DEF State, FindInv, FindTypes, Closed
<1>3. \A r \in Searches : r # s => State(r)' = State(r)
  BY <1>1 DEF State, FindInv, FindTypes
<1>4. Search!Close(s)
  BY <1>1, <1>2, <1>3 DEF Search!Close
<1>5. QED BY <1>4 DEF Search!Next

\* What stat finds is delivered: of the files that stay, one not delivered before.
LEMMA StatFoundRefines == ASSUME FindInv, StatFound PROVE Search!Next
<1>1. PICK s \in Searches, n \in Names : s = call.s /\ n = call.n
  BY FindCallFacts DEF StatFound, FindInv, FindTypes
<1>2. /\ call.at = "stat" /\ find[s].open /\ Visible(entries[n]) /\ call' = Idle
      /\ times' = [times EXCEPT ![s][n] = @ + 1]
      /\ UNCHANGED <<entries, find, stays>>
  BY <1>1 DEF StatFound, FindInv, CallFits
<1>3. n \in stays[s] => times[s][n] = 0
  BY <1>1, <1>2 DEF FindInv, Counted, Passed, Looking
<1>4. State(s) \in {"first", "more"} /\ State(s)' = "open"
  BY <1>1, <1>2 DEF State, Idle
<1>5. \A r \in Searches : r # s => State(r)' = State(r)
  BY <1>1, <1>2 DEF State, Idle
<1>6. (call.at = "exit")' = (call.at = "exit")
  BY <1>2 DEF Idle
<1>7. Search!Deliver(s, n)
  BY <1>2, <1>3, <1>4, <1>5, <1>6, StateStep DEF Search!Deliver, Visible, Search!Visible
<1>8. QED BY <1>7 DEF Search!Next

\* The end of a search: it is past every file that stays.
LEMMA NoMoreRefines == ASSUME FindInv, NoMore PROVE Search!Next
<1>1. PICK s \in Searches, first \in BOOLEAN : s = call.s /\ first = call.first
  BY FindCallFacts DEF NoMore, FindInv, FindTypes
<1>2. /\ call.at = "read" /\ find[s].open
      /\ IF find[s].dir THEN stays[s] \subseteq seen[s] ELSE ~find[s].path
      /\ find' = IF first THEN [find EXCEPT ![s] = Closed] ELSE find
      /\ call' = Idle
      /\ UNCHANGED <<entries, stays, times>>
  BY <1>1 DEF NoMore, Release, FindInv, CallFits
<1>3. \A n \in stays[s] : times[s][n] = 1
  BY <1>1, <1>2 DEF FindInv, Counted, Passed, Looking
<1>4. /\ State(s) = IF first THEN "first" ELSE "more"
      /\ State(s)' = IF first THEN "closed" ELSE "open"
  BY <1>1, <1>2 DEF State, FindInv, FindTypes, Closed, Idle
<1>5. \A r \in Searches : r # s => State(r)' = State(r)
  BY <1>1, <1>2 DEF State, FindInv, FindTypes, Idle
<1>6. (call.at = "exit")' = (call.at = "exit")
  BY <1>2 DEF Idle
<1>7. Search!NoMore(s)
  BY <1>2, <1>3, <1>4, <1>5, <1>6, StateStep DEF Search!NoMore
<1>8. QED BY <1>7 DEF Search!Next

\* A file that cannot be examined ends the program.
LEMMA StatFailsRefines == ASSUME FindInv, StatFails PROVE Search!Next
<1>1. /\ call.at = "stat" /\ call.n \in Names /\ entries[call.n] = "unreadable"
      /\ call'.at = "exit" /\ call'.s = call.s /\ call'.first = call.first
      /\ UNCHANGED <<entries, find, stays, times>>
  BY FindCallFacts DEF StatFails, FindInv, FindTypes
<1>2. \A r \in Searches : State(r)' = State(r)
  BY <1>1 DEF State
<1>3. Search!GiveUp
  BY <1>1, <1>2 DEF Search!GiveUp
<1>4. QED BY <1>3 DEF Search!Next

\* Another process's change is one.
LEMMA ChangeRefines ==
  ASSUME FindInv, NEW n \in Names, NEW k \in Kinds, Change(n, k) PROVE Search!Next
<1>1. \A r \in Searches : State(r)' = State(r)
  BY DEF Change, State
<1>2. Search!Change(n, k)
  BY <1>1 DEF Change, Search!Change
<1>3. QED BY <1>2 DEF Search!Next, Search!Kinds, Kinds

\* FindFirstFileA, FindNextFileA and FindClose: whatever other processes do between
\* readdir and stat, a search returns each file that stays exactly once before it
\* ends, nothing that is not there, and gives up only over one it cannot examine.
THEOREM SearchRefined == Spec => Listing
<1>1. Init => Search!Init
  BY DEF Init, Search!Init, State, Closed, Idle, Kinds, Search!Kinds
<1>2. FindInv /\ [Next]_vars => [Search!Next]_(Search!vars)
  <2> SUFFICES ASSUME FindInv, [Next]_vars PROVE [Search!Next]_(Search!vars)
    OBVIOUS
  <2>1. CASE (\E s \in Searches : FindFirst(s)) \/ OpenFails
               \/ (\E n \in Names : ReadEntry(n) \/ TakePath(n)) \/ StatGone
    BY <2>1, HiddenSteps
  <2>2. CASE Opened \/ NoMore \/ StatFound \/ StatFails
    BY <2>2, OpenedRefines, NoMoreRefines, StatFoundRefines, StatFailsRefines
  <2>3. CASE \E s \in Searches : FindNext(s) \/ FindClose(s)
    BY <2>3, FindNextRefines, FindCloseRefines
  <2>4. CASE \E n \in Names, k \in Kinds : Change(n, k)
    BY <2>4, ChangeRefines
  <2>5. CASE UNCHANGED vars
    BY <2>5 DEF vars, Search!vars, State
  <2>6. QED BY <2>1, <2>2, <2>3, <2>4, <2>5 DEF Next, InCall
<1>3. QED BY <1>1, <1>2, FindInvariance, PTL DEF Spec, Listing, Search!Spec

-----------------------------------------------------------------------------
(* File handles.                                                           *)

-----------------------------------------------------------------------------
(* The inductive invariant.                                                *)

\* A byte that was written, or one that a write behind the end left 0.
FileByte == Bytes \cup {0}

OpenFile  == [kind : {"file"}, file : Files, at : 0..MaxLen, access : Accesses]
Directory == [kind |-> "directory"]
FdType    == {Unused, Console, Directory} \cup OpenFile

HandleTypes ==
  /\ fds \in [0..MaxFd -> FdType]
  /\ names \in [FileNames -> Files \cup {0}]
  /\ data \in [Files -> Seq(FileByte)]
  /\ pc \in {"run", "exit"}

\* Standard input, output and error are never closed.
ConsoleStays == \A d \in 0..2 : fds[d] = Console

\* The handles the program has are those of the files that are open.
HeldOpen == held = OpenHandles

\* Files are as long as the model lets them be, and a file that is gone is empty.
Contents == \A f \in Files : Len(data[f]) <= MaxLen /\ (data[f] # <<>> => f \in InUse)

HandleInv == HandleTypes /\ ConsoleStays /\ HeldOpen /\ Contents

-----------------------------------------------------------------------------
(* What the operators return.                                              *)

\* The kernel's choice of a descriptor is one that is free.
LEMMA LowestIsFree ==
  ASSUME HandleTypes, FreeFds # {}
  PROVE  LowestFd \in 0..MaxFd /\ fds[LowestFd] = Unused /\ LowestFd \in Nat
<1>1. DOMAIN fds = 0..MaxFd /\ FreeFds \subseteq Nat /\ FreeFds \subseteq 0..MaxFd
  BY HandleAssumption DEF HandleTypes, FreeFds
<1>2. PICK d \in FreeFds : \A e \in FreeFds : ~(<<e, d>> \in OpToRel(<, Nat))
  BY <1>1, NatLessThanWellFounded, WFMin
<1>3. \A e \in FreeFds : ~(e < d)
  BY <1>1, <1>2 DEF OpToRel
<1>4. \A e \in FreeFds : d <= e
  BY <1>1, <1>3
<1>5. LowestFd \in FreeFds
  BY <1>4 DEF LowestFd
<1>6. QED BY <1>1, <1>5 DEF FreeFds

\* What a descriptor of a file has.
LEMMA FileFacts ==
  ASSUME HandleTypes, NEW d, IsFile(d)
  PROVE  /\ d \in 0..MaxFd /\ fds[d] \in OpenFile
         /\ fds[d].file \in Files /\ fds[d].at \in 0..MaxLen
<1>1. d \in 0..MaxFd /\ fds[d] \in FdType /\ fds[d].kind = "file"
  BY DEF HandleTypes, IsFile
<1>2. fds[d] \in OpenFile
  BY <1>1 DEF FdType, Unused, Console, Directory
<1>3. QED BY <1>1, <1>2 DEF OpenFile

\* A file is in use if a name or a descriptor leads to it.
LEMMA UseFacts ==
  ASSUME HandleTypes
  PROVE  /\ InUse \subseteq Files
         /\ \A n \in FileNames : names[n] # 0 => names[n] \in InUse
         /\ \A d \in 0..MaxFd : IsFile(d) => fds[d].file \in InUse
<1>1. DOMAIN fds = 0..MaxFd /\ \A n \in FileNames : names[n] \in Files \cup {0}
  BY DEF HandleTypes
<1>2. \A d \in 0..MaxFd : IsFile(d) => fds[d].file \in Files
  BY FileFacts
<1>3. QED BY <1>1, <1>2 DEF InUse, Kept, IsFile

\* A name that is not there can be given a file that is not in use.
LEMMA NewIsUnused ==
  ASSUME HandleTypes, Files # InUse
  PROVE  NewFile \in Files /\ NewFile \notin InUse
<1>1. \E f \in Files \ InUse : TRUE
  BY UseFacts
<1>2. QED BY <1>1 DEF NewFile

\* A handle of a file is its descriptor and one.
LEMMA HandleFacts ==
  ASSUME HandleTypes
  PROVE  /\ \A h : h \in OpenHandles <=> h \in Int /\ IsFile(h - 1)
         /\ \A d \in 0..MaxFd : IsFile(d) <=> d + 1 \in OpenHandles
<1>1. DOMAIN fds = 0..MaxFd /\ \A d \in 0..MaxFd : d \in Int
  BY HandleAssumption DEF HandleTypes
<1>2. QED BY <1>1 DEF OpenHandles, IsFile

\* The console's handles work, and are not those of files.
LEMMA ConsoleFacts ==
  ASSUME HandleTypes, ConsoleStays
  PROVE  ConsoleNow = {1, 2, 3} /\ \A h \in OpenHandles : h \in Int /\ h > 3
<1>1. \A h \in 1..3 : h - 1 \in 0..2
  OBVIOUS
<1>2. \A d \in 0..2 : ~IsFile(d)
  BY DEF ConsoleStays, IsFile, Console
<1>3. \A h \in OpenHandles : h \in Int /\ h - 1 \in 0..MaxFd /\ h - 1 \notin 0..2
  BY <1>2, HandleFacts, FileFacts
<1>4. QED BY <1>1, <1>3, HandleAssumption DEF ConsoleNow, ConsoleStays

\* What a write leaves in a file.
LEMMA PutFacts ==
  ASSUME NEW s \in Seq(FileByte), NEW at \in Nat, NEW b \in Seq(FileByte)
  PROVE  /\ Files32!Put(s, at, b) \in Seq(FileByte)
         /\ Len(Files32!Put(s, at, b)) = IF at + Len(b) > Len(s) THEN at + Len(b) ELSE Len(s)
<1> DEFINE m == IF at + Len(b) > Len(s) THEN at + Len(b) ELSE Len(s)
<1>1. m \in Nat
  OBVIOUS
<1>2. \A k \in 1..m : k \in (at + 1)..(at + Len(b)) => k - at \in 1..Len(b)
  OBVIOUS
<1>3. \A k \in 1..m : Files32!Put(s, at, b)[k] \in FileByte
  BY <1>2 DEF Files32!Put, FileByte
<1>4. Files32!Put(s, at, b) \in [1..m -> FileByte]
  BY <1>3 DEF Files32!Put
<1>5. QED BY <1>1, <1>4

\* What is written is some of the bytes given.
LEMMA WrittenFacts ==
  ASSUME NEW count \in 0..2
  PROVE  /\ SubSeq(<<1, 1>>, 1, count) \in [1..count -> Bytes]
         /\ SubSeq(<<1, 1>>, 1, count) \in Seq(FileByte)
         /\ Len(SubSeq(<<1, 1>>, 1, count)) = count
<1>1. \A k \in 1..count : <<1, 1>>[k] \in Bytes
  BY DEF Bytes
<1>2. /\ SubSeq(<<1, 1>>, 1, count) \in Seq(Bytes)
      /\ Len(SubSeq(<<1, 1>>, 1, count)) = count
  BY <1>1, SubSeqProperties
<1>3. ASSUME NEW w \in Seq(Bytes)
      PROVE  w \in [1..Len(w) -> Bytes] /\ w \in Seq(FileByte)
  BY SeqMonotonic DEF FileByte
<1>4. QED BY <1>2, <1>3

-----------------------------------------------------------------------------
(* What the steps do.                                                      *)

\* A file that was opened has a descriptor nobody had.  It had the name, or it is
\* new and empty.
Opens(n, access, d, f) ==
  /\ d \in 0..MaxFd /\ fds[d] = Unused
  /\ f \in Files
  /\ names[n] = f \/ (names[n] = 0 /\ f \notin InUse)
  /\ names' = [names EXCEPT ![n] = f]
  /\ data' = [data EXCEPT ![f] = <<>>] \/ (data' = data /\ names[n] = f)
  /\ fds' = [fds EXCEPT ![d] = [kind |-> "file", file |-> f, at |-> 0, access |-> access]]
  /\ held' = held \cup {d + 1}
  /\ answer' = [call |-> "open", h |-> 0, ok |-> TRUE, n |-> d + 1, bytes |-> NoBytes]
  /\ pc' = pc

\* CreateFileA puts what it opened in a free descriptor.
LEMMA CreateFacts ==
  ASSUME HandleInv, NEW n \in FileNames, NEW disp \in Dispositions, NEW access \in Accesses,
         CreateFile(n, disp, access)
  PROVE  \E d, f : Opens(n, access, d, f)
<1> DEFINE f == IF names[n] = 0 THEN NewFile ELSE names[n]
<1>1. LowestFd \in 0..MaxFd /\ fds[LowestFd] = Unused
  BY LowestIsFree DEF HandleInv, CreateFile
<1>2. f \in Files /\ (names[n] = f \/ (names[n] = 0 /\ f \notin InUse))
  BY NewIsUnused DEF CreateFile, HandleInv, HandleTypes
<1>3. PICK fl \in Flags(disp) :
        /\ names' = [names EXCEPT ![n] = f]
        /\ data' = IF fl.trunc \/ names[n] = 0 THEN [data EXCEPT ![f] = <<>>] ELSE data
        /\ fds' = [fds EXCEPT ![LowestFd] =
                     [kind |-> "file", file |-> f, at |-> 0, access |-> access]]
  BY DEF CreateFile
<1>4. data' = [data EXCEPT ![f] = <<>>] \/ (data' = data /\ names[n] = f)
  BY <1>3
<1>5. /\ held' = held \cup {LowestFd + 1} /\ pc' = pc
      /\ answer' = [call |-> "open", h |-> 0, ok |-> TRUE, n |-> LowestFd + 1, bytes |-> NoBytes]
  BY DEF CreateFile, HandleOf, Answer
<1>6. Opens(n, access, LowestFd, f)
  BY <1>1, <1>2, <1>3, <1>4, <1>5 DEF Opens
<1>7. QED BY <1>6

\* The descriptor leads to the file, and the others to what they led to.
LEMMA OpensFacts ==
  ASSUME HandleInv, NEW n \in FileNames, NEW access \in Accesses, NEW d, NEW f,
         Opens(n, access, d, f)
  PROVE  /\ HandleTypes'
         /\ d > 2 /\ d \in Int
         /\ fds'[d].file = f /\ fds'[d].at = 0
         /\ \A e \in 0..MaxFd : /\ e # d => fds'[e] = fds[e]
                                /\ IsFile(e)' <=> IsFile(e) \/ e = d
         /\ InUse' = InUse \cup {f}
         /\ OpenHandles' = OpenHandles \cup {d + 1}
         /\ d + 1 \notin OpenHandles
<1>1. HandleTypes'
  <2>1. [kind |-> "file", file |-> f, at |-> 0, access |-> access] \in FdType
    BY HandleAssumption DEF Opens, FdType, OpenFile
  <2>2. fds' \in [0..MaxFd -> FdType]
    BY <2>1 DEF Opens, HandleInv, HandleTypes
  <2>3. names' \in [FileNames -> Files \cup {0}]
    BY DEF Opens, HandleInv, HandleTypes
  <2>4. data' \in [Files -> Seq(FileByte)]
    BY EmptySeq DEF Opens, HandleInv, HandleTypes
  <2>5. QED BY <2>2, <2>3, <2>4 DEF Opens, HandleInv, HandleTypes
<1>2. d > 2 /\ d \in Int /\ d \in 0..MaxFd
  BY HandleAssumption DEF Opens, HandleInv, ConsoleStays, Unused, Console
<1>3. fds'[d] = [kind |-> "file", file |-> f, at |-> 0, access |-> access]
  BY DEF Opens, HandleInv, HandleTypes
<1>4. \A e \in 0..MaxFd : e # d => fds'[e] = fds[e]
  BY DEF Opens, HandleInv, HandleTypes
<1>5. DOMAIN fds = 0..MaxFd /\ DOMAIN fds' = 0..MaxFd
  BY <1>1 DEF HandleInv, HandleTypes
<1>6. ~IsFile(d)
  BY DEF Opens, IsFile, Unused
<1>7. \A e \in 0..MaxFd : IsFile(e)' <=> IsFile(e) \/ e = d
  BY <1>3, <1>4, <1>5 DEF IsFile
<1>8. InUse' = InUse \cup {f}
  <2>1. \A g \in Files : Kept(g, names', fds') <=> Kept(g, names, fds) \/ g = f
    <3>1. \A g \in Files : (\E m \in FileNames : names'[m] = g)
                              <=> (\E m \in FileNames : names[m] = g) \/ g = f
      <4>1. \A m \in FileNames : names'[m] = IF m = n THEN f ELSE names[m]
        BY DEF Opens, HandleInv, HandleTypes
      <4>2. names[n] = f \/ names[n] = 0
        BY DEF Opens
      <4>3. QED BY <4>1, <4>2 DEF Files
    <3>2. \A g \in Files : (\E e \in DOMAIN fds' : fds'[e].kind = "file" /\ fds'[e].file = g)
                              <=> (\E e \in DOMAIN fds : fds[e].kind = "file" /\ fds[e].file = g)
                                    \/ g = f
      BY <1>2, <1>3, <1>4, <1>5, <1>6 DEF IsFile
    <3>3. QED BY <3>1, <3>2 DEF Kept
  <2>2. QED BY <2>1 DEF InUse, Opens
<1>9. OpenHandles' = OpenHandles \cup {d + 1}
  BY <1>2, <1>5, <1>7 DEF OpenHandles, IsFile
<1>10. d + 1 \notin OpenHandles
  BY <1>2, <1>6, HandleFacts DEF HandleInv
<1>11. QED BY <1>1, <1>2, <1>3, <1>4, <1>7, <1>8, <1>9, <1>10

\* The position of a file that is open moves, and nothing else.
LEMMA MoveFacts ==
  ASSUME HandleTypes, ConsoleStays, NEW d, IsFile(d), NEW p \in 0..MaxLen,
         fds' = [fds EXCEPT ![d].at = p], names' = names
  PROVE  /\ fds' \in [0..MaxFd -> FdType]
         /\ fds'[d].file = fds[d].file /\ fds'[d].at = p
         /\ \A e \in 0..MaxFd : /\ e # d => fds'[e] = fds[e]
                                /\ IsFile(e)' <=> IsFile(e)
         /\ InUse' = InUse
         /\ OpenHandles' = OpenHandles
         /\ ConsoleStays'
<1>1. d \in 0..MaxFd /\ fds[d] \in OpenFile /\ DOMAIN fds = 0..MaxFd
  BY FileFacts DEF HandleTypes
<1>2. [fds[d] EXCEPT !.at = p] \in OpenFile
  BY <1>1 DEF OpenFile
<1>3. fds'[d] = [fds[d] EXCEPT !.at = p] /\ fds' \in [0..MaxFd -> FdType]
  BY <1>1, <1>2 DEF HandleTypes, FdType
<1>4. fds'[d].file = fds[d].file /\ fds'[d].at = p /\ fds'[d].kind = fds[d].kind
  BY <1>1, <1>3 DEF OpenFile
<1>5. \A e \in 0..MaxFd : /\ e # d => fds'[e] = fds[e]
                          /\ fds'[e].kind = fds[e].kind /\ fds'[e].file = fds[e].file
  BY <1>1, <1>4 DEF HandleTypes
<1>6. DOMAIN fds' = 0..MaxFd
  BY <1>3
<1>7. \A e : IsFile(e)' <=> IsFile(e)
  BY <1>1, <1>5, <1>6 DEF IsFile
<1>8. InUse' = InUse
  BY <1>1, <1>5, <1>6 DEF InUse, Kept
<1>9. OpenHandles' = OpenHandles
  BY <1>1, <1>6, <1>7 DEF OpenHandles
<1>10. ConsoleStays'
  BY <1>1, <1>5, HandleAssumption DEF ConsoleStays, IsFile, Console
<1>11. QED BY <1>3, <1>4, <1>5, <1>7, <1>8, <1>9, <1>10

\* A descriptor is given back, or taken for a directory: what it led to has one
\* descriptor less, and nothing else changes.
LEMMA FreedFacts ==
  ASSUME HandleTypes, ConsoleStays, NEW d \in 0..MaxFd, fds[d] # Console,
         NEW v \in {Unused, Directory}, fds' = [fds EXCEPT ![d] = v], names' = names
  PROVE  /\ fds' \in [0..MaxFd -> FdType]
         /\ \A e \in 0..MaxFd : /\ e # d => fds'[e] = fds[e]
                                /\ IsFile(e)' <=> IsFile(e) /\ e # d
         /\ InUse' \subseteq InUse
         /\ ~IsFile(d) => InUse' = InUse
         /\ OpenHandles' = OpenHandles \ {d + 1}
         /\ ConsoleStays'
<1>1. DOMAIN fds = 0..MaxFd /\ fds' \in [0..MaxFd -> FdType] /\ DOMAIN fds' = 0..MaxFd
  BY DEF HandleTypes, FdType
<1>2. fds'[d] = v /\ v.kind # "file" /\ \A e \in 0..MaxFd : e # d => fds'[e] = fds[e]
  BY DEF HandleTypes, Unused, Directory
<1>3. \A e : IsFile(e)' <=> IsFile(e) /\ e # d
  BY <1>1, <1>2 DEF IsFile
<1>4. InUse' \subseteq InUse /\ (~IsFile(d) => InUse' = InUse)
  BY <1>1, <1>2 DEF InUse, Kept, IsFile
<1>5. \A e \in 0..MaxFd : e \in Int
  BY HandleAssumption
<1>6. OpenHandles' = OpenHandles \ {d + 1}
  BY <1>1, <1>3, <1>5 DEF OpenHandles
<1>7. ConsoleStays'
  BY <1>1, <1>2, HandleAssumption DEF ConsoleStays
<1>8. QED BY <1>1, <1>2, <1>3, <1>4, <1>6, <1>7

\* What is left when nothing leads to a file is nothing, and the others keep what
\* they have.
LEMMA LeftFacts ==
  ASSUME HandleTypes, Contents, InUse' \subseteq InUse, data' = Left(names', fds')
  PROVE  /\ data' \in [Files -> Seq(FileByte)]
         /\ Contents'
         /\ \A f \in InUse' : data'[f] = data[f]
<1>1. data' = [f \in Files |-> IF f \in InUse' THEN data[f] ELSE <<>>]
  BY DEF Left, InUse
<1>2. data' \in [Files -> Seq(FileByte)]
  BY <1>1, EmptySeq DEF HandleTypes
<1>3. Len(<<>>) = 0 /\ MaxLen \in Nat
  BY HandleAssumption
<1>4. Contents'
  BY <1>1, <1>3 DEF Contents
<1>5. QED BY <1>1, <1>2, <1>4 DEF InUse

-----------------------------------------------------------------------------
(* Steps preserve the invariant.                                           *)

\* CreateFileA keeps the invariant.
LEMMA CreateInv ==
  ASSUME HandleInv, NEW n \in FileNames, NEW disp \in Dispositions, NEW access \in Accesses,
         CreateFile(n, disp, access)
  PROVE  HandleInv'
<1>1. PICK d, f : Opens(n, access, d, f)
  BY CreateFacts
<1>2. /\ HandleTypes' /\ InUse' = InUse \cup {f} /\ OpenHandles' = OpenHandles \cup {d + 1} /\ d > 2
      /\ \A e \in 0..MaxFd : e # d => fds'[e] = fds[e]
  BY <1>1, OpensFacts
<1>3. ConsoleStays'
  BY <1>2, HandleAssumption DEF HandleInv, ConsoleStays
<1>4. HeldOpen'
  BY <1>1, <1>2 DEF HandleInv, HeldOpen, Opens
<1>5. Contents'
  <2>1. \A g \in Files : data'[g] = data[g] \/ data'[g] = <<>>
    BY <1>1 DEF Opens, HandleInv, HandleTypes
  <2>2. Len(<<>>) = 0 /\ MaxLen \in Nat
    BY HandleAssumption
  <2>3. QED BY <1>2, <2>1, <2>2 DEF HandleInv, Contents
<1>6. QED BY <1>2, <1>3, <1>4, <1>5 DEF HandleInv

\* DeleteFileA keeps the invariant.
LEMMA DeleteInv == ASSUME HandleInv, NEW n \in FileNames, DeleteFile(n) PROVE HandleInv'
<1>1. /\ names' = [names EXCEPT ![n] = 0] /\ data' = Left(names', fds')
      /\ UNCHANGED <<fds, held, pc>>
  BY DEF DeleteFile
<1>2. names' \in [FileNames -> Files \cup {0}] /\ \A m \in FileNames : names'[m] \in {names[m], 0}
  BY <1>1 DEF HandleInv, HandleTypes
<1>3. InUse' \subseteq InUse
  BY <1>1, <1>2 DEF InUse, Kept, Files
<1>4. data' \in [Files -> Seq(FileByte)] /\ Contents'
  BY <1>1, <1>3, LeftFacts DEF HandleInv
<1>5. HandleTypes' /\ ConsoleStays' /\ HeldOpen'
  BY <1>1, <1>2, <1>4 DEF HandleInv, HandleTypes, ConsoleStays, HeldOpen, OpenHandles, IsFile
<1>6. QED BY <1>4, <1>5 DEF HandleInv

\* What a call reads is there, and does not reach behind the end or the bound.
LEMMA GotFacts ==
  ASSUME HandleInv, NEW h, IsFile(Fd(h)), NEW n \in 1..2
  PROVE  /\ Len(Got(h, n)) \in Nat
         /\ Len(Got(h, n)) > 0 => At(h) + Len(Got(h, n)) <= Len(data[File(h)])
         /\ At(h) + Len(Got(h, n)) \in 0..MaxLen
         /\ Got(h, n) = SubSeq(data[File(h)], At(h) + 1, At(h) + Len(Got(h, n)))
<1> DEFINE at == At(h)
           s  == data[File(h)]
           m  == IF at + n > Len(s) THEN Len(s) ELSE at + n
<1>1. /\ at \in 0..MaxLen /\ s \in Seq(FileByte) /\ Len(s) \in Nat /\ Len(s) <= MaxLen
      /\ m \in Nat /\ m <= Len(s) /\ at \in Nat
  BY FileFacts, HandleAssumption DEF HandleInv, HandleTypes, Contents, At, File
<1>2. Got(h, n) = SubSeq(s, at + 1, m)
  BY DEF Got
<1> HIDE DEF at, s, m
<1>3. \A i \in (at + 1)..m : s[i] \in FileByte
  BY <1>1
<1>4. Len(SubSeq(s, at + 1, m)) = IF at + 1 <= m THEN m - at ELSE 0
  BY <1>1, <1>3, SubSeqProperties
<1>5. CASE at + 1 <= m
  <2>1. PICK k \in Nat : k = m - at /\ k > 0 /\ at + k = m
    BY <1>1, <1>5
  <2>2. Len(Got(h, n)) = k
    BY <1>2, <1>4, <1>5, <2>1
  <2>3. at + k <= Len(s) /\ at + k \in 0..MaxLen /\ Got(h, n) = SubSeq(s, at + 1, at + k)
    BY <1>1, <1>2, <2>1, HandleAssumption
  <2>4. QED BY <2>1, <2>2, <2>3 DEF at, s
<1>6. CASE ~(at + 1 <= m)
  <2>1. SubSeq(s, at + 1, m) = <<>> /\ SubSeq(s, at + 1, at + 0) = <<>>
    BY <1>1, <1>6, SubSeqEmpty
  <2>2. QED BY <1>1, <1>2, <1>4, <1>6, <2>1, HandleAssumption DEF at, s
<1>7. QED BY <1>5, <1>6

\* ReadFile keeps the invariant: it only moves the position.
LEMMA ReadInv ==
  ASSUME HandleInv, NEW h \in Handles, NEW n \in 1..2, ReadFile(h, n)
  PROVE  HandleInv'
<1>1. /\ IsFile(Fd(h)) /\ UNCHANGED <<names, data, held, pc>>
      /\ fds' = [fds EXCEPT ![Fd(h)].at = @ + Len(Got(h, n))]
  BY DEF ReadFile, May
<1>2. At(h) + Len(Got(h, n)) \in 0..MaxLen
  BY <1>1, GotFacts
<1>3. fds' = [fds EXCEPT ![Fd(h)].at = At(h) + Len(Got(h, n))]
  BY <1>1 DEF At
<1>4. /\ fds' \in [0..MaxFd -> FdType] /\ InUse' = InUse /\ OpenHandles' = OpenHandles
      /\ ConsoleStays'
  BY <1>1, <1>2, <1>3, MoveFacts DEF HandleInv
<1>5. QED BY <1>1, <1>4 DEF HandleInv, HandleTypes, HeldOpen, Contents

\* SetFilePointer keeps the invariant.
LEMMA SetFilePointerInv ==
  ASSUME HandleInv, NEW h \in Handles, NEW p \in 0..MaxLen, SetFilePointer(h, p)
  PROVE  HandleInv'
<1>1. /\ IsFile(Fd(h)) /\ UNCHANGED <<names, data, held, pc>>
      /\ fds' = [fds EXCEPT ![Fd(h)].at = p]
  BY DEF SetFilePointer
<1>2. /\ fds' \in [0..MaxFd -> FdType] /\ InUse' = InUse /\ OpenHandles' = OpenHandles
      /\ ConsoleStays'
  BY <1>1, MoveFacts DEF HandleInv
<1>3. QED BY <1>1, <1>2 DEF HandleInv, HandleTypes, HeldOpen, Contents

\* WriteFile keeps the invariant: a file grows to MaxLen at most.
LEMMA WriteInv ==
  ASSUME HandleInv, NEW h \in Handles, NEW count \in 0..2, WriteFile(h, <<1, 1>>, count)
  PROVE  HandleInv'
<1> DEFINE w == SubSeq(<<1, 1>>, 1, count)
<1>1. /\ IsFile(Fd(h)) /\ At(h) + count <= MaxLen /\ UNCHANGED <<names, held, pc>>
      /\ fds' = [fds EXCEPT ![Fd(h)].at = @ + count]
      /\ data' = [data EXCEPT ![File(h)] = Files32!Put(@, At(h), w)]
  BY DEF WriteFile, May
<1>2. At(h) \in 0..MaxLen /\ At(h) + count \in 0..MaxLen /\ At(h) \in Nat /\ File(h) \in Files
  BY <1>1, FileFacts, HandleAssumption DEF HandleInv, At, File
<1>3. fds' = [fds EXCEPT ![Fd(h)].at = At(h) + count]
  BY <1>1 DEF At
<1>4. /\ fds' \in [0..MaxFd -> FdType] /\ InUse' = InUse /\ OpenHandles' = OpenHandles
      /\ ConsoleStays'
  BY <1>1, <1>2, <1>3, MoveFacts DEF HandleInv
<1>5. PICK s, t : /\ s = data[File(h)] /\ s \in Seq(FileByte) /\ Len(s) <= MaxLen
                  /\ t = Files32!Put(s, At(h), w) /\ t \in Seq(FileByte) /\ Len(t) <= MaxLen
  <2>1. data[File(h)] \in Seq(FileByte) /\ Len(data[File(h)]) <= MaxLen
    BY <1>2 DEF HandleInv, HandleTypes, Contents
  <2>2. w \in Seq(FileByte) /\ Len(w) = count
    BY WrittenFacts
  <2>3. \A s \in Seq(FileByte) :
          /\ Files32!Put(s, At(h), w) \in Seq(FileByte)
          /\ Len(Files32!Put(s, At(h), w)) = IF At(h) + Len(w) > Len(s) THEN At(h) + Len(w) ELSE Len(s)
    BY <1>2, <2>2, PutFacts
  <2>4. Len(Files32!Put(data[File(h)], At(h), w)) <= MaxLen
    BY <1>1, <1>2, <2>1, <2>2, <2>3
  <2>5. QED BY <2>1, <2>3, <2>4
<1>6. data' = [data EXCEPT ![File(h)] = t]
  BY <1>1, <1>2, <1>5 DEF HandleInv, HandleTypes
<1>7. File(h) \in InUse
  BY <1>1, UseFacts, FileFacts DEF HandleInv, File
<1>8. Contents'
  BY <1>2, <1>4, <1>5, <1>6, <1>7 DEF HandleInv, HandleTypes, Contents
<1>9. data' \in [Files -> Seq(FileByte)]
  BY <1>2, <1>5, <1>6 DEF HandleInv, HandleTypes
<1>10. QED BY <1>1, <1>4, <1>8, <1>9 DEF HandleInv, HandleTypes, HeldOpen

\* A handle that is closed is a file's, or is one that is never closed.
LEMMA CloseFacts ==
  ASSUME HandleInv, NEW h \in Handles \cup {1, 2, 3}, CloseHandle(h)
  PROVE  /\ UNCHANGED <<names, pc>>
         /\ data' = Left(names', fds')
         /\ \/ /\ h \in OpenHandles /\ IsFile(Fd(h)) /\ h \in Int /\ Fd(h) \in 0..MaxFd
               /\ fds' = [fds EXCEPT ![Fd(h)] = Unused]
               /\ held' = held \ {h}
            \/ h \notin OpenHandles /\ fds' = fds /\ held' = held
<1>1. \A g \in OpenHandles : g \in Int /\ g > 3 /\ IsFile(g - 1)
  BY ConsoleFacts, HandleFacts DEF HandleInv
<1>2. data' = Left(names', fds') /\ UNCHANGED <<names, pc>> /\ held' = held \ {h}
  BY DEF CloseHandle
<1>3. CASE h \in OpenHandles
  <2>1. fds' = [fds EXCEPT ![Fd(h)] = Unused]
    BY <1>1, <1>3 DEF CloseHandle, Closes
  <2>2. QED BY <1>1, <1>2, <1>3, <2>1, FileFacts DEF Fd, HandleInv
<1>4. CASE h \notin OpenHandles
  <2>1. h \in {0, 1, 2, 3} /\ h \notin held
    BY <1>4 DEF Handles, HandleInv, HeldOpen
  <2>2. fds' = fds
    BY <2>1 DEF CloseHandle, Closes
  <2>3. QED BY <1>2, <1>4, <2>1, <2>2
<1>5. QED BY <1>3, <1>4

\* CloseHandle keeps the invariant: a file without a name goes with its last handle.
LEMMA CloseInv ==
  ASSUME HandleInv, NEW h \in Handles \cup {1, 2, 3}, CloseHandle(h)
  PROVE  HandleInv'
<1>1. CASE h \in OpenHandles
  <2>1. /\ IsFile(Fd(h)) /\ h \in Int /\ Fd(h) \in 0..MaxFd /\ held' = held \ {h}
        /\ fds' = [fds EXCEPT ![Fd(h)] = Unused] /\ UNCHANGED <<names, pc>>
        /\ data' = Left(names', fds')
    BY <1>1, CloseFacts
  <2>2. fds[Fd(h)] # Console /\ Fd(h) + 1 = h
    BY <2>1 DEF IsFile, Console, Fd
  <2>3. /\ fds' \in [0..MaxFd -> FdType] /\ InUse' \subseteq InUse
        /\ OpenHandles' = OpenHandles \ {h} /\ ConsoleStays'
    BY <2>1, <2>2, FreedFacts DEF HandleInv
  <2>4. data' \in [Files -> Seq(FileByte)] /\ Contents'
    BY <2>1, <2>3, LeftFacts DEF HandleInv
  <2>5. QED BY <2>1, <2>3, <2>4 DEF HandleInv, HandleTypes, HeldOpen
<1>2. CASE h \notin OpenHandles
  <2>1. UNCHANGED <<names, pc, fds, held>> /\ data' = Left(names', fds')
    BY <1>2, CloseFacts
  <2>2. InUse' = InUse /\ OpenHandles' = OpenHandles
    BY <2>1 DEF InUse, OpenHandles, IsFile
  <2>3. data' \in [Files -> Seq(FileByte)] /\ Contents'
    BY <2>1, <2>2, LeftFacts DEF HandleInv
  <2>4. QED BY <2>1, <2>2, <2>3 DEF HandleInv, HandleTypes, HeldOpen, ConsoleStays
<1>3. QED BY <1>1, <1>2

\* A directory takes a descriptor, or gives it back: no file has it.
LEMMA DirectoryFacts ==
  ASSUME HandleInv, OpenDirectory \/ CloseDirectory
  PROVE  /\ UNCHANGED <<names, data, held, answer, pc>>
         /\ \E d \in 0..MaxFd, v \in {Unused, Directory} :
              ~IsFile(d) /\ fds[d] # Console /\ fds' = [fds EXCEPT ![d] = v]
<1>1. CASE OpenDirectory
  <2>1. LowestFd \in 0..MaxFd /\ fds[LowestFd] = Unused
    BY <1>1, LowestIsFree DEF OpenDirectory, HandleInv
  <2>2. ~IsFile(LowestFd) /\ fds[LowestFd] # Console
    BY <2>1 DEF IsFile, Unused, Console
  <2>3. fds' = [fds EXCEPT ![LowestFd] = Directory] /\ UNCHANGED <<names, data, held, answer, pc>>
    BY <1>1 DEF OpenDirectory, Directory
  <2>4. QED BY <2>1, <2>2, <2>3
<1>2. CASE CloseDirectory
  <2>1. PICK d \in DOMAIN fds : fds[d].kind = "directory" /\ fds' = [fds EXCEPT ![d] = Unused]
    BY <1>2 DEF CloseDirectory
  <2>2. d \in 0..MaxFd /\ ~IsFile(d) /\ fds[d] # Console
    BY <2>1 DEF HandleInv, HandleTypes, IsFile, Console
  <2>3. UNCHANGED <<names, data, held, answer, pc>>
    BY <1>2 DEF CloseDirectory
  <2>4. QED BY <2>1, <2>2, <2>3
<1>3. QED BY <1>1, <1>2

\* A descriptor that a search takes or gives back is no handle.
LEMMA DirectoryInv == ASSUME HandleInv, OpenDirectory \/ CloseDirectory PROVE HandleInv'
<1>1. PICK d \in 0..MaxFd, v \in {Unused, Directory} :
        ~IsFile(d) /\ fds[d] # Console /\ fds' = [fds EXCEPT ![d] = v]
  BY DirectoryFacts
<1>2. UNCHANGED <<names, data, held, answer, pc>>
  BY DirectoryFacts
<1>3. d \in Int /\ d + 1 \notin OpenHandles
  BY <1>1, HandleFacts, HandleAssumption DEF HandleInv
<1>4. /\ fds' \in [0..MaxFd -> FdType] /\ InUse' = InUse /\ ConsoleStays'
      /\ OpenHandles' = OpenHandles \ {d + 1}
  BY <1>1, <1>2, FreedFacts DEF HandleInv
<1>5. OpenHandles' = OpenHandles
  BY <1>3, <1>4
<1>6. QED BY <1>2, <1>4, <1>5 DEF HandleInv, HandleTypes, HeldOpen, Contents

\* The program starts with the console and no handle.
LEMMA InitHandleInv == HandleInit => HandleInv
<1> SUFFICES ASSUME HandleInit PROVE HandleInv
  OBVIOUS
<1>1. HandleTypes
  BY EmptySeq DEF HandleInit, HandleTypes, FdType
<1>2. ConsoleStays
  BY HandleAssumption DEF HandleInit, ConsoleStays
<1>3. \A d : ~IsFile(d)
  BY DEF HandleInit, IsFile, Unused, Console
<1>4. HeldOpen
  BY <1>3 DEF HandleInit, HeldOpen, OpenHandles
<1>5. Contents
  BY HandleAssumption DEF HandleInit, Contents
<1>6. QED BY <1>1, <1>2, <1>4, <1>5 DEF HandleInv

\* What fails, and what ends the program, leaves files and handles alone.
LEMMA HandleNothingInv ==
  ASSUME HandleInv, UNCHANGED <<fds, names, data, held>>, pc' \in {"run", "exit"}
  PROVE  HandleInv'
BY DEF HandleInv, HandleTypes, ConsoleStays, HeldOpen, OpenHandles, IsFile, Contents, InUse, Kept

\* Every step keeps the invariant.
LEMMA StepHandleInv == HandleInv /\ [HandleNext]_handleVars => HandleInv'
<1> SUFFICES ASSUME HandleInv, [HandleNext]_handleVars PROVE HandleInv'
  OBVIOUS
<1>1. CASE \E n \in FileNames, disp \in Dispositions, access \in Accesses :
             CreateFile(n, disp, access)
  BY <1>1, CreateInv
<1>2. CASE \E n \in FileNames : DeleteFile(n)
  BY <1>2, DeleteInv
<1>3. CASE \E h \in Handles :
             \/ \E count \in 0..2 : WriteFile(h, <<1, 1>>, count)
             \/ \E n \in 1..2 : ReadFile(h, n)
             \/ \E p \in 0..MaxLen : SetFilePointer(h, p)
  BY <1>3, WriteInv, ReadInv, SetFilePointerInv
<1>4. CASE \E h \in Handles \cup {1, 2, 3} : CloseHandle(h)
  BY <1>4, CloseInv
<1>5. CASE OpenDirectory \/ CloseDirectory
  BY <1>5, DirectoryInv
<1>6. CASE CreateFails \/ CreateDies \/ CallDies \/ (\E h \in Handles : CallFails(h))
  <2>1. UNCHANGED <<fds, names, data, held>> /\ pc' \in {"run", "exit"}
    BY <1>6 DEF CreateFails, CreateDies, CallDies, CallFails
  <2>2. QED BY <2>1, HandleNothingInv
<1>7. CASE UNCHANGED handleVars
  <2>1. UNCHANGED <<fds, names, data, held>> /\ pc' \in {"run", "exit"}
    BY <1>7 DEF handleVars, HandleInv, HandleTypes
  <2>2. QED BY <2>1, HandleNothingInv
<1>8. QED BY <1>1, <1>2, <1>3, <1>4, <1>5, <1>6, <1>7 DEF HandleNext

\* CreateFileA, CloseHandle and the calls in between: the descriptors of files and
\* the handles the program has are always the same, and the console is kept.
THEOREM HandleInvariance == HandleSpec => []HandleInv
<1>1. HandleInit => HandleInv
  BY InitHandleInv
<1>2. HandleInv /\ [HandleNext]_handleVars => HandleInv'
  BY StepHandleInv
<1>3. QED BY <1>1, <1>2, PTL DEF HandleSpec

\* No handle is lost and no file is closed under its handle, with any number of
\* files and of descriptors that directory searches take in between.
THEOREM HandlesOwned == HandleSpec => []HandleTypeOK
<1>1. HandleInv => HandleTypeOK
  <2> SUFFICES ASSUME HandleInv PROVE HandleTypeOK
    OBVIOUS
  <2>1. DOMAIN fds = 0..MaxFd
    BY DEF HandleInv, HandleTypes
  <2>2. QED BY <2>1, HandleFacts DEF HandleInv, HandleTypes, HeldOpen, Contents, HandleTypeOK
<1>2. QED BY <1>1, HandleInvariance, PTL

-----------------------------------------------------------------------------
(* The refinement of Win32Files.                                           *)

\* The console's handles are the same before and after.
LEMMA ConsoleKept == ASSUME ConsoleStays, ConsoleStays' PROVE ConsoleNow' = ConsoleNow
<1>1. \A h \in 1..3 : h - 1 \in 0..2
  OBVIOUS
<1>2. QED BY <1>1 DEF ConsoleStays, ConsoleNow

\* A handle the program uses is one of those that are open.
LEMMA UsedHandle ==
  ASSUME HandleInv, NEW h \in Handles, IsFile(Fd(h))
  PROVE  /\ h \in OpenHandles /\ h \in Int
         /\ OpenNow[h] = [file |-> File(h), at |-> At(h)]
<1>1. h \in Int
  BY HandleFacts DEF Handles, HandleInv, HeldOpen
<1>2. h \in OpenHandles
  BY <1>1, HandleFacts DEF HandleInv, Fd
<1>3. QED BY <1>1, <1>2 DEF OpenNow, File, At, Fd

\* Its position is moved, as the program sees it.
LEMMA MoveSeen ==
  ASSUME HandleInv, NEW h \in Handles, IsFile(Fd(h)), NEW p \in 0..MaxLen,
         fds' = [fds EXCEPT ![Fd(h)].at = p], names' = names
  PROVE  /\ OpenNow' = [OpenNow EXCEPT ![h].at = p]
         /\ InUse' = InUse /\ ConsoleNow' = ConsoleNow
<1>1. /\ fds'[Fd(h)].file = fds[Fd(h)].file /\ fds'[Fd(h)].at = p
      /\ \A e \in 0..MaxFd : e # Fd(h) => fds'[e] = fds[e]
      /\ InUse' = InUse /\ OpenHandles' = OpenHandles /\ ConsoleStays'
  BY MoveFacts DEF HandleInv
<1>2. h \in OpenHandles /\ h \in Int /\ OpenNow[h] = [file |-> File(h), at |-> At(h)]
  BY UsedHandle
<1>3. \A g \in OpenHandles : g \in Int /\ g - 1 \in 0..MaxFd /\ (g # h => g - 1 # Fd(h))
  BY <1>2, HandleFacts, FileFacts DEF HandleInv, Fd
<1>4. \A g \in OpenHandles : g # h => fds'[g - 1] = fds[g - 1]
  BY <1>1, <1>3
<1>5. OpenNow' = [g \in OpenHandles |-> [file |-> fds'[g - 1].file, at |-> fds'[g - 1].at]]
  BY <1>1 DEF OpenNow
<1>6. OpenNow' = [OpenNow EXCEPT ![h] = [file |-> File(h), at |-> p]]
  BY <1>1, <1>2, <1>4, <1>5 DEF OpenNow, File, Fd
<1>7. [OpenNow EXCEPT ![h].at = p] = [OpenNow EXCEPT ![h] = [file |-> File(h), at |-> p]]
  <2>1. [OpenNow[h] EXCEPT !.at = p] = [file |-> File(h), at |-> p]
    BY <1>2
  <2>2. QED BY <2>1
<1>8. QED BY <1>1, <1>6, <1>7, ConsoleKept DEF HandleInv

\* CreateFileA is a step of Win32Files.
LEMMA CreateRefines ==
  ASSUME HandleInv, NEW n \in FileNames, NEW disp \in Dispositions, NEW access \in Accesses,
         CreateFile(n, disp, access)
  PROVE  Files32!Next
<1>1. PICK d, f : Opens(n, access, d, f)
  BY CreateFacts
<1>2. /\ d > 2 /\ d \in Int /\ fds'[d].file = f /\ fds'[d].at = 0
      /\ \A e \in 0..MaxFd : e # d => fds'[e] = fds[e]
      /\ InUse' = InUse \cup {f} /\ OpenHandles' = OpenHandles \cup {d + 1}
      /\ d + 1 \notin OpenHandles
  BY <1>1, OpensFacts
<1>3. ConsoleNow = {1, 2, 3} /\ ConsoleNow' = ConsoleNow
  BY CreateInv, ConsoleFacts, ConsoleKept DEF HandleInv
<1>4. \A g \in OpenHandles : g \in Int /\ g - 1 \in 0..MaxFd /\ g - 1 # d
  BY <1>2, HandleFacts, FileFacts DEF HandleInv
<1>5. DOMAIN OpenNow = OpenHandles /\ DOMAIN OpenNow' = OpenHandles \cup {d + 1}
  BY <1>2 DEF OpenNow
<1>6. \A g \in OpenHandles : OpenNow'[g] = OpenNow[g]
  BY <1>2, <1>4 DEF OpenNow
<1>7. OpenNow'[d + 1] = [file |-> f, at |-> 0]
  BY <1>2 DEF OpenNow
<1>8. answer'.ok /\ answer'.n = d + 1
  BY <1>1 DEF Opens
<1>9. data' \in {data, [data EXCEPT ![f] = <<>>]}
  BY <1>1 DEF Opens
<1>10. d + 1 \notin ConsoleNow
  BY <1>2, <1>3
<1>11. d + 1 \in DOMAIN OpenNow' \ DOMAIN OpenNow
  BY <1>2, <1>5
<1>12. Files32!Open
  BY <1>2, <1>3, <1>5, <1>6, <1>7, <1>8, <1>9, <1>10, <1>11 DEF Files32!Open, Files32!Done
<1>13. QED BY <1>12 DEF Files32!Next

\* WriteFile is a step of Win32Files.
LEMMA WriteRefines ==
  ASSUME HandleInv, NEW h \in Handles, NEW count \in 0..2, WriteFile(h, <<1, 1>>, count)
  PROVE  Files32!Next
<1>1. PICK w : w = SubSeq(<<1, 1>>, 1, count)
  OBVIOUS
<1>2. /\ IsFile(Fd(h)) /\ At(h) + count <= MaxLen /\ names' = names
      /\ fds' = [fds EXCEPT ![Fd(h)].at = @ + count]
      /\ data' = [data EXCEPT ![File(h)] = Files32!Put(@, At(h), w)]
      /\ answer'.call = "write" /\ answer'.ok /\ answer'.n = count
  BY <1>1 DEF WriteFile, May, Answer
<1>3. /\ At(h) \in Nat /\ At(h) + count \in 0..MaxLen
      /\ h \in OpenHandles /\ OpenNow[h] = [file |-> File(h), at |-> At(h)]
  BY <1>2, FileFacts, UsedHandle, HandleAssumption DEF HandleInv, At
<1>4. fds' = [fds EXCEPT ![Fd(h)].at = At(h) + count]
  BY <1>2 DEF At
<1>5. /\ OpenNow' = [OpenNow EXCEPT ![h].at = At(h) + count]
      /\ InUse' = InUse /\ ConsoleNow' = ConsoleNow
  BY <1>2, <1>3, <1>4, MoveSeen
<1>6. Len(w) = count /\ w \in [1..count -> Bytes] /\ count \in 0..MaxLen
  BY <1>1, <1>2, <1>3, WrittenFacts, HandleAssumption
<1>7. OpenNow[h].file = File(h) /\ OpenNow[h].at = At(h) /\ h \in DOMAIN OpenNow
  BY <1>3 DEF OpenNow
<1>8. Files32!Write(h)
  BY <1>2, <1>5, <1>6, <1>7 DEF Files32!Write, Files32!Done
<1>9. QED BY <1>2, <1>7, <1>8 DEF Files32!Next

\* ReadFile is a step of Win32Files.
LEMMA ReadRefines ==
  ASSUME HandleInv, NEW h \in Handles, NEW n \in 1..2, ReadFile(h, n)
  PROVE  Files32!Next
<1>1. /\ IsFile(Fd(h)) /\ names' = names /\ data' = data
      /\ fds' = [fds EXCEPT ![Fd(h)].at = @ + Len(Got(h, n))]
      /\ answer'.call = "read" /\ answer'.ok
      /\ answer'.n = Len(Got(h, n)) /\ answer'.bytes = Got(h, n)
  BY DEF ReadFile, May, Answer
<1>2. PICK k \in Nat : k = Len(Got(h, n))
  BY <1>1, GotFacts
<1>3. /\ k > 0 => At(h) + k <= Len(data[File(h)])
      /\ At(h) + k \in 0..MaxLen /\ At(h) \in 0..MaxLen
      /\ Got(h, n) = SubSeq(data[File(h)], At(h) + 1, At(h) + k)
      /\ h \in OpenHandles /\ OpenNow[h] = [file |-> File(h), at |-> At(h)]
  BY <1>1, <1>2, GotFacts, FileFacts, UsedHandle DEF HandleInv, At
<1>4. fds' = [fds EXCEPT ![Fd(h)].at = At(h) + k]
  BY <1>1, <1>2 DEF At
<1>5. /\ OpenNow' = [OpenNow EXCEPT ![h].at = At(h) + k]
      /\ InUse' = InUse /\ ConsoleNow' = ConsoleNow
  BY <1>1, <1>3, <1>4, MoveSeen
<1>6. OpenNow[h].file = File(h) /\ OpenNow[h].at = At(h) /\ h \in DOMAIN OpenNow
  BY <1>3 DEF OpenNow
<1>7. k \in 0..MaxLen
  BY <1>3, HandleAssumption
<1>8. Files32!Read(h)
  <2>1. Files32!Done(k)
    BY <1>1, <1>2 DEF Files32!Done
  <2>2. k = 0 \/ OpenNow[h].at + k <= Len(data[OpenNow[h].file])
    BY <1>3, <1>6
  <2>3. answer'.bytes = SubSeq(data[OpenNow[h].file], OpenNow[h].at + 1, OpenNow[h].at + k)
    BY <1>1, <1>3, <1>6
  <2>4. OpenNow' = [OpenNow EXCEPT ![h].at = OpenNow[h].at + k]
    BY <1>5, <1>6
  <2>5. QED BY <1>1, <1>5, <1>7, <2>1, <2>2, <2>3, <2>4 DEF Files32!Read
<1>9. QED BY <1>1, <1>6, <1>8 DEF Files32!Next

\* SetFilePointer is a step of Win32Files.
LEMMA MoveRefines ==
  ASSUME HandleInv, NEW h \in Handles, NEW p \in 0..MaxLen, SetFilePointer(h, p)
  PROVE  Files32!Next
<1>1. /\ IsFile(Fd(h)) /\ names' = names /\ data' = data
      /\ fds' = [fds EXCEPT ![Fd(h)].at = p]
      /\ answer'.call = "move" /\ answer'.ok /\ answer'.n = p
  BY DEF SetFilePointer, Answer
<1>2. /\ OpenNow' = [OpenNow EXCEPT ![h].at = p]
      /\ InUse' = InUse /\ ConsoleNow' = ConsoleNow
  BY <1>1, MoveSeen
<1>3. h \in DOMAIN OpenNow
  BY <1>1, UsedHandle DEF OpenNow
<1>4. Files32!Move(h)
  BY <1>1, <1>2 DEF Files32!Move, Files32!Done
<1>5. QED BY <1>1, <1>3, <1>4 DEF Files32!Next

\* CloseHandle is a step of Win32Files.
LEMMA CloseRefines ==
  ASSUME HandleInv, NEW h \in Handles \cup {1, 2, 3}, CloseHandle(h)
  PROVE  Files32!Next
<1>1. answer'.call = "close" /\ answer'.h = h /\ data' = Left(names', fds')
  BY DEF CloseHandle, Answer
<1>2. ConsoleNow' = ConsoleNow
  BY CloseInv, ConsoleKept DEF HandleInv
<1>3. CASE h \in OpenHandles
  <2>1. /\ IsFile(Fd(h)) /\ h \in Int /\ Fd(h) \in 0..MaxFd /\ names' = names
        /\ fds' = [fds EXCEPT ![Fd(h)] = Unused]
    BY <1>3, CloseFacts
  <2>2. fds[Fd(h)] # Console /\ fds[Fd(h)] # Unused /\ Fd(h) + 1 = h
    BY <2>1 DEF IsFile, Console, Unused, Fd
  <2>3. /\ InUse' \subseteq InUse /\ OpenHandles' = OpenHandles \ {h}
        /\ \A e \in 0..MaxFd : e # Fd(h) => fds'[e] = fds[e]
    BY <2>1, <2>2, FreedFacts DEF HandleInv
  <2>4. \A f \in InUse' : data'[f] = data[f]
    BY <1>1, <2>3, LeftFacts DEF HandleInv
  <2>5. \A g \in OpenHandles : g \in Int /\ g - 1 \in 0..MaxFd /\ (g # h => g - 1 # Fd(h))
    BY <2>1, HandleFacts, FileFacts DEF HandleInv, Fd
  <2>6. OpenNow' = [g \in DOMAIN OpenNow \ {h} |-> OpenNow[g]]
    BY <2>3, <2>5 DEF OpenNow
  <2>7. answer'.ok
    BY <2>2 DEF CloseHandle, Answer
  <2>8. Files32!Close(h)
    BY <1>2, <2>3, <2>4, <2>6, <2>7 DEF Files32!Close, Files32!Left
  <2>9. h \in DOMAIN OpenNow
    BY <1>3 DEF OpenNow
  <2>10. QED BY <1>1, <2>8, <2>9 DEF Files32!Next
<1>4. CASE h \notin OpenHandles
  <2>1. fds' = fds /\ names' = names
    BY <1>4, CloseFacts
  <2>2. InUse' = InUse /\ OpenNow' = OpenNow
    BY <2>1 DEF InUse, OpenNow, OpenHandles, IsFile
  <2>3. \A f \in InUse' : data'[f] = data[f]
    BY <1>1, <2>2, LeftFacts DEF HandleInv
  <2>4. Files32!Other
    BY <1>2, <2>2, <2>3 DEF Files32!Other, Files32!Left
  <2>5. QED BY <2>4 DEF Files32!Next
<1>5. QED BY <1>3, <1>4

\* DeleteFileA is a step of Win32Files.
LEMMA DeleteRefines == ASSUME HandleInv, NEW n \in FileNames, DeleteFile(n) PROVE Files32!Next
<1>1. /\ names' = [names EXCEPT ![n] = 0] /\ data' = Left(names', fds') /\ fds' = fds
  BY DEF DeleteFile
<1>2. \A m \in FileNames : names'[m] \in {names[m], 0}
  BY <1>1 DEF HandleInv, HandleTypes
<1>3. InUse' \subseteq InUse
  BY <1>1, <1>2 DEF InUse, Kept, Files
<1>4. \A f \in InUse' : data'[f] = data[f]
  BY <1>1, <1>3, LeftFacts DEF HandleInv
<1>5. OpenNow' = OpenNow /\ ConsoleNow' = ConsoleNow
  BY <1>1 DEF OpenNow, OpenHandles, IsFile, ConsoleNow
<1>6. Files32!Other
  BY <1>3, <1>4, <1>5 DEF Files32!Other, Files32!Left
<1>7. QED BY <1>6 DEF Files32!Next

\* What a search does with descriptors is not seen by Win32Files.
LEMMA DirectoryRefines == ASSUME HandleInv, OpenDirectory \/ CloseDirectory PROVE Files32!Next
<1>1. PICK d \in 0..MaxFd, v \in {Unused, Directory} :
        ~IsFile(d) /\ fds[d] # Console /\ fds' = [fds EXCEPT ![d] = v]
  BY DirectoryFacts
<1>2. names' = names /\ data' = data
  BY DirectoryFacts
<1>3. d \in Int /\ d + 1 \notin OpenHandles
  BY <1>1, HandleFacts, HandleAssumption DEF HandleInv
<1>4. /\ InUse' = InUse /\ OpenHandles' = OpenHandles \ {d + 1}
      /\ \A e \in 0..MaxFd : e # d => fds'[e] = fds[e]
  BY <1>1, <1>2, FreedFacts DEF HandleInv
<1>5. \A g \in OpenHandles : g - 1 \in 0..MaxFd /\ g - 1 # d
  BY <1>1, HandleFacts, FileFacts DEF HandleInv
<1>6. OpenNow' = OpenNow
  BY <1>3, <1>4, <1>5 DEF OpenNow
<1>7. ConsoleNow' = ConsoleNow
  BY DirectoryInv, ConsoleKept DEF HandleInv
<1>8. Files32!Other
  BY <1>2, <1>4, <1>6, <1>7 DEF Files32!Other, Files32!Left
<1>9. QED BY <1>8 DEF Files32!Next

\* A step that leaves the files and the descriptors alone is not seen either.
LEMMA NothingRefines ==
  ASSUME UNCHANGED <<fds, names, data>> PROVE Files32!Next
<1>1. InUse' = InUse /\ OpenNow' = OpenNow /\ ConsoleNow' = ConsoleNow
  BY DEF InUse, Kept, OpenNow, OpenHandles, IsFile, ConsoleNow
<1>2. Files32!Other
  BY <1>1 DEF Files32!Other, Files32!Left
<1>3. QED BY <1>2 DEF Files32!Next

\* CreateFileA, ReadFile, WriteFile, SetFilePointer, CloseHandle and DeleteFileA on
\* the kernel's descriptors are what Windows promises: a handle nobody else has, a
\* position of its own, counts of what was moved, and a console that stays.
THEOREM HandlesRefined == HandleSpec => AsOnWindows
<1>1. HandleInit => Files32!Init
  <2> SUFFICES ASSUME HandleInit PROVE Files32!Init
    OBVIOUS
  <2>1. \A d : ~IsFile(d)
    BY DEF HandleInit, IsFile, Unused, Console
  <2>2. OpenHandles = {} /\ OpenNow = <<>>
    BY <2>1 DEF OpenHandles, OpenNow
  <2>3. ConsoleNow = {1, 2, 3}
    BY HandleAssumption DEF HandleInit, ConsoleNow
  <2>4. QED BY <2>2, <2>3 DEF Files32!Init
<1>2. HandleInv /\ [HandleNext]_handleVars => [Files32!Next]_(Files32!vars)
  <2> SUFFICES ASSUME HandleInv, [HandleNext]_handleVars PROVE [Files32!Next]_(Files32!vars)
    OBVIOUS
  <2>1. CASE \E n \in FileNames, disp \in Dispositions, access \in Accesses :
               CreateFile(n, disp, access)
    BY <2>1, CreateRefines
  <2>2. CASE \E n \in FileNames : DeleteFile(n)
    BY <2>2, DeleteRefines
  <2>3. CASE \E h \in Handles :
               \/ \E count \in 0..2 : WriteFile(h, <<1, 1>>, count)
               \/ \E n \in 1..2 : ReadFile(h, n)
               \/ \E p \in 0..MaxLen : SetFilePointer(h, p)
    BY <2>3, WriteRefines, ReadRefines, MoveRefines
  <2>4. CASE \E h \in Handles \cup {1, 2, 3} : CloseHandle(h)
    BY <2>4, CloseRefines
  <2>5. CASE OpenDirectory \/ CloseDirectory
    BY <2>5, DirectoryRefines
  <2>6. CASE CreateFails \/ CreateDies \/ CallDies \/ (\E h \in Handles : CallFails(h))
    <3>1. UNCHANGED <<fds, names, data>>
      BY <2>6 DEF CreateFails, CreateDies, CallDies, CallFails
    <3>2. QED BY <3>1, NothingRefines
  <2>7. CASE UNCHANGED handleVars
    <3>1. UNCHANGED <<fds, names, data>>
      BY <2>7 DEF handleVars
    <3>2. QED BY <3>1, NothingRefines
  <2>8. QED BY <2>1, <2>2, <2>3, <2>4, <2>5, <2>6, <2>7 DEF HandleNext
<1>3. QED BY <1>1, <1>2, HandleInvariance, PTL DEF HandleSpec, AsOnWindows, Files32!Spec

-----------------------------------------------------------------------------
(* Full paths.                                                             *)

-----------------------------------------------------------------------------
(* The inductive invariant.                                                *)

Chars    == {"back", "slash", "drive", "a", "b"}
DirChars == {"slash", "a", "b"}

\* The directory as it is put in front of the name.
DirPart == IF Relative THEN Append(Swap(cwd, "slash", "back"), "back") ELSE <<>>

PathTypes ==
  /\ cwd \in Dirs /\ moves \in 0..MaxMoves
  /\ name \in PathNames
  /\ size \in Nat /\ stored \in Nat /\ ret \in Nat /\ part \in Nat
  /\ buf \in Seq(Chars)
  /\ same \in BOOLEAN /\ stage \in {"ask", "have"}

\* A refusal says what the name needs in the directory that it met.
Asked ==
  stage = "have" /\ same /\ buf = <<>> /\ cwd # <<>> => ret = Need(size) /\ ret > size

\* An answer is the directory that it met, and the name.
Answered ==
  buf # <<>> =>
    /\ part = PartOf(buf)
    /\ same => buf = DirPart \o name /\ (Relative => cwd # <<>>)

PathInv == PathTypes /\ FullTypeOK /\ Asked /\ Answered

-----------------------------------------------------------------------------
(* Paths.                                                                  *)

\* lpFilePart points behind the last "\\", or to the beginning.
LEMMA PartFacts ==
  ASSUME NEW p \in Seq(Chars)
  PROVE  /\ PartOf(p) \in 1..(Len(p) + 1)
         /\ PartOf(p) = 1 \/ p[PartOf(p) - 1] = "back"
         /\ \A k \in PartOf(p)..Len(p) : p[k] # "back"
<1> DEFINE I == {i \in 1..Len(p) : p[i] = "back"}
<1>1. Len(p) \in Nat
  BY LenProperties
<1>2. PartOf(p) = (IF I # {} THEN Max(I) ELSE 0) + 1
  BY DEF PartOf, SelectLastInSeq
<1>3. CASE I = {}
  BY <1>1, <1>2, <1>3
<1>4. CASE I # {}
  <2>1. Max(I) \in I /\ \A k \in I : k <= Max(I)
    BY <1>1, <1>4, LastOne
  <2>2. PICK m \in 1..Len(p) : m = Max(I)
    BY <2>1
  <2>3. PartOf(p) = m + 1 /\ p[m] = "back" /\ \A k \in I : k <= m
    BY <1>2, <1>4, <2>1, <2>2
  <2>4. \A k \in (m + 1)..Len(p) : p[k] # "back"
    <3> TAKE k \in (m + 1)..Len(p)
    <3>1. k \in 1..Len(p) /\ ~(k <= m)
      BY <1>1, <2>2
    <3>2. QED BY <2>3, <3>1
  <2>5. (m + 1) - 1 = m /\ m + 1 \in 1..(Len(p) + 1)
    BY <1>1, <2>2
  <2>6. QED BY <2>3, <2>4, <2>5
<1>5. QED BY <1>3, <1>4

\* Swapping characters leaves the length.
LEMMA SwapFacts ==
  ASSUME NEW S, NEW p \in Seq(S), NEW c, NEW d
  PROVE  /\ Swap(p, c, d) \in Seq(S \cup {d})
         /\ Len(Swap(p, c, d)) = Len(p)
         /\ \A k \in 1..Len(p) : Swap(p, c, d)[k] = IF p[k] = c THEN d ELSE p[k]
<1>1. Len(p) \in Nat /\ DOMAIN p = 1..Len(p) /\ \A k \in 1..Len(p) : p[k] \in S
  BY LenProperties, ElementOfSeq
<1>2. Swap(p, c, d) \in [1..Len(p) -> S \cup {d}]
  BY <1>1 DEF Swap
<1>3. Swap(p, c, d) \in Seq(S \cup {d})
  BY <1>1, <1>2
<1>4. DOMAIN Swap(p, c, d) = 1..Len(p)
  BY <1>1 DEF Swap
<1>5. Len(Swap(p, c, d)) = Len(p)
  BY <1>1, <1>3, <1>4, LenProperties
<1>6. QED BY <1>1, <1>3, <1>5 DEF Swap

\* The text with its separators turned into those of Unix.
LEMMA TurnFacts ==
  ASSUME NEW p \in Seq(Chars), NEW n \in Nat, n = Len(p)
  PROVE  /\ Swap(p, "back", "slash") \in Seq(Chars)
         /\ Len(Swap(p, "back", "slash")) = n
         /\ \A k \in 1..n : Swap(p, "back", "slash")[k] = IF p[k] = "back" THEN "slash" ELSE p[k]
<1>1. /\ Swap(p, "back", "slash") \in Seq(Chars \cup {"slash"})
      /\ Len(Swap(p, "back", "slash")) = Len(p)
      /\ \A k \in 1..Len(p) : Swap(p, "back", "slash")[k] = IF p[k] = "back" THEN "slash" ELSE p[k]
  BY SwapFacts
<1>2. Chars \cup {"slash"} = Chars
  BY DEF Chars
<1>3. QED BY <1>1, <1>2

\* What the constants are made of.
LEMMA NameFacts ==
  ASSUME PathTypes
  PROVE  /\ name \in Seq(Chars) /\ Len(name) \in Nat
         /\ cwd \in Seq(DirChars) /\ Len(cwd) \in Nat
         /\ cwd # <<>> => Len(cwd) >= 1
         /\ name # <<>> => Len(name) >= 1
<1>1. name \in Seq(Chars) /\ cwd \in Seq(DirChars)
  BY PathAssumption DEF PathTypes, Chars, DirChars
<1>2. QED BY <1>1, LenProperties, EmptySeq

\* The directory in front of the name: its characters, and how many.
LEMMA DirFacts ==
  ASSUME PathTypes
  PROVE  /\ DirPart \in Seq(Chars) /\ DirPart \o name \in Seq(Chars)
         /\ Len(DirPart) = IF Relative THEN Len(cwd) + 1 ELSE 0
         /\ Len(DirPart \o name) = Len(DirPart) + Len(name)
<1>1. /\ name \in Seq(Chars) /\ cwd \in Seq(DirChars) /\ Len(cwd) \in Nat
  BY NameFacts
<1>2. DirPart \in Seq(Chars) /\ Len(DirPart) = IF Relative THEN Len(cwd) + 1 ELSE 0
  <2>1. CASE Relative
    <3>1. /\ Swap(cwd, "slash", "back") \in Seq(DirChars \cup {"back"})
          /\ Len(Swap(cwd, "slash", "back")) = Len(cwd)
      BY <1>1, SwapFacts
    <3>2. DirChars \cup {"back"} \subseteq Chars /\ "back" \in Chars
      BY DEF Chars, DirChars
    <3>3. Swap(cwd, "slash", "back") \in Seq(Chars)
      BY <3>1, <3>2, SeqMonotonic
    <3>4. QED BY <2>1, <3>1, <3>2, <3>3, AppendProperties DEF DirPart
  <2>2. CASE ~Relative
    BY <2>2, EmptySeq DEF DirPart
  <2>3. QED BY <2>1, <2>2
<1>3. QED BY <1>1, <1>2, ConcatProperties

-----------------------------------------------------------------------------
(* A call.                                                                 *)

\* What a call compares: the room there is, what it asks for, what it writes.
LEMMA SizeFacts ==
  ASSUME PathTypes, NEW n \in Nat
  PROVE  /\ FullLen(n) \in Nat /\ Need(n) = FullLen(n) + 1
         /\ NoDirectory(n) <=> Relative /\ cwd = <<>>
         /\ ~NoDirectory(n) /\ TooLong(n) => Need(n) > n
         /\ ~NoDirectory(n) /\ ~TooLong(n) =>
              /\ Len(DirPart \o name) = FullLen(n) /\ FullLen(n) < n
              /\ DirPart \o name # <<>>
         /\ Relative /\ ~NoDirectory(n) /\ ~DirTooLong(n) => Len(cwd) + 1 <= n
<1>1. PICK l \in Nat : l = Len(name) /\ (name # <<>> => l >= 1)
  BY NameFacts
<1>2. PICK c \in Nat : c = Len(cwd) /\ (cwd # <<>> => c >= 1)
  BY NameFacts
<1>3. PICK a : a = Current(n)
  OBVIOUS
<1>4. a = IF cwd = <<>> THEN 0 ELSE IF n < c + 1 THEN c + 1 ELSE c
  BY <1>2, <1>3 DEF Current
<1>5. a \in Nat
  BY <1>4
<1>6. /\ FullLen(n) = l + IF Relative THEN a + 1 ELSE 0
      /\ Need(n) = FullLen(n) + 1
  BY <1>1, <1>3 DEF FullLen, Need
<1>7. /\ NoDirectory(n) <=> Relative /\ a = 0
      /\ DirTooLong(n) <=> Relative /\ a + 1 > n
      /\ TooLong(n) <=> DirTooLong(n) \/ Need(n) > n
  BY <1>3 DEF NoDirectory, DirTooLong, TooLong
<1>8. NoDirectory(n) <=> Relative /\ cwd = <<>>
  BY <1>2, <1>4, <1>7
<1>9. FullLen(n) \in Nat /\ (~NoDirectory(n) /\ TooLong(n) => Need(n) > n)
  BY <1>1, <1>5, <1>6, <1>7
<1>10. Relative /\ ~NoDirectory(n) /\ ~DirTooLong(n) => c + 1 <= n /\ a = c
  BY <1>2, <1>4, <1>7
<1>11. ASSUME ~NoDirectory(n), ~TooLong(n)
       PROVE  /\ Len(DirPart \o name) = FullLen(n) /\ FullLen(n) < n
              /\ DirPart \o name # <<>>
  <2>1. Len(DirPart \o name) = (IF Relative THEN c + 1 ELSE 0) + l
    BY <1>1, <1>2, DirFacts
  <2>2. Len(DirPart \o name) = FullLen(n)
    BY <1>6, <1>7, <1>10, <1>11, <2>1
  <2>3. FullLen(n) < n
    BY <1>6, <1>7, <1>9, <1>11
  <2>4. ~Relative => l >= 1
    BY <1>1 DEF Relative, HasDrive
  <2>5. Len(DirPart \o name) # 0
    BY <2>1, <2>4
  <2>6. Len(<<>>) = 0
    BY EmptySeq
  <2>7. QED BY <2>2, <2>3, <2>5, <2>6
<1>12. QED BY <1>2, <1>6, <1>8, <1>9, <1>10, <1>11

\* What a call leaves: a path that fits, or a refusal.
LEMMA PathCallFacts ==
  ASSUME PathTypes, NEW n \in Nat, GetFullPathName(n)
  PROVE  LET fits == ~NoDirectory(n) /\ ~TooLong(n)
         IN  /\ size' = n /\ same' = TRUE /\ stage' = "have"
             /\ cwd' = cwd /\ moves' = moves /\ name' = name
             /\ fits => /\ buf' = DirPart \o name /\ part' = PartOf(buf')
                        /\ stored' = Len(DirPart \o name) + 1 /\ ret' = FullLen(n)
             /\ ~fits =>
                  /\ buf' = <<>> /\ part' = part
                  /\ stored' = IF Relative /\ ~NoDirectory(n) /\ ~DirTooLong(n)
                               THEN Len(cwd) + 1 ELSE 0
                  /\ ret' = IF NoDirectory(n) THEN 0 ELSE Need(n)
BY DEF GetFullPathName, DirPart

\* A call keeps the invariant, whether it answers or refuses.
LEMMA CallInv ==
  ASSUME PathInv, NEW n \in Nat, GetFullPathName(n)
  PROVE  PathInv'
<1> DEFINE fits == ~NoDirectory(n) /\ ~TooLong(n)
<1>1. /\ PathTypes
      /\ size' = n /\ same' = TRUE /\ stage' = "have"
      /\ cwd' = cwd /\ moves' = moves /\ name' = name
  BY PathCallFacts DEF PathInv
<1>2. Relative' = Relative /\ DirPart' = DirPart /\ Need(n)' = Need(n)
  BY <1>1 DEF Relative, HasDrive, DirPart, Need, FullLen, Current
<1>3. /\ FullLen(n) \in Nat /\ Need(n) = FullLen(n) + 1
      /\ NoDirectory(n) <=> Relative /\ cwd = <<>>
  BY <1>1, SizeFacts
<1>4. CASE fits
  <2>1. /\ buf' = DirPart \o name /\ part' = PartOf(buf')
        /\ stored' = Len(DirPart \o name) + 1 /\ ret' = FullLen(n)
    BY <1>1, <1>4, PathCallFacts
  <2>2. /\ Len(DirPart \o name) = FullLen(n) /\ FullLen(n) < n
        /\ DirPart \o name # <<>>
    BY <1>1, <1>4, SizeFacts
  <2>3. DirPart \o name \in Seq(Chars)
    BY <1>1, DirFacts
  <2>4. part' \in 1..(Len(buf') + 1)
    BY <2>1, <2>3, PartFacts
  <2>5. PathTypes'
    BY <1>1, <1>3, <2>1, <2>2, <2>3, <2>4 DEF PathTypes
  <2>6. FullTypeOK'
    BY <1>1, <1>3, <2>1, <2>2, <2>4 DEF PathTypes, FullTypeOK
  <2>7. Asked' /\ Answered'
    BY <1>1, <1>2, <1>3, <1>4, <2>1, <2>2 DEF Asked, Answered
  <2>8. QED BY <2>5, <2>6, <2>7 DEF PathInv
<1>5. CASE ~fits
  <2>1. /\ buf' = <<>> /\ part' = part
        /\ stored' = IF Relative /\ ~NoDirectory(n) /\ ~DirTooLong(n)
                     THEN Len(cwd) + 1 ELSE 0
        /\ ret' = IF NoDirectory(n) THEN 0 ELSE Need(n)
    BY <1>1, <1>5, PathCallFacts
  <2>2. ~NoDirectory(n) => Need(n) > n
    BY <1>1, <1>5, SizeFacts
  <2>3. stored' \in Nat /\ stored' <= n
    <3>1. Relative /\ ~NoDirectory(n) /\ ~DirTooLong(n) => Len(cwd) + 1 <= n
      BY <1>1, SizeFacts
    <3>2. Len(cwd) \in Nat
      BY <1>1, NameFacts
    <3>3. QED BY <2>1, <3>1, <3>2
  <2>4. PathTypes'
    BY <1>1, <1>3, <2>1, <2>3, EmptySeq DEF PathTypes
  <2>5. FullTypeOK'
    BY <1>1, <1>3, <2>1, <2>2, <2>3 DEF PathTypes, FullTypeOK
  <2>6. Asked' /\ Answered'
    BY <1>1, <1>2, <1>3, <2>1, <2>2 DEF Asked, Answered
  <2>7. QED BY <2>4, <2>5, <2>6 DEF PathInv
<1>6. QED BY <1>4, <1>5

\* So does another process that renames the directory: it ends what is the same.
LEMMA RenameInv == ASSUME PathInv, Rename PROVE PathInv'
<1>1. PathTypes'
  <2>1. MaxMoves \in Nat /\ moves \in 0..MaxMoves /\ moves < MaxMoves /\ moves' = moves + 1
    BY PathAssumption DEF PathInv, PathTypes, Rename
  <2>2. moves' \in 0..MaxMoves
    BY <2>1
  <2>3. QED BY <2>2 DEF PathInv, PathTypes, Rename
<1>2. FullTypeOK'
  BY <1>1 DEF PathInv, PathTypes, Rename, FullTypeOK
<1>3. Asked' /\ Answered'
  BY DEF PathInv, Rename, Asked, Answered
<1>4. QED BY <1>1, <1>2, <1>3 DEF PathInv

\* Nothing was asked at first.
LEMMA InitPathInv == FullInit => PathInv
<1> SUFFICES ASSUME FullInit PROVE PathInv
  OBVIOUS
<1>1. PathTypes
  BY PathAssumption, EmptySeq DEF FullInit, PathTypes
<1>2. FullTypeOK /\ Asked /\ Answered
  BY <1>1 DEF FullInit, PathTypes, FullTypeOK, Asked, Answered
<1>3. QED BY <1>1, <1>2 DEF PathInv

\* A step of another part changes nothing.
LEMMA PathNothingInv == ASSUME PathInv, UNCHANGED fullVars PROVE PathInv'
<1>1. PathTypes' /\ FullTypeOK'
  BY DEF PathInv, PathTypes, FullTypeOK, fullVars
<1>2. Asked' /\ Answered'
  BY DEF PathInv, Asked, Answered, fullVars, Need, FullLen, Current, Relative, HasDrive, DirPart
<1>3. QED BY <1>1, <1>2 DEF PathInv

\* Every step keeps the invariant.
LEMMA StepPathInv == PathInv /\ [FullNext]_fullVars => PathInv'
<1> SUFFICES ASSUME PathInv, [FullNext]_fullVars PROVE PathInv'
  OBVIOUS
<1>1. CASE First
  <2>1. PICK n \in 0..MaxSize : GetFullPathName(n)
    BY <1>1 DEF First
  <2>2. n \in Nat
    BY PathAssumption
  <2>3. QED BY <2>1, <2>2, CallInv
<1>2. CASE Retry
  <2>1. ret \in Nat /\ GetFullPathName(ret)
    BY <1>2 DEF Retry, PathInv, PathTypes
  <2>2. QED BY <2>1, CallInv
<1>3. CASE Rename
  BY <1>3, RenameInv
<1>4. CASE UNCHANGED fullVars
  BY <1>4, PathNothingInv
<1>5. QED BY <1>1, <1>2, <1>3, <1>4 DEF FullNext

\* A refusal is exact and an answer is the path of the name, in every reachable state.
THEOREM PathInvariance == FullSpec => []PathInv
<1>1. FullInit => PathInv
  BY InitPathInv
<1>2. PathInv /\ [FullNext]_fullVars => PathInv'
  BY StepPathInv
<1>3. QED BY <1>1, <1>2, PTL DEF FullSpec

-----------------------------------------------------------------------------
(* What an answer leads to, and what a refusal asks for.                   *)

\* The size that a refusal asks for is enough, where there is a directory.
LEMMA AskedFits ==
  ASSUME PathTypes, NEW n \in Nat, NEW r \in Nat, cwd # <<>>, r = Need(n), r > n
  PROVE  ~NoDirectory(r) /\ ~TooLong(r)
<1>1. PICK l \in Nat : l = Len(name)
  BY NameFacts
<1>2. PICK c \in Nat : c = Len(cwd) /\ c >= 1
  BY NameFacts
<1>3. PICK a : a = Current(n)
  OBVIOUS
<1>4. PICK b : b = Current(r)
  OBVIOUS
<1>5. /\ a = IF n < c + 1 THEN c + 1 ELSE c
      /\ b = IF r < c + 1 THEN c + 1 ELSE c
  BY <1>2, <1>3, <1>4 DEF Current
<1>6. r = l + (IF Relative THEN a + 1 ELSE 0) + 1
  BY <1>1, <1>3 DEF Need, FullLen
<1>7. Need(r) = l + (IF Relative THEN b + 1 ELSE 0) + 1
  BY <1>1, <1>4 DEF Need, FullLen
<1>8. Relative => b = c /\ b <= a /\ b + 1 <= r
  BY <1>5, <1>6
<1>9. Need(r) <= r
  BY <1>5, <1>6, <1>7, <1>8
<1>10. ~DirTooLong(r)
  BY <1>4, <1>5, <1>8 DEF DirTooLong
<1>11. ~TooLong(r)
  BY <1>7, <1>6, <1>5, <1>9, <1>10 DEF TooLong
<1>12. ~NoDirectory(r)
  BY <1>2, <1>4, <1>5 DEF NoDirectory
<1>13. QED BY <1>11, <1>12

\* A name that starts with a drive or "\\" is the same path from everywhere.
LEMMA LeadsFromRoot ==
  ASSUME PathTypes, ~Relative
  PROVE  Unix(name) = Leads(cwd, Unix(name))
<1> DEFINE t == IF HasDrive(name) THEN Tail(name) ELSE name
<1>1. name \in Seq(Chars) /\ Len(name) \in Nat /\ (name # <<>> => Len(name) >= 1)
  BY NameFacts
<1>2. t \in Seq(Chars) /\ Len(t) >= 1 /\ t[1] = "back"
  <2>1. CASE HasDrive(name)
    <3>1. Len(name) >= 2 /\ name[2] = "back" /\ name # <<>>
      BY <1>1, <2>1, EmptySeq DEF HasDrive
    <3>2. /\ Tail(name) \in Seq(Chars) /\ Len(Tail(name)) = Len(name) - 1
          /\ \A i \in 1..Len(Tail(name)) : Tail(name)[i] = name[i + 1]
      BY <1>1, <3>1, HeadTailProperties
    <3>3. 1 \in 1..Len(Tail(name)) /\ 1 + 1 = 2
      BY <1>1, <3>1, <3>2
    <3>4. Tail(name)[1] = name[2]
      BY <3>2, <3>3
    <3>5. QED BY <2>1, <3>1, <3>2, <3>3, <3>4
  <2>2. CASE ~HasDrive(name)
    BY <1>1, <2>2 DEF Relative
  <2>3. QED BY <2>1, <2>2
<1>3. PICK m \in Nat : m = Len(t)
  BY <1>2, LenProperties
<1>4. /\ Swap(t, "back", "slash") \in Seq(Chars)
      /\ Len(Swap(t, "back", "slash")) = m
      /\ \A k \in 1..m : Swap(t, "back", "slash")[k] = IF t[k] = "back" THEN "slash" ELSE t[k]
  BY <1>2, <1>3, TurnFacts
<1>5. Swap(t, "back", "slash")[1] = "slash" /\ Len(Swap(t, "back", "slash")) # 0
  BY <1>2, <1>3, <1>4
<1>6. Unix(name) = Swap(t, "back", "slash")
  BY DEF Unix
<1>7. Unix(name) # <<>>
  BY <1>5, <1>6, EmptySeq
<1>8. QED BY <1>5, <1>6, <1>7 DEF Leads

\* A relative name, with the directory in front of it, is a path of Unix that is
\* the directory, "/", and the name with its separators turned.
LEMMA LeadsFromDirectory ==
  ASSUME PathTypes, Relative, cwd # <<>>, name = <<>> \/ name[1] # "slash"
  PROVE  Unix(DirPart \o name) = Leads(cwd, Unix(name))
<1> DEFINE D == Swap(cwd, "slash", "back")
           B == DirPart \o name
           N == Swap(name, "back", "slash")
           U == Swap(B, "back", "slash")
           V == cwd \o <<"slash">> \o N
<1>1. PICK c \in Nat : c = Len(cwd) /\ c >= 1
  BY NameFacts
<1>2. PICK l \in Nat : l = Len(name) /\ (name # <<>> => l >= 1)
  BY NameFacts
<1>3. name \in Seq(Chars) /\ cwd \in Seq(DirChars)
  BY NameFacts
<1>4. /\ D \in Seq(DirChars \cup {"back"}) /\ Len(D) = c
      /\ \A k \in 1..c : D[k] = IF cwd[k] = "slash" THEN "back" ELSE cwd[k]
  BY <1>1, <1>3, SwapFacts
<1>5. \A k \in 1..c : cwd[k] \in DirChars
  BY <1>1, <1>3, ElementOfSeq
<1>6. DirPart = Append(D, "back")
  BY DEF DirPart
<1>7. /\ Len(DirPart) = c + 1 /\ DirPart[c + 1] = "back"
      /\ \A k \in 1..c : DirPart[k] = D[k]
  BY <1>4, <1>6, AppendProperties
<1>8. DirPart \in Seq(Chars) /\ B \in Seq(Chars) /\ Len(B) = c + 1 + l
  BY <1>1, <1>2, <1>7, DirFacts
<1>9. \A k \in 1..(c + 1 + l) : B[k] = IF k <= c + 1 THEN DirPart[k] ELSE name[k - (c + 1)]
  BY <1>2, <1>3, <1>7, <1>8, ConcatProperties
<1>10. ~HasDrive(B)
  <2>1. 1 \in 1..c /\ 1 \in 1..(c + 1 + l) /\ 1 <= c + 1
    BY <1>1, <1>2
  <2>2. B[1] = D[1]
    BY <1>7, <1>9, <2>1
  <2>3. D[1] # "drive"
    BY <1>4, <1>5, <2>1 DEF DirChars
  <2>4. QED BY <2>2, <2>3 DEF HasDrive
<1>11. Unix(B) = U
  BY <1>10 DEF Unix
<1>12. /\ U \in Seq(Chars) /\ Len(U) = c + 1 + l
       /\ \A k \in 1..(c + 1 + l) : U[k] = IF B[k] = "back" THEN "slash" ELSE B[k]
  <2> HIDE DEF B
  <2>1. c + 1 + l \in Nat
    OBVIOUS
  <2>2. QED BY <1>8, <2>1, TurnFacts
<1>13. Unix(name) = N
  BY DEF Unix, Relative
<1>14. /\ N \in Seq(Chars) /\ Len(N) = l
       /\ \A k \in 1..l : N[k] = IF name[k] = "back" THEN "slash" ELSE name[k]
  BY <1>2, <1>3, TurnFacts
<1>15. DirChars \subseteq Chars /\ "slash" \in Chars
  BY DEF Chars, DirChars
<1>16. cwd \in Seq(Chars)
  BY <1>3, <1>15, SeqMonotonic
<1>17. /\ cwd \o <<"slash">> \in Seq(Chars) /\ Len(cwd \o <<"slash">>) = c + 1
       /\ \A k \in 1..(c + 1) : (cwd \o <<"slash">>)[k] = IF k <= c THEN cwd[k] ELSE "slash"
  <2>1. cwd \o <<"slash">> = Append(cwd, "slash")
    BY <1>15, <1>16, AppendIsConcat
  <2>2. QED BY <1>1, <1>15, <1>16, <2>1, AppendProperties
<1>18. /\ V \in Seq(Chars) /\ Len(V) = c + 1 + l
       /\ \A k \in 1..(c + 1 + l) :
            V[k] = IF k <= c + 1 THEN (cwd \o <<"slash">>)[k] ELSE N[k - (c + 1)]
  <2>1. \A w \in Seq(Chars) : Len(w) = c + 1 =>
          /\ w \o N \in Seq(Chars) /\ Len(w \o N) = c + 1 + l
          /\ \A k \in 1..(c + 1 + l) : (w \o N)[k] = IF k <= c + 1 THEN w[k] ELSE N[k - (c + 1)]
    <3> HIDE DEF N
    <3> TAKE w \in Seq(Chars)
    <3> HAVE Len(w) = c + 1
    <3>1. /\ w \o N \in Seq(Chars)
          /\ Len(w \o N) = Len(w) + Len(N)
          /\ \A k \in 1..(Len(w) + Len(N)) : (w \o N)[k] = IF k <= Len(w) THEN w[k] ELSE N[k - Len(w)]
      BY <1>14, ConcatProperties
    <3>2. Len(w) = c + 1 /\ Len(N) = l
      BY <1>14
    <3>3. QED BY <3>1, <3>2
  <2>2. QED BY <1>17, <2>1
<1> HIDE DEF D, B, N, U, V
<1>19. ASSUME NEW k \in 1..(c + 1 + l) PROVE U[k] = V[k]
  <2>1. CASE k <= c
    <3>1. k \in 1..c /\ k \in 1..(c + 1) /\ k <= c + 1
      BY <2>1
    <3>2. B[k] = D[k] /\ V[k] = cwd[k]
      BY <1>7, <1>9, <1>17, <1>18, <2>1, <3>1
    <3>3. cwd[k] # "back" /\ D[k] = IF cwd[k] = "slash" THEN "back" ELSE cwd[k]
      BY <1>4, <1>5, <3>1 DEF DirChars
    <3>4. QED BY <1>12, <3>2, <3>3
  <2>2. CASE k = c + 1
    <3>1. B[k] = "back" /\ V[k] = "slash"
      BY <1>7, <1>9, <1>17, <1>18, <2>2
    <3>2. QED BY <1>12, <3>1
  <2>3. CASE k > c + 1
    <3>1. k - (c + 1) \in 1..l /\ ~(k <= c + 1)
      BY <2>3
    <3>2. B[k] = name[k - (c + 1)] /\ V[k] = N[k - (c + 1)]
      BY <1>9, <1>18, <3>1
    <3>3. QED BY <1>12, <1>14, <3>1, <3>2
  <2>4. QED BY <2>1, <2>2, <2>3
<1>20. U = V
  BY <1>12, <1>18, <1>19, SeqEqual
<1>21. ~(N # <<>> /\ N[1] = "slash")
  <2>1. CASE l = 0
    BY <1>14, <2>1, EmptySeq
  <2>2. CASE l # 0
    <3>1. name # <<>> /\ 1 \in 1..l
      BY <1>2, <2>2, EmptySeq
    <3>2. name[1] # "back" /\ name[1] # "slash"
      BY <3>1 DEF Relative
    <3>3. QED BY <1>14, <3>1, <3>2
  <2>3. QED BY <2>1, <2>2
<1>22. QED BY <1>11, <1>13, <1>20, <1>21 DEF Leads, B, V

\* The path of an answer leads to the file of the name.
LEMMA LeadsThere ==
  ASSUME PathTypes, Relative => cwd # <<>>, name = <<>> \/ name[1] # "slash"
  PROVE  Unix(DirPart \o name) = Leads(cwd, Unix(name))
<1>1. CASE Relative
  BY <1>1, LeadsFromDirectory
<1>2. CASE ~Relative
  <2>1. DirPart = <<>> /\ name \in Seq(Chars)
    BY <1>2, NameFacts DEF DirPart
  <2>2. DirPart \o name = name
    BY <2>1, ConcatEmptySeq
  <2>3. QED BY <1>2, <2>2, LeadsFromRoot
<1>3. QED BY <1>1, <1>2

-----------------------------------------------------------------------------
(* The properties.                                                         *)

\* GetFullPathNameA never writes behind the buffer, and its result tells an answer
\* from a refusal.
THEOREM BufferKept == FullSpec => []FullTypeOK
<1>1. PathInv => FullTypeOK
  BY DEF PathInv
<1>2. QED BY <1>1, PathInvariance, PTL

\* The path it stores leads to the file, and lpFilePart to its last component.
THEOREM RightFile == FullSpec => []SameFile
<1>1. PathInv => SameFile
  <2> SUFFICES ASSUME PathInv, buf # <<>>
               PROVE  SameFile
    BY DEF SameFile
  <2>1. PathTypes /\ buf \in Seq(Chars) /\ part = PartOf(buf)
    BY DEF PathInv, PathTypes, Answered
  <2>2. /\ part = 1 \/ buf[part - 1] = "back"
        /\ \A k \in part..Len(buf) : buf[k] # "back"
    BY <2>1, PartFacts
  <2>3. ASSUME same, name = <<>> \/ name[1] # "slash"
        PROVE  Unix(buf) = Leads(cwd, Unix(name))
    <3>1. buf = DirPart \o name /\ (Relative => cwd # <<>>)
      BY <2>3 DEF PathInv, Answered
    <3>2. QED BY <2>1, <2>3, <3>1, LeadsThere
  <2>4. QED BY <2>2, <2>3 DEF SameFile
<1>2. QED BY <1>1, PathInvariance, PTL

\* A second call, with the size that the first one asked for, is given the path.
THEOREM SecondFits == FullSpec => RetryFits
<1>1. PathInv /\ [FullNext]_fullVars
        => [Retry /\ same /\ cwd # <<>> => buf' # <<>>]_fullVars
  <2> SUFFICES ASSUME PathInv, Retry, same, cwd # <<>>
               PROVE  buf' # <<>>
    OBVIOUS
  <2>1. PathTypes /\ ret \in Nat /\ size \in Nat /\ GetFullPathName(ret)
    BY DEF PathInv, PathTypes, Retry
  <2>2. stage = "have" /\ ret > size
    BY DEF Retry
  <2>3. buf = <<>>
    BY <2>1, <2>2 DEF PathInv, FullTypeOK
  <2>4. ret = Need(size)
    BY <2>2, <2>3 DEF PathInv, Asked
  <2>5. ~NoDirectory(ret) /\ ~TooLong(ret)
    BY <2>1, <2>2, <2>4, AskedFits
  <2>6. buf' = DirPart \o name /\ DirPart \o name # <<>>
    BY <2>1, <2>5, PathCallFacts, SizeFacts
  <2>7. QED BY <2>6
<1>2. QED BY <1>1, PathInvariance, PTL DEF FullSpec, RetryFits

-----------------------------------------------------------------------------
(* The three together.                                                     *)

\* FindFile, FileHandles and FullPath share no variable: where a run follows one of
\* them it is a behaviour of all three, so that what is proved of each holds there.
THEOREM Together == SpecAll => Spec /\ HandleSpec /\ FullSpec
<1>1. InitAll => Init /\ HandleInit /\ FullInit
  BY DEF InitAll
<1>2. [NextAll]_<<follows, vars, handleVars, fullVars>> =>
        [Next]_vars /\ [HandleNext]_handleVars /\ [FullNext]_fullVars
  <2> SUFFICES ASSUME [NextAll]_<<follows, vars, handleVars, fullVars>>
               PROVE  [Next]_vars /\ [HandleNext]_handleVars /\ [FullNext]_fullVars
    OBVIOUS
  <2>1. CASE UNCHANGED <<follows, vars, handleVars, fullVars>>
    BY <2>1
  <2>2. CASE Next /\ UNCHANGED <<follows, handleVars, fullVars>>
    BY <2>2
  <2>3. CASE HandleNext /\ UNCHANGED <<follows, vars, fullVars>>
    BY <2>3
  <2>4. CASE FullNext /\ UNCHANGED <<follows, vars, handleVars>>
    BY <2>4
  <2>5. QED BY <2>1, <2>2, <2>3, <2>4 DEF NextAll
<1>3. QED BY <1>1, <1>2, PTL DEF SpecAll, Spec, HandleSpec, FullSpec

\* In every reachable state of the searches, the handles and the paths their types
\* and the bounds of their buffers hold.
THEOREM TypesHold == SpecAll => []TypesOK
<1>1. TypeOK /\ HandleTypeOK /\ FullTypeOK => TypesOK
  BY DEF TypesOK
<1>2. QED BY <1>1, Together, TypeCorrect, HandlesOwned, BufferKept, PTL

=============================================================================
