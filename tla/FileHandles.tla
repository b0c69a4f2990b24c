---------------------------- MODULE FileHandles ----------------------------
(***************************************************************************)
(* The file calls of dlls/kernel32.c on top of open, close, read, write    *)
(* and lseek: a handle is a descriptor plus one, so that no file has the   *)
(* handle 0, which an open that failed returns.  The program's calls keep  *)
(* the contract of Windows: a handle is not used after it was closed.      *)
(*                                                                         *)
(* The kernel is external: it takes the lowest descriptor that is free,    *)
(* for the directory of FindFirstFileA too, and may write less than asked. *)
(***************************************************************************)
EXTENDS Integers, Sequences

CONSTANTS
  FileNames,         \* names of files
  Dispositions,  \* what CreateFileA is asked to do with a file
  Accesses,      \* and how it wants to use it
  MaxFiles,      \* files that are named or open, a bound of the model
  MaxFd,         \* descriptors the kernel has, a bound of the model
  MaxLen         \* length of a file, a bound of the model

ASSUME HandleAssumption ==
  /\ MaxFd \in Nat /\ MaxFd > 2 /\ MaxLen \in Nat /\ MaxFiles \in Nat
  /\ Dispositions \subseteq Nat /\ Accesses \subseteq {"read", "write", "both", "other"}

Bytes == {1}
Files == 1..MaxFiles       \* what a name or a descriptor leads to

VARIABLES
  fds,     \* the descriptors: "file" with a file, a position and an access,
           \* "console", "directory" or "free"
  names,   \* the file under each name, 0 where there is none
  data,    \* what is in the files
  held,    \* the handles the program has from CreateFileA and not closed
  answer,  \* what the last call was and what it returned
  pc       \* "run", or "exit" after DIE

handleVars == <<fds, names, data, held, answer, pc>>

Unused    == [kind |-> "free"]
Console == [kind |-> "console"]
IsFile(d) == d \in DOMAIN fds /\ fds[d].kind = "file"
NoBytes == <<>>
Answer(call, h, ok, n, bytes) ==
  answer' = [call |-> call, h |-> h, ok |-> ok, n |-> n, bytes |-> bytes]
Fail(call, h) == Answer(call, h, FALSE, 0, NoBytes)

HandleInit ==
  /\ fds = [d \in 0..MaxFd |-> IF d <= 2 THEN Console ELSE Unused]
  /\ names = [n \in FileNames |-> 0]
  /\ data = [f \in Files |-> <<>>]
  /\ held = {}
  /\ answer = [call |-> "none", h |-> 0, ok |-> TRUE, n |-> 0, bytes |-> NoBytes]
  /\ pc = "run"

\* The files a name or a descriptor leads to.
Kept(f, nm, fd) == \/ \E n \in FileNames : nm[n] = f
                   \/ \E d \in DOMAIN fd : fd[d].kind = "file" /\ fd[d].file = f
InUse == {f \in Files : Kept(f, names, fds)}

\* The program's view: the handles that lead to files, and those of the console.
OpenHandles == {d + 1 : d \in {e \in DOMAIN fds : IsFile(e)}}
OpenNow     == [h \in OpenHandles |-> [file |-> fds[h - 1].file, at |-> fds[h - 1].at]]
ConsoleNow  == {h \in 1..3 : fds[h - 1] = Console}

Files32 == INSTANCE Win32Files WITH open <- OpenNow, kept <- InUse, console <- ConsoleNow

-----------------------------------------------------------------------------
(* CreateFileA, DeleteFileA.                                               *)

\* The flags of open for dispositions 1 to 5; behind the table is anything.
Flag(c, e, t) == [creat |-> c, excl |-> e, trunc |-> t]
Table == <<Flag(TRUE, TRUE, FALSE), Flag(TRUE, FALSE, TRUE), Flag(FALSE, FALSE, FALSE),
           Flag(TRUE, FALSE, FALSE), Flag(FALSE, FALSE, TRUE)>>
Flags(disp) == IF disp \in DOMAIN Table THEN {Table[disp]}
               ELSE [creat : BOOLEAN, excl : BOOLEAN, trunc : BOOLEAN]

\* What CreateFileA may be asked for.
Requests == [disp : Dispositions, access : Accesses]
Supported(disp, access) == disp # 0 /\ disp <= 6 /\ access # "other"

FreeFds  == {d \in DOMAIN fds : fds[d] = Unused}
LowestFd == CHOOSE d \in FreeFds : \A e \in FreeFds : d <= e
NewFile  == CHOOSE f \in Files \ InUse : TRUE

\* Mutant: the handle is the descriptor.
HandleOfBare(d) == d
HandleOf(d) == d + 1

CreateFile(n, disp, access) ==
  /\ pc = "run" /\ Supported(disp, access) /\ FreeFds # {}
  /\ names[n] # 0 \/ Files # InUse
  /\ \E fl \in Flags(disp) :
       /\ IF names[n] = 0 THEN fl.creat ELSE ~(fl.creat /\ fl.excl)
       /\ LET f == IF names[n] = 0 THEN NewFile ELSE names[n]
          IN  /\ names' = [names EXCEPT ![n] = f]
              /\ data' = IF fl.trunc \/ names[n] = 0 THEN [data EXCEPT ![f] = <<>>] ELSE data
              /\ fds' = [fds EXCEPT ![LowestFd] =
                           [kind |-> "file", file |-> f, at |-> 0, access |-> access]]
  /\ held' = held \cup {HandleOf(LowestFd)}
  /\ Answer("open", 0, TRUE, HandleOf(LowestFd), NoBytes)
  /\ UNCHANGED pc

\* open fails: there or not there as the flags have it, no descriptor, or any
\* other reason.
CreateFails ==
  /\ pc = "run" /\ {q \in Requests : Supported(q.disp, q.access)} # {}
  /\ Fail("open", 0)
  /\ UNCHANGED <<fds, names, data, held, pc>>

CreateDies ==
  /\ pc = "run" /\ {q \in Requests : ~Supported(q.disp, q.access)} # {}
  /\ Fail("open", 0)
  /\ pc' = "exit"
  /\ UNCHANGED <<fds, names, data, held>>

\* A file with neither name nor descriptor is gone.
Left(nm, fd) == [f \in Files |-> IF Kept(f, nm, fd) THEN data[f] ELSE <<>>]

DeleteFile(n) ==
  /\ pc = "run" /\ names[n] # 0
  /\ names' = [names EXCEPT ![n] = 0]
  /\ data' = Left(names', fds)
  /\ Answer("delete", 0, TRUE, 0, NoBytes)
  /\ UNCHANGED <<fds, held, pc>>

-----------------------------------------------------------------------------
(* Calls with a handle: one the program has, or the 0 of a failed open.    *)

Handles == held \cup {0}
Fd(h)   == h - 1
File(h) == fds[Fd(h)].file
At(h)   == fds[Fd(h)].at
May(h, access) == IsFile(Fd(h)) /\ fds[Fd(h)].access \in {access, "both"}

WriteFile(h, b, count) ==
  /\ pc = "run" /\ May(h, "write") /\ count <= Len(b) /\ At(h) + count <= MaxLen
  /\ data' = [data EXCEPT ![File(h)] = Files32!Put(@, At(h), SubSeq(b, 1, count))]
  /\ fds' = [fds EXCEPT ![Fd(h)].at = @ + count]
  /\ Answer("write", h, TRUE, count, NoBytes)
  /\ UNCHANGED <<names, held, pc>>

\* The bytes there are from the position on, not more than n.
Got(h, n) == LET s == data[File(h)] IN SubSeq(s, At(h) + 1, IF At(h) + n > Len(s) THEN Len(s) ELSE At(h) + n)

ReadFile(h, n) ==
  /\ pc = "run" /\ May(h, "read")
  /\ fds' = [fds EXCEPT ![Fd(h)].at = @ + Len(Got(h, n))]
  /\ Answer("read", h, TRUE, Len(Got(h, n)), Got(h, n))
  /\ UNCHANGED <<names, data, held, pc>>

\* From the start, from where it is, from the end.
Bases(h) == {0, At(h), Len(data[File(h)])}

SetFilePointer(h, p) ==
  /\ pc = "run" /\ IsFile(Fd(h)) /\ {p - 1, p, p + 1} \cap Bases(h) # {}
  /\ fds' = [fds EXCEPT ![Fd(h)].at = p]
  /\ Answer("move", h, TRUE, p, NoBytes)
  /\ UNCHANGED <<names, data, held, pc>>

\* -1 from the kernel: not a file, not allowed, no room, before the start.
CallFails(h) ==
  /\ pc = "run"
  /\ Fail("failed", h)
  /\ UNCHANGED <<fds, names, data, held, pc>>

\* lpOverlapped, lpDistanceToMoveHigh, lpFileSizeHigh; DuplicateHandle of anything
\* but the three.
CallDies ==
  /\ pc = "run"
  /\ Fail("failed", 0)
  /\ pc' = "exit"
  /\ UNCHANGED <<fds, names, data, held>>

\* Mutant: the three are closed too.
ClosesAll(h)  == h > 0
Closes(h)     == h > 3

\* A handle of a file, or one of the console: what GetStdHandle and DuplicateHandle
\* return is the same handle again, and each is closed.
CloseHandle(h) ==
  /\ pc = "run"
  /\ fds' = IF Closes(h) THEN [fds EXCEPT ![Fd(h)] = Unused] ELSE fds
  /\ held' = held \ {h}
  /\ data' = Left(names, fds')
  /\ Answer("close", h, ~Closes(h) \/ fds[Fd(h)] # Unused, 0, NoBytes)
  /\ UNCHANGED <<names, pc>>

\* A search of FindFirstFileA holds a descriptor too, and gives it back.
OpenDirectory ==
  /\ pc = "run" /\ FreeFds # {} /\ \A d \in DOMAIN fds : fds[d].kind # "directory"
  /\ fds' = [fds EXCEPT ![LowestFd] = [kind |-> "directory"]]
  /\ UNCHANGED <<names, data, held, answer, pc>>

CloseDirectory ==
  /\ pc = "run"
  /\ \E d \in DOMAIN fds : fds[d].kind = "directory" /\ fds' = [fds EXCEPT ![d] = Unused]
  /\ UNCHANGED <<names, data, held, answer, pc>>

HandleNext ==
  \/ \E n \in FileNames :
       \/ \E disp \in Dispositions, access \in Accesses : CreateFile(n, disp, access)
       \/ DeleteFile(n)
  \/ CreateFails \/ CreateDies
  \/ \E h \in Handles :
       \/ \E count \in 0..2 : WriteFile(h, <<1, 1>>, count)
       \/ \E n \in 1..2 : ReadFile(h, n)
       \/ \E p \in 0..MaxLen : SetFilePointer(h, p)
       \/ CallFails(h)
  \/ \E h \in Handles \cup {1, 2, 3} : CloseHandle(h)
  \/ OpenDirectory \/ CloseDirectory \/ CallDies

HandleSpec == HandleInit /\ [][HandleNext]_handleVars

-----------------------------------------------------------------------------
(* Properties.                                                             *)

\* A handle the program has is that of a file that is open, and every open file
\* has one: none is lost, none is closed under it (kernel32.c:265-272, 479).
HandleTypeOK ==
  /\ pc \in {"run", "exit"}
  /\ \A n \in FileNames : names[n] \in Files \cup {0}
  /\ \A f \in Files : Len(data[f]) <= MaxLen /\ (data[f] # <<>> => f \in InUse)
  /\ \A h \in held : IsFile(h - 1)
  /\ \A d \in DOMAIN fds : IsFile(d) => d + 1 \in held

\* What the program sees of its files is what Windows promises: the handles in use
\* are its own, each with its own position, the counts are those of the bytes that
\* were moved, a call with the 0 of an open that failed changes nothing, and the
\* console stays when its duplicates are closed (kernel32.c:42-46, 269, 409-479).
AsOnWindows == Files32!Spec

\* Only what the table has flags for is opened: anything else is not supported, and
\* the program ends (kernel32.c:451-458).
UnsupportedDies ==
  [][\A disp \in Dispositions, access \in Accesses, n \in FileNames :
       CreateFile(n, disp, access) => disp \in DOMAIN Table]_handleVars

=============================================================================
