----------------------------- MODULE MappedOpen -----------------------------
(***************************************************************************)
(* How mq_open of my_pxmsg_mmap/ and sem_open of my_pxsem_mmap/ create a    *)
(* memory-mapped file once and make the other callers wait until it is      *)
(* initialized.  The file is created with O_EXCL and the user-execute bit,  *)
(* and its creator turns the bit off when it has initialized the file; the  *)
(* others look at the bit with stat, up to MAX_TRIES times.                 *)
(*                                                                         *)
(* A step is one system call and the computation after it.  The file that   *)
(* a process created or opened and the file that the pathname denotes are   *)
(* told apart: files are numbered in the order in which they are created.   *)
(* A process makes one call of mq_open or sem_open, may be killed in it,    *)
(* and other processes may remove the pathname.                             *)
(***************************************************************************)
EXTENDS Naturals, FiniteSets

CONSTANTS Procs,
          MAX_TRIES,
          MaxUnlinks,   \* bound: calls of mq_unlink or sem_unlink
          MaxFailures,  \* bound: calls of the system that fail
          Mortal        \* the processes that may be killed

ASSUME MappedOpenAssumption ==
  /\ MAX_TRIES \in Nat \ {0}
  /\ MaxUnlinks \in Nat
  /\ MaxFailures \in Nat
  /\ Mortal \subseteq Procs

\* Bound: a file for the first caller, and one for each time that the name can
\* go.
Files == 1..(MaxUnlinks + MaxFailures + 1)

NoFile == 0

Flags == {"open", "creat", "excl"}   \* 0, O_CREAT, O_CREAT | O_EXCL

VARIABLES path,      \* the file that pathname denotes
          nfiles,    \* how many files were created
          content,   \* how far each file is initialized
          xbit,      \* S_IXUSR of each file
          magic,     \* sem_magic = SEM_MAGIC in each file
          pc,        \* where each process is
          kind,      \* which function is called: "mq" mq_open, "sem" sem_open
          oflag,
          created,   \* the variable created of each process
          fd,        \* the file of the variable fd of each process
          fds,       \* the files each process has open
          maps,      \* the files each process has mapped
          tries,     \* the variable i of the wait loop
          handle,    \* the file of the handle each process got
          unlinks, failures

files == <<path, nfiles, content, xbit, magic>>
args == <<kind, oflag>>
local == <<args, created, fd, fds, maps, tries, handle>>
bounds == <<unlinks, failures>>
vars == <<files, pc, local, bounds>>

Init ==
  /\ path = NoFile
  /\ nfiles = 0
  /\ content = [f \in Files |-> "empty"]
  /\ xbit = [f \in Files |-> FALSE]
  /\ magic = [f \in Files |-> FALSE]
  /\ pc = [p \in Procs |-> "again"]
  /\ kind \in {"mq", "sem"}
  /\ oflag \in [Procs -> Flags]
  /\ created = [p \in Procs |-> FALSE]
  /\ fd = [p \in Procs |-> NoFile]
  /\ fds = [p \in Procs |-> {}]
  /\ maps = [p \in Procs |-> {}]
  /\ tries = [p \in Procs |-> 0]
  /\ handle = [p \in Procs |-> NoFile]
  /\ unlinks = 0
  /\ failures = 0

Goto(p, label) == pc' = [pc EXCEPT ![p] = label]

Close(p) == fds' = [fds EXCEPT ![p] = @ \ {fd[p]}]

Fails == failures < MaxFailures /\ failures' = failures + 1

-----------------------------------------------------------------------------
\* again: without O_CREAT, go on to open the file.
NoCreate(p) ==
  /\ pc[p] = "again" /\ oflag[p] = "open"
  /\ Goto(p, "exists")
  /\ UNCHANGED <<files, local, bounds>>

\* Mutant: the file is created without the user-execute bit.
CreateNoBit(p) ==
  /\ pc[p] = "again" /\ oflag[p] # "open"
  /\ path = NoFile
  /\ nfiles + 1 \in Files
  /\ nfiles' = nfiles + 1
  /\ path' = nfiles + 1
  /\ created' = [created EXCEPT ![p] = TRUE]
  /\ fd' = [fd EXCEPT ![p] = nfiles + 1]
  /\ fds' = [fds EXCEPT ![p] = @ \union {nfiles + 1}]
  /\ Goto(p, "size")
  /\ UNCHANGED <<content, xbit, magic, args, maps, tries, handle, bounds>>

\* open with O_CREAT | O_EXCL and the user-execute bit
Create(p) ==
  /\ pc[p] = "again" /\ oflag[p] # "open"
  /\ path = NoFile
  /\ nfiles + 1 \in Files
  /\ nfiles' = nfiles + 1
  /\ path' = nfiles + 1
  /\ xbit' = [xbit EXCEPT ![nfiles + 1] = TRUE]
  /\ created' = [created EXCEPT ![p] = TRUE]
  /\ fd' = [fd EXCEPT ![p] = nfiles + 1]
  /\ fds' = [fds EXCEPT ![p] = @ \union {nfiles + 1}]
  /\ Goto(p, "size")
  /\ UNCHANGED <<content, magic, args, maps, tries, handle, bounds>>

\* The same when it fails with EEXIST.
CreateExists(p) ==
  /\ pc[p] = "again" /\ oflag[p] # "open"
  /\ path # NoFile
  /\ Goto(p, IF oflag[p] = "excl" THEN "failed" ELSE "exists")
  /\ UNCHANGED <<files, local, bounds>>

\* lseek and write: the file gets its size.
SetSize(p) ==
  /\ pc[p] = "size"
  /\ content' = [content EXCEPT ![fd[p]] = "zero"]
  /\ Goto(p, "mmap")
  /\ UNCHANGED <<path, nfiles, xbit, magic, local, bounds>>

MapNew(p) ==
  /\ pc[p] = "mmap"
  /\ maps' = [maps EXCEPT ![p] = @ \union {fd[p]}]
  /\ Goto(p, "init")
  /\ UNCHANGED <<files, args, created, fd, fds, tries, handle, bounds>>

\* The header and the lists, or the value; the mutex and the condition variable.
Initialize(p) ==
  /\ pc[p] = "init"
  /\ content' = [content EXCEPT ![fd[p]] = "initialized"]
  /\ Goto(p, "chmod")
  /\ UNCHANGED <<path, nfiles, xbit, magic, local, bounds>>

\* fchmod, then close; sem_open still has to set the magic number.
TurnOffBit(p) ==
  /\ pc[p] = "chmod"
  /\ xbit' = [xbit EXCEPT ![fd[p]] = FALSE]
  /\ Close(p)
  /\ handle' = [handle EXCEPT ![p] = fd[p]]
  /\ Goto(p, IF kind = "mq" THEN "open" ELSE "magic")
  /\ UNCHANGED <<path, nfiles, content, magic, args, created, fd, maps, tries, bounds>>

SetMagic(p) ==
  /\ pc[p] = "magic"
  /\ magic' = [magic EXCEPT ![handle[p]] = TRUE]
  /\ Goto(p, "open")
  /\ UNCHANGED <<path, nfiles, content, xbit, local, bounds>>

\* A call that the creator makes before fchmod, or fchmod, fails.
CreatorFails(p) ==
  /\ pc[p] \in {"size", "mmap", "init", "chmod"}
  /\ Fails
  /\ Goto(p, "err")
  /\ UNCHANGED <<files, local, unlinks>>

-----------------------------------------------------------------------------
\* exists: open without O_CREAT; sem_open maps the file at once.
OpenExisting(p) ==
  /\ pc[p] = "exists"
  /\ path # NoFile
  /\ fd' = [fd EXCEPT ![p] = path]
  /\ fds' = [fds EXCEPT ![p] = @ \union {path}]
  /\ maps' = IF kind = "sem" THEN [maps EXCEPT ![p] = @ \union {path}] ELSE maps
  /\ tries' = [tries EXCEPT ![p] = 0]
  /\ Goto(p, "stat")
  /\ UNCHANGED <<files, args, created, handle, bounds>>

\* The same when it fails with ENOENT.
OpenNone(p) ==
  /\ pc[p] = "exists"
  /\ path = NoFile
  /\ Goto(p, IF oflag[p] = "creat" THEN "again" ELSE "err")
  /\ UNCHANGED <<files, local, bounds>>

\* Mutant: the descriptor is not closed before the next attempt.
StatNoneKeeps(p) ==
  /\ pc[p] = "stat" /\ tries[p] < MAX_TRIES
  /\ path = NoFile
  /\ Goto(p, IF oflag[p] = "creat" THEN "again" ELSE "err")
  /\ UNCHANGED <<files, local, bounds>>

\* stat fails with ENOENT
StatNone(p) ==
  /\ pc[p] = "stat" /\ tries[p] < MAX_TRIES
  /\ path = NoFile
  /\ IF oflag[p] = "creat"
     THEN Goto(p, "again") /\ Close(p)
     ELSE Goto(p, "err") /\ UNCHANGED fds
  /\ UNCHANGED <<files, args, created, fd, maps, tries, handle, bounds>>

\* Mutant: one try too many.
StatBusyOneMore(p) ==
  /\ pc[p] = "stat" /\ tries[p] <= MAX_TRIES
  /\ path # NoFile /\ xbit[path]
  /\ tries' = [tries EXCEPT ![p] = @ + 1]
  /\ UNCHANGED <<files, pc, args, created, fd, fds, maps, handle, bounds>>

\* Mutant: the tries are not counted.
StatBusyForever(p) ==
  /\ pc[p] = "stat" /\ tries[p] < MAX_TRIES
  /\ path # NoFile /\ xbit[path]
  /\ UNCHANGED vars

\* stat finds the bit on; sleep
StatBusy(p) ==
  /\ pc[p] = "stat" /\ tries[p] < MAX_TRIES
  /\ path # NoFile /\ xbit[path]
  /\ tries' = [tries EXCEPT ![p] = @ + 1]
  /\ UNCHANGED <<files, pc, args, created, fd, fds, maps, handle, bounds>>

\* stat finds the bit off: mq_open goes on to mmap, sem_open is done.
StatReady(p) ==
  /\ pc[p] = "stat" /\ tries[p] < MAX_TRIES
  /\ path # NoFile /\ ~xbit[path]
  /\ IF kind = "mq"
     THEN /\ Goto(p, "map")
          /\ UNCHANGED <<magic, fds, handle>>
     ELSE /\ Goto(p, "open")
          /\ magic' = [magic EXCEPT ![fd[p]] = TRUE]
          /\ handle' = [handle EXCEPT ![p] = fd[p]]
          /\ Close(p)
  /\ UNCHANGED <<path, nfiles, content, xbit, args, created, fd, maps, tries, bounds>>

\* ETIMEDOUT
TimedOut(p) ==
  /\ pc[p] = "stat" /\ tries[p] = MAX_TRIES
  /\ Goto(p, "err")
  /\ UNCHANGED <<files, local, bounds>>

\* mq_open: mmap, close, and a handle
MapExisting(p) ==
  /\ pc[p] = "map"
  /\ maps' = [maps EXCEPT ![p] = @ \union {fd[p]}]
  /\ handle' = [handle EXCEPT ![p] = fd[p]]
  /\ Close(p)
  /\ Goto(p, "open")
  /\ UNCHANGED <<files, args, created, fd, tries, bounds>>

\* mq_open: mmap or, with the file mapped and closed, malloc fails
MapFails(p) ==
  /\ pc[p] = "map"
  /\ Fails
  /\ \/ UNCHANGED <<maps, fds>>
     \/ /\ maps' = [maps EXCEPT ![p] = @ \union {fd[p]}]
        /\ Close(p)
  /\ Goto(p, "err")
  /\ UNCHANGED <<files, args, created, fd, tries, handle, unlinks>>

\* Mutant: any caller removes the pathname.
ErrAny(p) ==
  /\ pc[p] = "err"
  /\ path' = NoFile
  /\ maps' = [maps EXCEPT ![p] = {f \in @ : \E g \in @ : g > f}]
  /\ Close(p)
  /\ Goto(p, "failed")
  /\ UNCHANGED <<nfiles, content, xbit, magic, args, created, fd, tries, handle, bounds>>

\* err: the creator removes the pathname; munmap and close.  The file that is
\* unmapped is the one mapped last.
Err(p) ==
  /\ pc[p] = "err"
  /\ path' = IF created[p] THEN NoFile ELSE path
  /\ maps' = [maps EXCEPT ![p] = {f \in @ : \E g \in @ : g > f}]
  /\ Close(p)
  /\ Goto(p, "failed")
  /\ UNCHANGED <<nfiles, content, xbit, magic, args, created, fd, tries, handle, bounds>>

-----------------------------------------------------------------------------
\* mq_unlink, sem_unlink
Unlink ==
  /\ path # NoFile
  /\ unlinks < MaxUnlinks
  /\ unlinks' = unlinks + 1
  /\ path' = NoFile
  /\ UNCHANGED <<nfiles, content, xbit, magic, pc, local, failures>>

\* A process is killed inside mq_open or sem_open.
Die(p) ==
  /\ p \in Mortal
  /\ pc[p] \notin {"open", "failed", "dead"}
  /\ Goto(p, "dead")
  /\ UNCHANGED <<files, local, bounds>>

Step(p) ==
  \/ NoCreate(p) \/ Create(p) \/ CreateExists(p)
  \/ SetSize(p) \/ MapNew(p) \/ Initialize(p) \/ TurnOffBit(p) \/ SetMagic(p)
  \/ OpenExisting(p) \/ OpenNone(p) \/ StatNone(p) \/ StatBusy(p)
  \/ StatReady(p) \/ TimedOut(p) \/ MapExisting(p) \/ Err(p)

Next ==
  \/ \E p \in Procs : Step(p) \/ CreatorFails(p) \/ MapFails(p) \/ Die(p)
  \/ Unlink

\* Every process that was not killed goes on; nothing else has to happen.
Spec == Init /\ [][Next]_vars /\ \A p \in Procs : WF_vars(Step(p))

-----------------------------------------------------------------------------
TypeOK ==
  /\ path \in Files \union {NoFile}
  /\ nfiles \in 0..Cardinality(Files)
  /\ content \in [Files -> {"empty", "zero", "initialized"}]
  /\ xbit \in [Files -> BOOLEAN]
  /\ magic \in [Files -> BOOLEAN]
  /\ pc \in [Procs -> {"again", "size", "mmap", "init", "chmod", "magic", "exists",
                       "stat", "map", "err", "open", "failed", "dead"}]
  /\ kind \in {"mq", "sem"}
  /\ oflag \in [Procs -> Flags]
  /\ created \in [Procs -> BOOLEAN]
  /\ fd \in [Procs -> Files \union {NoFile}]
  /\ fds \in [Procs -> SUBSET Files]
  /\ maps \in [Procs -> SUBSET Files]
  /\ tries \in [Procs -> 0..MAX_TRIES]
  /\ handle \in [Procs -> Files \union {NoFile}]
  /\ unlinks \in 0..MaxUnlinks
  /\ failures \in 0..MaxFailures

Open(p) == pc[p] = "open"

\* A handle is for an initialized file.
HandleReady == \A p \in Procs : Open(p) => content[handle[p]] = "initialized"

\* The same for the handles of the file that still has the name.
LinkedHandleReady ==
  \A p \in Procs : Open(p) /\ handle[p] = path => content[path] = "initialized"

\* The file of a handle that sem_open returned has the magic number, whether or
\* not its creator has set it yet.
MagicSet == kind = "sem" => \A p \in Procs : Open(p) => magic[handle[p]]

\* As long as nobody calls mq_unlink or sem_unlink, a name goes away only in the
\* err part of the call that made it.
FailureRemovesOwn ==
  [][path # NoFile /\ path' # path /\ unlinks' = 0 =>
       \E p \in Procs : pc[p] = "err" /\ created[p] /\ fd[p] = path]_vars

\* A call of mq_open that returns has closed the file, and keeps no mapping but
\* that of the handle it returns.  The variables have their types.
ResourcesReleased ==
  /\ TypeOK
  /\ kind = "mq" => \A p \in Procs :
       /\ pc[p] \in {"open", "failed"} => fds[p] = {}
       /\ Open(p) => maps[p] = {handle[p]}
       /\ pc[p] = "failed" => maps[p] = {}

\* Every call returns, also when the process that creates the file was killed.
OpenReturns == \A p \in Procs : <>(pc[p] \in {"open", "failed", "dead"})
=============================================================================
