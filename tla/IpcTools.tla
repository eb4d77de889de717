------------------------------ MODULE IpcTools ------------------------------
(***************************************************************************)
(* The commands that create, use and remove an IPC object from a shell:     *)
(* msgcreate, msgsnd, msgrcv, msgrcvid and msgrmid of svmsg; semcreate,     *)
(* semgetvalues, semsetvalues, semops, semopsid and semrmid of svsem;       *)
(* shmget, shmwrite, shmread, shmreadid and shmrmid of svshm; shmcreate,    *)
(* shmwrite, shmread and shmunlink of pxshm; semcreate, semwait, sempost,   *)
(* semgetvalue and semunlink of pxsem; mqcreate, mqsend, mqreceive,         *)
(* mqgetattr and mqunlink of pxmsg and of my_pxmsg_mmap.  Two run at a time *)
(* and work on one name.                                                    *)
(*                                                                         *)
(* A command looks the name up and then works on the object it found, one   *)
(* system call per step.  The objects that the name had are numbered; a     *)
(* System V object that was removed is gone for everybody, a Posix object   *)
(* lives on for those who have it open.  The memory is in pages: a page has *)
(* the pattern that shmwrite writes (1) or not (0).                         *)
(***************************************************************************)
EXTENDS Integers, Sequences, SequencesExt, FiniteSets, FiniteSetsExt

CONSTANTS Shells, MaxCommands, MaxObjects, MaxPages, MsgTypes

ASSUME IpcToolsAssumption ==
  {MaxCommands, MaxObjects, MaxPages} \subseteq Nat /\ MsgTypes \subseteq Nat \ {0}

VARIABLES kkind,      \* the kind of object, or "none"
          kname,      \* the object the name denotes, or 0
          knext,      \* objects made so far
          kdata,      \* messages, values or pages of each object
          kgone,      \* the System V objects removed
          kproc,      \* the command each shell runs
          kcmds,      \* commands started
          ksent, kgot, \* messages, by type
          knet,       \* the value of each semaphore had SEM_UNDO not been used
          kclipped    \* an adjustment at exit would have made a value negative

toolVars == <<kkind, kname, knext, kdata, kgone, kproc, kcmds, ksent, kgot, knet, kclipped>>
histVars == <<ksent, kgot, knet, kclipped>>

SysV == {"msg", "sem", "shm"}
Objects == 1..MaxObjects

\* A shell at its prompt.  done is "ok", "error" or "killed"; page counts the pages done of size;
\* clean: the whole object has had the pattern, and its size, since the lookup.
Prompt == [tool |-> "none", obj |-> 0, arg |-> 0, nowait |-> FALSE, undo |-> FALSE, size |-> 0, page |-> 0,
           clean |-> FALSE, mismatch |-> FALSE, done |-> "ok"]

ToolsInit ==
  /\ kkind \in SysV \cup {"pxshm", "pxsem", "mq", "mymq", "none"}
  /\ kname = 0 /\ knext = 0
  /\ kdata = [o \in Objects |-> <<>>]
  /\ kgone = {}
  /\ kproc = [p \in Shells |-> Prompt]
  /\ kcmds = (IF kkind = "none" THEN MaxCommands ELSE 0)
  /\ ksent = [t \in MsgTypes |-> 0] /\ kgot = [t \in MsgTypes |-> 0]
  /\ knet = [o \in Objects |-> 0]
  /\ kclipped = FALSE

Ready(p) == kproc[p].tool = "none" /\ kcmds < MaxCommands

Runs(p, t) == kproc[p].tool = t

Exit(p, how) == kproc' = [kproc EXCEPT ![p] = [Prompt EXCEPT !.done = how, !.mismatch = kproc[p].mismatch,
                                                             !.clean = kproc[p].clean]]

\* The object is usable by one that looked it up.
Usable(o) == kkind \in SysV => o \notin kgone

Pattern(o) == \A i \in DOMAIN kdata[o] : kdata[o][i] = 1

\* A command at work on the object o
Command(t, o, a, nowait, undo) ==
  [Prompt EXCEPT !.tool = t, !.obj = o, !.arg = a, !.nowait = nowait, !.undo = undo,
                 !.size = Len(kdata[o]), !.clean = kkind \in {"shm", "pxshm"} /\ Pattern(o)]

\* Calls that look the name up: the object, or ENOENT
Open(p, t, a, nowait, undo) ==
  /\ Ready(p)
  /\ kcmds' = kcmds + 1
  /\ IF kname = 0
     THEN Exit(p, "error")
     ELSE kproc' = [kproc EXCEPT ![p] = Command(t, kname, a, nowait, undo)]
  /\ UNCHANGED <<kkind, kname, knext, kdata, kgone, histVars>>

\* The commands that take an identifier, which may be of an object that is gone.
OpenId(p, t, a, nowait, undo) ==
  /\ Ready(p)
  /\ kcmds' = kcmds + 1
  /\ \E o \in 1..knext : kproc' = [kproc EXCEPT ![p] = Command(t, o, a, nowait, undo)]
  /\ UNCHANGED <<kkind, kname, knext, kdata, kgone, histVars>>

\* Calls that create: with the exclusive flag an existing object is an error.
Create(p, excl, data) ==
  /\ Ready(p)
  /\ kcmds' = kcmds + 1
  /\ IF kname # 0
     THEN Exit(p, IF excl THEN "error" ELSE "ok") /\ UNCHANGED <<kname, knext, kdata, knet>>
     ELSE /\ knext < MaxObjects
          /\ knext' = knext + 1 /\ kname' = knext + 1
          /\ kdata' = [kdata EXCEPT ![knext + 1] = data]
          /\ knet' = [knet EXCEPT ![knext + 1] = IF data = <<>> THEN 0 ELSE data[1]]
          /\ Exit(p, "ok")
  /\ UNCHANGED <<kkind, kgone, ksent, kgot, kclipped>>

\* IPC_RMID of the object that was looked up
Rm(p) ==
  /\ IF Usable(kproc[p].obj)
     THEN /\ kgone' = kgone \cup {kproc[p].obj}
          /\ kname' = (IF kname = kproc[p].obj THEN 0 ELSE kname)
          /\ Exit(p, "ok")
     ELSE Exit(p, "error") /\ UNCHANGED <<kgone, kname>>
  /\ UNCHANGED <<kkind, knext, kdata, kcmds, histVars>>

\* Unlink takes the name away; the object stays.
Unlink(p) ==
  /\ Ready(p)
  /\ kcmds' = kcmds + 1
  /\ kname' = 0
  /\ Exit(p, IF kname = 0 THEN "error" ELSE "ok")
  /\ UNCHANGED <<kkind, knext, kdata, kgone, histVars>>

Fails(p) == Exit(p, "error") /\ UNCHANGED <<kkind, kname, knext, kdata, kgone, kcmds, histVars>>

-----------------------------------------------------------------------------
(***************************************************************************)
(* Messages                                                                 *)
(***************************************************************************)
\* The position at which mq_send inserts: after those of the same or a higher priority
PrioAt(q, prio) == 1 + Cardinality({i \in DOMAIN q : q[i] >= prio})

\* msgsnd and mq_send
SendStep(p) ==
  /\ Runs(p, "send")
  /\ LET o == kproc[p].obj
         t == kproc[p].arg IN
     IF ~Usable(o) THEN Fails(p)
     ELSE /\ kdata' = [kdata EXCEPT ![o] = IF kkind = "msg" THEN Append(@, t) ELSE InsertAt(@, PrioAt(@, t), t)]
          /\ ksent' = [ksent EXCEPT ![t] = @ + 1]
          /\ Exit(p, "ok")
          /\ UNCHANGED <<kkind, kname, knext, kgone, kcmds, kgot, knet, kclipped>>

\* The messages msgrcv can take: of the type asked for, or any for 0
Matching(p) == {i \in DOMAIN kdata[kproc[p].obj] : kproc[p].arg \in {0, kdata[kproc[p].obj][i]}}

\* Mutant: a message is shown and stays in the queue.
ReceiveStepStays(p) ==
  /\ Runs(p, "receive") /\ Usable(kproc[p].obj) /\ Matching(p) # {}
  /\ kgot' = [kgot EXCEPT ![kdata[kproc[p].obj][Min(Matching(p))]] = @ + 1]
  /\ Exit(p, "ok")
  /\ UNCHANGED <<kkind, kname, knext, kdata, kgone, kcmds, ksent, knet, kclipped>>

\* msgrcv and mq_receive: the first that matches; EAGAIN with IPC_NOWAIT or O_NONBLOCK
ReceiveStep(p) ==
  /\ Runs(p, "receive")
  /\ LET o == kproc[p].obj IN
     IF ~Usable(o) THEN Fails(p)
     ELSE IF Matching(p) # {}
     THEN /\ kdata' = [kdata EXCEPT ![o] = RemoveAt(@, Min(Matching(p)))]
          /\ kgot' = [kgot EXCEPT ![kdata[o][Min(Matching(p))]] = @ + 1]
          /\ Exit(p, "ok")
          /\ UNCHANGED <<kkind, kname, knext, kgone, kcmds, ksent, knet, kclipped>>
     ELSE kproc[p].nowait /\ Fails(p)

\* IPC_RMID or the like on the object that was looked up; what only looks
RmStep(p) == Runs(p, "remove") /\ Rm(p)
LookStep(p) == Runs(p, "look") /\ Exit(p, IF Usable(kproc[p].obj) THEN "ok" ELSE "error")
               /\ UNCHANGED <<kkind, kname, knext, kdata, kgone, kcmds, histVars>>

msgcreate(p) == kkind = "msg" /\ \E e \in BOOLEAN : Create(p, e, <<>>)
msgsnd(p) == kkind = "msg" /\ \E t \in MsgTypes : Open(p, "send", t, FALSE, FALSE)
msgrcv(p) == kkind = "msg" /\ \E t \in MsgTypes \cup {0}, n \in BOOLEAN : Open(p, "receive", t, n, FALSE)
msgrcvid(p) == kkind = "msg" /\ OpenId(p, "receive", 0, FALSE, FALSE)
msgrmid(p) == kkind = "msg" /\ Open(p, "remove", 0, FALSE, FALSE)

mqcreate(p) == kkind = "mq" /\ \E e \in BOOLEAN : Create(p, e, <<>>)
mqsend(p) == kkind = "mq" /\ \E t \in MsgTypes : Open(p, "send", t, FALSE, FALSE)
mqreceive(p) == kkind = "mq" /\ \E n \in BOOLEAN : Open(p, "receive", 0, n, FALSE)
mqgetattr(p) == kkind = "mq" /\ Open(p, "look", 0, FALSE, FALSE)
mqunlink(p) == kkind = "mq" /\ Unlink(p)

mymqcreate(p) == kkind = "mymq" /\ \E e \in BOOLEAN : Create(p, e, <<>>)
mymqsend(p) == kkind = "mymq" /\ \E t \in MsgTypes : Open(p, "send", t, FALSE, FALSE)
mymqreceive(p) == kkind = "mymq" /\ \E n \in BOOLEAN : Open(p, "receive", 0, n, FALSE)
mymqgetattr(p) == kkind = "mymq" /\ Open(p, "look", 0, FALSE, FALSE)
mymqunlink(p) == kkind = "mymq" /\ Unlink(p)

-----------------------------------------------------------------------------
(***************************************************************************)
(* Semaphores                                                               *)
(***************************************************************************)
\* semop of one operation, and sem_wait and sem_post: it waits until the value allows it
SemopStep(p) ==
  /\ Runs(p, "semop")
  /\ LET o == kproc[p].obj
         n == kproc[p].arg IN
     IF ~Usable(o) THEN Fails(p)
     ELSE IF kdata[o][1] + n >= 0
     THEN /\ kdata' = [kdata EXCEPT ![o] = <<@[1] + n>>]
          /\ knet' = [knet EXCEPT ![o] = @ + (IF kproc[p].undo THEN 0 ELSE n)]
          /\ IF kproc[p].undo THEN kproc' = [kproc EXCEPT ![p].tool = "undo"]
             ELSE IF kkind = "pxsem" /\ n < 0 THEN kproc' = [kproc EXCEPT ![p].tool = "pause"]
             ELSE Exit(p, "ok")
          /\ UNCHANGED <<kkind, kname, knext, kgone, kcmds, ksent, kgot, kclipped>>
     ELSE kproc[p].nowait /\ Fails(p)

\* Mutant: the adjustment is not applied.
UndoStepNone(p) ==
  /\ Runs(p, "undo")
  /\ Exit(p, "ok")
  /\ UNCHANGED <<kkind, kname, knext, kdata, kgone, kcmds, histVars>>

\* exit with SEM_UNDO: the kernel takes the operation back, as far as the value stays at least 0
UndoStep(p) ==
  /\ Runs(p, "undo")
  /\ LET o == kproc[p].obj
         v == kdata[o][1] - kproc[p].arg IN
     /\ kdata' = [kdata EXCEPT ![o] = IF Usable(o) THEN <<Max({0, v})>> ELSE @]
     /\ kclipped' = (kclipped \/ v < 0)
  /\ Exit(p, "ok")
  /\ UNCHANGED <<kkind, kname, knext, kgone, kcmds, ksent, kgot, knet>>

\* SETALL: the adjustments that others have for the set are cleared
SetStep(p) ==
  /\ Runs(p, "set")
  /\ LET o == kproc[p].obj IN
     IF ~Usable(o) THEN Fails(p)
     ELSE /\ kdata' = [kdata EXCEPT ![o] = <<kproc[p].arg>>]
          /\ knet' = [knet EXCEPT ![o] = kproc[p].arg]
          /\ kproc' = [q \in Shells |-> IF q = p THEN Prompt
                                        ELSE IF kproc[q].tool = "undo" /\ kproc[q].obj = o
                                        THEN [kproc[q] EXCEPT !.arg = 0] ELSE kproc[q]]
          /\ UNCHANGED <<kkind, kname, knext, kgone, kcmds, ksent, kgot, kclipped>>

\* semwait pauses until it is killed, and keeps its unit.
KillPaused(p) ==
  /\ Runs(p, "pause")
  /\ Exit(p, "killed")
  /\ UNCHANGED <<kkind, kname, knext, kdata, kgone, kcmds, histVars>>

semcreate(p) == kkind = "sem" /\ \E e \in BOOLEAN : Create(p, e, <<0>>)
semops(p) == kkind = "sem" /\ \E n \in {-1, 1}, w, u \in BOOLEAN : Open(p, "semop", n, w, u)
semopsid(p) == kkind = "sem" /\ \E n \in {-1, 1}, w, u \in BOOLEAN : OpenId(p, "semop", n, w, u)
semsetvalues(p) == kkind = "sem" /\ Open(p, "set", 2, FALSE, FALSE)
semgetvalues(p) == kkind = "sem" /\ Open(p, "look", 0, FALSE, FALSE)
semrmid(p) == kkind = "sem" /\ Open(p, "remove", 0, FALSE, FALSE)

pxsemcreate(p) == kkind = "pxsem" /\ \E e \in BOOLEAN : Create(p, e, <<1>>)
semwait(p) == kkind = "pxsem" /\ Open(p, "semop", -1, FALSE, FALSE)
sempost(p) == kkind = "pxsem" /\ Open(p, "semop", 1, FALSE, FALSE)
semgetvalue(p) == kkind = "pxsem" /\ Open(p, "look", 0, FALSE, FALSE)
semunlink(p) == kkind = "pxsem" /\ Unlink(p)

-----------------------------------------------------------------------------
(***************************************************************************)
(* Shared memory                                                            *)
(***************************************************************************)
\* Ftruncate of the object to n pages: what was cut off comes back as zeros
Resize(d, n) == [i \in 1..n |-> IF i <= Len(d) THEN d[i] ELSE 0]

\* shmcreate: Shm_open, and the Ftruncate that follows
TruncateStep(p) ==
  /\ Runs(p, "truncate")
  /\ LET o == kproc[p].obj IN
     /\ kdata' = [kdata EXCEPT ![o] = Resize(@, kproc[p].arg)]
     /\ kproc' = [q \in Shells |-> IF q = p THEN Prompt
                                   ELSE IF kproc[q].obj = o /\ kproc[p].arg # Len(kdata[o])
                                   THEN [kproc[q] EXCEPT !.clean = FALSE] ELSE kproc[q]]
  /\ UNCHANGED <<kkind, kname, knext, kgone, kcmds, histVars>>

shmcreate(p) ==
  /\ kkind = "pxshm" /\ Ready(p)
  /\ kcmds' = kcmds + 1
  /\ \E e \in BOOLEAN, n \in 1..MaxPages :
       IF kname # 0
       THEN /\ IF e THEN Exit(p, "error")
               ELSE kproc' = [kproc EXCEPT ![p] = Command("truncate", kname, n, FALSE, FALSE)]
            /\ UNCHANGED <<kname, knext>>
       ELSE /\ knext < MaxObjects
            /\ knext' = knext + 1 /\ kname' = knext + 1
            /\ kproc' = [kproc EXCEPT ![p] = Command("truncate", knext + 1, n, FALSE, FALSE)]
  /\ UNCHANGED <<kkind, kdata, kgone, histVars>>

\* Shmget, Shmat and IPC_STAT, or Shm_open, Fstat and Mmap (which fails for no bytes): the size is
\* that of the time of the call.
MapStep(p) ==
  /\ kproc[p].tool \in {"mapread", "mapwrite"}
  /\ LET o == kproc[p].obj IN
     IF ~Usable(o) \/ kdata[o] = <<>> THEN Fails(p)
     ELSE /\ kproc' = [kproc EXCEPT ![p].tool = (IF @ = "mapread" THEN "read" ELSE "write"),
                                    ![p].size = Len(kdata[o]), ![p].clean = Pattern(o)]
          /\ UNCHANGED <<kkind, kname, knext, kdata, kgone, kcmds, histVars>>

\* Mutant: the loop goes one page too far.
PageStepPast(p) ==
  /\ kproc[p].tool \in {"read", "write"}
  /\ LET c == kproc[p]
         i == c.page + 1 IN
     IF c.page > c.size THEN Exit(p, "ok") /\ UNCHANGED kdata
     ELSE IF i > Len(kdata[c.obj]) THEN Exit(p, "killed") /\ UNCHANGED kdata
     ELSE /\ kproc' = [kproc EXCEPT ![p].page = i,
                                    ![p].mismatch = @ \/ (c.tool = "read" /\ kdata[c.obj][i] # 1)]
          /\ kdata' = IF c.tool = "write" THEN [kdata EXCEPT ![c.obj][i] = 1] ELSE kdata
  /\ UNCHANGED <<kkind, kname, knext, kgone, kcmds, histVars>>

\* One page of the loop; beyond the end of an object that was made shorter it is SIGBUS.
PageStep(p) ==
  /\ kproc[p].tool \in {"read", "write"}
  /\ LET c == kproc[p]
         i == c.page + 1 IN
     IF c.page = c.size THEN Exit(p, "ok") /\ UNCHANGED kdata
     ELSE IF i > Len(kdata[c.obj]) THEN Exit(p, "killed") /\ UNCHANGED kdata
     ELSE /\ kproc' = [kproc EXCEPT ![p].page = i,
                                    ![p].mismatch = @ \/ (c.tool = "read" /\ kdata[c.obj][i] # 1)]
          /\ kdata' = IF c.tool = "write" THEN [kdata EXCEPT ![c.obj][i] = 1] ELSE kdata
  /\ UNCHANGED <<kkind, kname, knext, kgone, kcmds, histVars>>

shmget(p) == kkind = "shm" /\ \E e \in BOOLEAN, n \in 1..MaxPages : Create(p, e, [i \in 1..n |-> 0])
shmwrite(p) == kkind = "shm" /\ Open(p, "mapwrite", 0, FALSE, FALSE)
shmread(p) == kkind = "shm" /\ Open(p, "mapread", 0, FALSE, FALSE)
shmreadid(p) == kkind = "shm" /\ OpenId(p, "mapread", 0, FALSE, FALSE)
shmrmid(p) == kkind = "shm" /\ Open(p, "remove", 0, FALSE, FALSE)

pxshmwrite(p) == kkind = "pxshm" /\ Open(p, "mapwrite", 0, FALSE, FALSE)
pxshmread(p) == kkind = "pxshm" /\ Open(p, "mapread", 0, FALSE, FALSE)
shmunlink(p) == kkind = "pxshm" /\ Unlink(p)

-----------------------------------------------------------------------------
ToolStarts(p) ==
  \/ msgcreate(p) \/ msgsnd(p) \/ msgrcv(p) \/ msgrcvid(p) \/ msgrmid(p)
  \/ mqcreate(p) \/ mqsend(p) \/ mqreceive(p) \/ mqgetattr(p) \/ mqunlink(p)
  \/ mymqcreate(p) \/ mymqsend(p) \/ mymqreceive(p) \/ mymqgetattr(p) \/ mymqunlink(p)
  \/ semcreate(p) \/ semops(p) \/ semopsid(p) \/ semsetvalues(p) \/ semgetvalues(p) \/ semrmid(p)
  \/ pxsemcreate(p) \/ semwait(p) \/ sempost(p) \/ semgetvalue(p) \/ semunlink(p)
  \/ shmget(p) \/ shmwrite(p) \/ shmread(p) \/ shmreadid(p) \/ shmrmid(p)
  \/ shmcreate(p) \/ pxshmwrite(p) \/ pxshmread(p) \/ shmunlink(p)

ToolSteps(p) ==
  \/ SendStep(p) \/ ReceiveStep(p) \/ RmStep(p) \/ LookStep(p) \/ SemopStep(p) \/ UndoStep(p) \/ SetStep(p)
  \/ TruncateStep(p) \/ MapStep(p) \/ PageStep(p)

ToolsNext == \E p \in Shells : ToolStarts(p) \/ ToolSteps(p) \/ KillPaused(p)

ToolsFairness == \A p \in Shells : WF_toolVars(ToolSteps(p))

-----------------------------------------------------------------------------
ToolsTypeOK ==
  /\ kname \in 0..knext /\ knext \in 0..MaxObjects /\ kcmds \in 0..MaxCommands
  /\ kgone \subseteq Objects /\ (kkind \notin SysV => kgone = {})
  /\ \A o \in Objects : \A i \in DOMAIN kdata[o] : kdata[o][i] >= 0

Count(q, t) == Cardinality({i \in DOMAIN q : q[i] = t})

\* Every message sent was received once or is in one of the queues the name denoted, removed
\* ones included, and mq_receive finds them by priority.  A semaphore has the value that the
\* operations without SEM_UNDO give it whenever no semops is about to exit, unless at an exit
\* there was not enough to take back; one that semwait took and was killed with stays taken.
ToolsConserve ==
  /\ ToolsTypeOK
  /\ kkind \in {"msg", "mq", "mymq"} =>
       \A t \in MsgTypes : ksent[t] = kgot[t] + SumFunction([o \in Objects |-> Count(kdata[o], t)])
  /\ kkind \in {"mq", "mymq"} => \A o \in Objects : \A i, j \in DOMAIN kdata[o] : i < j => kdata[o][i] >= kdata[o][j]
  /\ kkind \in {"sem", "pxsem"} => \A o \in Objects \ kgone :
       (\A p \in Shells : ~Runs(p, "undo") \/ kproc[p].obj # o) =>
          kclipped \/ kdata[o] = <<>> \/ kdata[o][1] = knet[o]

\* shmread that finds a mismatch or is killed had an object that lacked the pattern when it was
\* mapped, or whose size was changed meanwhile.
PatternSeen ==
  \A p \in Shells : kkind \in {"shm", "pxshm"} /\ kproc[p].clean => ~kproc[p].mismatch /\ kproc[p].done # "killed"

\* No command still waits for a message or a semaphore of a System V object that was removed.
RemovalWoke == \A p \in Shells : kproc[p].obj # 0 /\ ~Usable(kproc[p].obj) => kproc[p].tool = "none"
=============================================================================
