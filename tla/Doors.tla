------------------------------- MODULE Doors -------------------------------
(***************************************************************************)
(* Solaris doors as the programs of DoorPrograms use them: a server creates *)
(* its doors and attaches each to a file; clients open the file and call;   *)
(* a thread of the server's pool runs the server procedure and returns the  *)
(* result.  Clients may be interrupted or killed during a call, threads and *)
(* the server may end, doors may be revoked.  Doors themselves are external.*)
(***************************************************************************)
EXTENDS DoorPrograms, Naturals, FiniteSets, SequencesExt

CONSTANTS DClients,        \* the argument of each client is the client
          NoOne,           \* not a client
          MaxThreads,      \* bound: threads of the server at one time
          MaxServerDeaths  \* bound: the server is killed

ASSUME DoorsAssumption ==
  /\ NoOne \notin DClients /\ MaxThreads \in Nat \ {0} /\ MaxServerDeaths \in Nat

VARIABLES dprog,      \* the pair of programs, or idle
          dmain,      \* the steps that the server's main function has done
          dfd,        \* the server's variable fd is set
          dname,      \* what the pathname of each door is: no file, a file, a door
          drevoked, dalive, ddeaths,
          dpipe,      \* the client has been told that the door is there
          dunref,     \* "armed", "due" or "done": the unreferenced invocation
          dthread, dclient

doorVars == <<dprog, dmain, dfd, dname, drevoked, dalive, ddeaths, dpipe, dunref, dthread, dclient>>

DThreads == 1..MaxThreads
DoorIdle == [server |-> server1, client |-> [client1 EXCEPT !.calls = <<>>]]
Server == dprog.server
Client == dprog.client

\* One of the clients asks serverfd1 for a file that is not there.
Missing(c) == c = CHOOSE x \in DClients : TRUE

\* What a procedure returns: the square, the root, a descriptor or a message about c.
Result(door, c) == [proc |-> door, arg |-> c]

NoThread == [at |-> "none", caller |-> NoOne, door |-> 1, step |-> 0, enabled |-> FALSE, aborted |-> FALSE]

NewClient ==
  [pc |-> "start", opened |-> 0, plain |-> {}, calls |-> 0, runs |-> 0, caught |-> FALSE,
   child |-> FALSE, shown |-> <<>>, why |-> "none"]

\* lat_door has one client.
Absent(c) == dprog = DoorIdle \/ (Server.early /\ Missing(c))

DoorInit ==
  /\ dprog \in DoorPairs \union {DoorIdle}
  /\ dmain = 0 /\ dfd = FALSE
  /\ dname = [d \in {1, 2} |-> "none"]
  /\ drevoked = FALSE /\ dalive = TRUE /\ ddeaths = 0 /\ dpipe = FALSE /\ dunref = "armed"
  /\ dthread = [t \in DThreads |-> NoThread]
  /\ dclient = [c \in DClients |-> IF Absent(c) THEN [NewClient EXCEPT !.pc = "done"] ELSE NewClient]

-----------------------------------------------------------------------------
\* The threads.  The library asks for a thread when a door is created and when a call
\* takes the last one that waits.
Waiting(th) == {t \in DThreads : th[t].at \in {"new", "idle"}}

Created(th) ==
  IF Waiting(th) = {} /\ \E t \in DThreads : th[t].at = "none"
  THEN [th EXCEPT ![CHOOSE t \in DThreads : th[t].at = "none"] = [NoThread EXCEPT !.at = "new"]]
  ELSE th

\* my_create makes a thread that runs my_thread.
my_create(th) == Created(th)

\* Mutant: my_thread does not wait for the descriptor.
my_threadEarly(t) ==
  /\ dthread[t].at = "new" /\ dalive
  /\ dthread' = [dthread EXCEPT ![t].at = IF Server.pool = "system" \/ dfd THEN "idle" ELSE "unbound"]
  /\ UNCHANGED <<dprog, dmain, dfd, dname, drevoked, dalive, ddeaths, dpipe, dunref, dclient>>

\* The steps of main for a server
SetupOf(s) ==
  LET door(d) == IF s.early THEN <<<<"file", d>>, <<"create", d>>, <<"assign", d>>, <<"attach", d>>>>
                 ELSE <<<<"create", d>>, <<"assign", d>>, <<"file", d>>, <<"attach", d>>>>
  IN FlattenSeq([d \in 1..Len(s.procs) |-> door(d)])
     \o (IF s.closes THEN <<<<"close", 1>>>> ELSE <<>>)
     \o (IF s.early THEN <<<<"tell", 1>>>> ELSE <<>>)

\* main of server6 holds fdlock from before Door_create until fd is set.
FdlockHeld == dmain > 0 /\ SetupOf(Server)[dmain][1] = "create"

\* A new thread waits until the server has the descriptor, binds to the door and waits
\* for calls in Door_return.
my_thread(t) ==
  /\ dthread[t].at = "new" /\ dalive
  /\ Server.pool = "fdlock" => ~FdlockHeld
  /\ Server.pool = "spin" => dfd
  /\ dthread' = [dthread EXCEPT ![t].at = IF Server.pool = "system" \/ dfd THEN "idle" ELSE "unbound"]
  /\ UNCHANGED <<dprog, dmain, dfd, dname, drevoked, dalive, ddeaths, dpipe, dunref, dclient>>

Holds(cl, c) == cl[c].opened > Cardinality(cl[c].plain) /\ cl[c].pc \notin {"done", "failed", "killed"}

\* The references to the door: the server's descriptor, the file, the clients' descriptors
Referenced(own, name, cl) ==
  own + (IF name = "door" THEN 1 ELSE 0) + Cardinality({c \in DClients : Holds(cl, c)})

OwnFd(k) == IF k > 0 /\ (\A i \in 1..k : SetupOf(Server)[i][1] # "close")
               /\ (\E i \in 1..k : SetupOf(Server)[i][1] = "create") THEN 1 ELSE 0

\* When the references drop to one, the door is unreferenced, once.
Unreferenced(k, name, cl) ==
  IF Server.unref /\ dunref = "armed"
     /\ Referenced(OwnFd(k), name, cl) = 1 /\ Referenced(OwnFd(dmain), dname[1], dclient) > 1
  THEN "due" ELSE dunref

\* Mutant: the client of lat_door is told before the door is attached.
DoorMainTellsEarly ==
  /\ dprog # DoorIdle /\ dalive /\ dmain < Len(SetupOf(Server))
  /\ LET k == dmain + 1
         step == SetupOf(Server)[k]
     IN /\ dmain' = k
        /\ dfd' = (dfd \/ step[1] = "assign")
        /\ dname' = CASE step[1] = "file" -> [dname EXCEPT ![step[2]] = "file"]
                      [] step[1] = "attach" -> [dname EXCEPT ![step[2]] = "door"]
                      [] OTHER -> dname
        /\ dthread' = IF step[1] = "create" THEN my_create(dthread) ELSE dthread
        /\ dpipe' = (dpipe \/ step[1] = "create")
        /\ dunref' = Unreferenced(k, dname'[1], dclient)
  /\ UNCHANGED <<dprog, drevoked, dalive, ddeaths, dclient>>

\* main of a server: creates the door (which asks for a thread), sets fd, makes the file,
\* attaches the door to it.
DoorMain ==
  /\ dprog # DoorIdle /\ dalive /\ dmain < Len(SetupOf(Server))
  /\ LET k == dmain + 1
         step == SetupOf(Server)[k]
     IN /\ dmain' = k
        /\ dfd' = (dfd \/ step[1] = "assign")
        /\ dname' = CASE step[1] = "file" -> [dname EXCEPT ![step[2]] = "file"]
                      [] step[1] = "attach" -> [dname EXCEPT ![step[2]] = "door"]
                      [] OTHER -> dname
        /\ dthread' = IF step[1] = "create" THEN my_create(dthread) ELSE dthread
        /\ dpipe' = (dpipe \/ step[1] = "tell")
        /\ dunref' = Unreferenced(k, dname'[1], dclient)
  /\ UNCHANGED <<dprog, drevoked, dalive, ddeaths, dclient>>

-----------------------------------------------------------------------------
\* Mutant: every client calls again.
InterruptedRetries(cl, c) ==
  IF cl[c].caught THEN [cl EXCEPT ![c].pc = "ready", ![c].caught = FALSE]
  ELSE [cl EXCEPT ![c].pc = "failed", ![c].why = "eintr"]

\* A system call of a client fails with EINTR: clientintr3 calls again if it has caught
\* SIGCHLD, the wrapper of the others ends the client.
Interrupted(cl, c) ==
  IF Client.retry /\ cl[c].caught THEN [cl EXCEPT ![c].pc = "ready", ![c].caught = FALSE]
  ELSE [cl EXCEPT ![c].pc = "failed", ![c].why = "eintr"]

\* The thread that works for a client is told that the client has gone.
Abort(th, c) == [t \in DThreads |-> IF th[t].caller = c THEN [th[t] EXCEPT !.aborted = TRUE] ELSE th[t]]

\* The clients change to cl, which may be the end of the last reference to the door.
SetClients(cl) == dclient' = cl /\ dunref' = Unreferenced(dmain, dname[1], cl)

\* Open, of a file that is not there, of the file that is not a door yet, or of the door.
\* doorinfo then prints what it finds.
DoorOpen(c) ==
  /\ dclient[c].pc = "start"
  /\ Server.early => dpipe
  /\ LET d == dclient[c].opened + 1
         last == d = Len(Server.procs)
     IN SetClients([dclient EXCEPT ![c] =
          IF dname[d] = "none" THEN [@ EXCEPT !.pc = "failed", !.why = "open"]
          ELSE [@ EXCEPT !.pc = CASE ~last -> "start" [] Client.calls = <<>> -> "done" [] OTHER -> "ready",
                         !.opened = d,
                         !.child = last /\ Client.sigchld,
                         !.plain = IF dname[d] = "file" THEN @ \union {d} ELSE @]])
  /\ UNCHANGED <<dprog, dmain, dfd, dname, drevoked, dalive, ddeaths, dpipe, dthread>>

\* Door_call, of something that is not a door, of a door that is no more, or of a door
DoorCall(c) ==
  /\ dclient[c].pc = "ready"
  /\ SetClients([dclient EXCEPT ![c] =
       CASE Client.calls[@.calls + 1] \in @.plain -> [@ EXCEPT !.pc = "failed", !.why = "not a door"]
         [] drevoked \/ ~dalive -> [@ EXCEPT !.pc = "failed", !.why = "gone"]
         [] OTHER -> [@ EXCEPT !.pc = "calling"]])
  /\ UNCHANGED <<dprog, dmain, dfd, dname, drevoked, dalive, ddeaths, dpipe, dthread>>

\* A thread of the server takes the call.
DoorAccept(c, t) ==
  /\ dclient[c].pc = "calling" /\ dthread[t].at = "idle" /\ ~drevoked
  /\ dthread' = my_create([dthread EXCEPT ![t] =
       [@ EXCEPT !.at = "run", !.caller = c, !.door = Client.calls[dclient[c].calls + 1]]])
  /\ dclient' = [dclient EXCEPT ![c].pc = "called", ![c].runs = @ + 1]
  /\ UNCHANGED <<dprog, dmain, dfd, dname, drevoked, dalive, ddeaths, dpipe, dunref>>

\* A call that no thread has taken when the door is revoked
DoorRefused(c) ==
  /\ dclient[c].pc = "calling" /\ drevoked
  /\ SetClients([dclient EXCEPT ![c].pc = "failed", ![c].why = "gone"])
  /\ UNCHANGED <<dprog, dmain, dfd, dname, drevoked, dalive, ddeaths, dpipe, dthread>>

\* The unreferenced invocation takes a thread too.
DoorUnref(t) ==
  /\ dunref = "due" /\ dthread[t].at = "idle"
  /\ dunref' = "done"
  /\ dthread' = my_create([dthread EXCEPT ![t].at = "run"])
  /\ UNCHANGED <<dprog, dmain, dfd, dname, drevoked, dalive, ddeaths, dpipe, dclient>>

\* sig_chld: the child of the client ends.  A call is interrupted, else the handler has
\* run before the call.
door_sig_chld(c) ==
  /\ dclient[c].child /\ dclient[c].pc \in {"ready", "calling", "called"}
  /\ LET cl == [dclient EXCEPT ![c].child = FALSE, ![c].caught = TRUE]
     IN IF dclient[c].pc = "ready" THEN SetClients(cl) /\ UNCHANGED dthread
        ELSE SetClients(Interrupted(cl, c)) /\ dthread' = Abort(dthread, c)
  /\ UNCHANGED <<dprog, dmain, dfd, dname, drevoked, dalive, ddeaths, dpipe>>

\* The alarm of clientintr4
DoorAlarm(c) ==
  /\ Client.alarm /\ dclient[c].pc \in {"ready", "calling", "called"}
  /\ SetClients([dclient EXCEPT ![c].pc = "killed"]) /\ dthread' = Abort(dthread, c)
  /\ UNCHANGED <<dprog, dmain, dfd, dname, drevoked, dalive, ddeaths, dpipe>>

-----------------------------------------------------------------------------
\* What the client finds where it looks for the result: a result that does not fit into
\* rbuf is somewhere else, and data_ptr points to it.
Shown(r) == IF Client.rsize \/ Client.prints = "data_ptr" THEN r ELSE Result(0, NoOne)

\* A client has its result and prints it; clientfd1 ends with the message if it gets one.
Returned(cl, c, r) ==
  LET k == cl[c].calls + 1
      message == "open" \in Range(Server.procs[1]) /\ Missing(c)
  IN [cl EXCEPT ![c] =
       [@ EXCEPT !.calls = k, !.shown = Append(@, Shown(r)), !.runs = IF k = Len(Client.calls) THEN @ ELSE 0,
                 !.pc = CASE message -> "failed" [] k = Len(Client.calls) -> "done" [] OTHER -> "ready",
                 !.why = IF message THEN "message" ELSE @]]

\* The procedure of a thread: the unreferenced invocation returns at once.
Body(t) == IF dthread[t].caller = NoOne THEN <<"return">> ELSE Server.procs[dthread[t].door]
NextStep(t) == Body(t)[dthread[t].step + 1]
InCall(c, t) == dthread[t].caller = c /\ ~dthread[t].aborted

\* The end of the server: its threads are gone, and the calls that they worked on or
\* that waited for them.
ServerGone ==
  /\ dalive' = FALSE /\ dthread' = [t \in DThreads |-> NoThread]
  /\ SetClients([c \in DClients |->
       IF dclient[c].pc \in {"calling", "called"} THEN Interrupted(dclient, c)[c] ELSE dclient[c]])

\* The steps of a server procedure that only take time, or that change the thread
ThreadWorks(t) ==
  /\ dthread[t].at = "run" /\ NextStep(t) \in {"sleep", "cred", "open", "enable", "disable"}
  /\ NextStep(t) = "sleep" => ~(dthread[t].aborted /\ dthread[t].enabled)
  /\ dthread' = [dthread EXCEPT ![t].step = @ + 1,
                    ![t].enabled = CASE NextStep(t) = "enable" -> TRUE [] NextStep(t) = "disable" -> FALSE [] OTHER -> @]
  /\ UNCHANGED <<dprog, dmain, dfd, dname, drevoked, dalive, ddeaths, dpipe, dunref, dclient>>

\* The thread of a client that has gone is cancelled in sleep, if it lets itself.
servproc_cleanup(t) ==
  /\ dthread[t].at = "run" /\ NextStep(t) = "sleep" /\ dthread[t].aborted /\ dthread[t].enabled
  /\ dthread' = [dthread EXCEPT ![t] = NoThread]
  /\ UNCHANGED <<dprog, dmain, dfd, dname, drevoked, dalive, ddeaths, dpipe, dunref, dclient>>

\* Door_revoke of a door that is revoked already is an error, and the wrapper ends the
\* server.
Door_revoke(t) ==
  /\ dthread[t].at = "run" /\ NextStep(t) = "revoke"
  /\ IF drevoked THEN ServerGone /\ UNCHANGED drevoked
     ELSE /\ drevoked' = TRUE /\ dthread' = [dthread EXCEPT ![t].step = @ + 1]
          /\ UNCHANGED <<dalive, dunref, dclient>>
  /\ UNCHANGED <<dprog, dmain, dfd, dname, ddeaths, dpipe>>

\* pthread_exit in the procedure: the call fails.
ThreadExits(t) ==
  /\ dthread[t].at = "run" /\ NextStep(t) = "exit"
  /\ dthread' = [dthread EXCEPT ![t] = NoThread]
  /\ IF dthread[t].aborted THEN UNCHANGED <<dclient, dunref>>
     ELSE SetClients(Interrupted(dclient, dthread[t].caller))
  /\ UNCHANGED <<dprog, dmain, dfd, dname, drevoked, dalive, ddeaths, dpipe>>

\* Mutant: the result goes to whoever waits.
Door_returnAny(t) ==
  /\ dthread[t].at = "run" /\ NextStep(t) = "return"
  /\ dthread' = [dthread EXCEPT ![t] = [NoThread EXCEPT !.at = "idle"]]
  /\ \/ \E c \in DClients : /\ dclient[c].pc = "called"
                          /\ SetClients(Returned(dclient, c, Result(dthread[t].door, dthread[t].caller)))
     \/ (\A c \in DClients : dclient[c].pc # "called") /\ UNCHANGED <<dclient, dunref>>
  /\ UNCHANGED <<dprog, dmain, dfd, dname, drevoked, dalive, ddeaths, dpipe>>

\* Mutant: the thread does not wait for more.
Door_returnGone(t) ==
  /\ dthread[t].at = "run" /\ NextStep(t) = "return"
  /\ dthread' = [dthread EXCEPT ![t] = [NoThread EXCEPT !.at = "gone"]]
  /\ IF dthread[t].caller = NoOne \/ dthread[t].aborted THEN UNCHANGED <<dclient, dunref>>
     ELSE SetClients(Returned(dclient, dthread[t].caller, Result(dthread[t].door, dthread[t].caller)))
  /\ UNCHANGED <<dprog, dmain, dfd, dname, drevoked, dalive, ddeaths, dpipe>>

\* Door_return: the result goes to the client, if it still waits; the thread waits for more.
Door_return(t) ==
  /\ dthread[t].at = "run" /\ NextStep(t) = "return"
  /\ dthread' = [dthread EXCEPT ![t] = [NoThread EXCEPT !.at = "idle"]]
  /\ IF dthread[t].caller = NoOne \/ dthread[t].aborted THEN UNCHANGED <<dclient, dunref>>
     ELSE SetClients(Returned(dclient, dthread[t].caller, Result(dthread[t].door, dthread[t].caller)))
  /\ UNCHANGED <<dprog, dmain, dfd, dname, drevoked, dalive, ddeaths, dpipe>>

\* The server is killed.
DoorServerDies ==
  /\ dprog # DoorIdle /\ dalive /\ ddeaths < MaxServerDeaths /\ ddeaths' = ddeaths + 1
  /\ ServerGone
  /\ UNCHANGED <<dprog, dmain, dfd, dname, drevoked, dpipe>>

DoorThread(t) ==
  \/ my_thread(t) \/ DoorUnref(t) \/ ThreadWorks(t) \/ servproc_cleanup(t)
  \/ Door_revoke(t) \/ ThreadExits(t) \/ Door_return(t)

DoorClientStep(c) == DoorOpen(c) \/ DoorCall(c) \/ DoorRefused(c) \/ \E t \in DThreads : DoorAccept(c, t)

DoorNext ==
  \/ DoorMain \/ DoorServerDies
  \/ \E t \in DThreads : DoorThread(t)
  \/ \E c \in DClients : DoorClientStep(c) \/ door_sig_chld(c) \/ DoorAlarm(c)

DoorFairness ==
  /\ WF_doorVars(DoorMain)
  /\ \A t \in DThreads : WF_doorVars(DoorThread(t))
  /\ \A c \in DClients : WF_doorVars(DoorClientStep(c))

-----------------------------------------------------------------------------
DoorTypeOK ==
  /\ dprog \in DoorPairs \union {DoorIdle} /\ dmain \in 0..Len(SetupOf(Server))
  /\ dname \in [{1, 2} -> {"none", "file", "door"}]
  /\ dfd \in BOOLEAN /\ drevoked \in BOOLEAN /\ dalive \in BOOLEAN /\ dpipe \in BOOLEAN
  /\ dunref \in {"armed", "due", "done"} /\ ddeaths \in 0..MaxServerDeaths
  /\ \A t \in DThreads :
       /\ dthread[t].at \in {"none", "new", "unbound", "idle", "run", "gone"}
       /\ dthread[t].caller \in DClients \union {NoOne}
       /\ dthread[t].at = "run" => dthread[t].step < Len(Body(t))
  /\ \A c \in DClients :
       /\ dclient[c].pc \in {"start", "ready", "calling", "called", "done", "failed", "killed"}
       /\ dclient[c].calls \in 0..Len(Client.calls)

\* A client prints the results of its own calls, in order, wherever the result is put; it
\* waits for exactly one thread while it is called.  Once it has opened a door, only a
\* revoked door, the end of the server or a signal keep the result from it, and the
\* client of lat_door always opens a door.  The server ends by itself only if calls of two
\* clients were under way when the first revoked the door.  No thread binds to a door
\* before the server has its descriptor.
DoorAnswers ==
  /\ \A c \in DClients :
       /\ dclient[c].shown = [i \in 1..dclient[c].calls |-> Result(Client.calls[i], c)]
       /\ dclient[c].why \in {"open", "not a door"} => ~Server.early
       /\ dclient[c].why = "gone" => drevoked \/ ~dalive
       /\ dclient[c].why = "eintr" => ~dalive \/ Client.sigchld \/ "exit" \in Range(Server.procs[1])
       /\ Cardinality({t \in DThreads : InCall(c, t)}) = IF dclient[c].pc = "called" THEN 1 ELSE 0
  /\ ~dalive /\ ddeaths = 0 => drevoked /\ \A c \in DClients : dclient[c].runs = 1
  /\ \A t \in DThreads : dthread[t].at # "unbound"

\* A server procedure runs at most once for a call.  Only the call that clientintr3
\* repeats after a signal may have run it twice.
DoorRunsOnce == \A c \in DClients : dclient[c].runs <= IF Client.retry THEN 2 ELSE 1

DoorEnded(c) == dclient[c].pc \in {"done", "failed", "killed"}

\* Every client comes to its end and no thread stays in a procedure.  The client of
\* lat_door waits for ever if the server dies before it writes to the pipe: the client
\* has the end for writing open itself.
DoorsEnded ==
  /\ \A c \in DClients : DoorEnded(c) \/ (Server.early /\ ~dalive /\ ~dpipe)
  /\ \A t \in DThreads : dthread[t].at \in {"none", "new", "idle"}
=============================================================================
