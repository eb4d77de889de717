---------------------------- MODULE Notification ----------------------------
(***************************************************************************)
(* The programs that have themselves notified of messages: mqnotifysig1 to  *)
(* mqnotifysig5, mqnotifythread1 and mqnotify3 of pxmsg, mqnotify1 of       *)
(* my_pxmsg_mmap.  One of them runs; other processes send messages to its   *)
(* queue and receive some of them.  A program is                           *)
(*   how     where the work is done: "handler" the signal handler,          *)
(*           "suspend" the main loop, which sigsuspend lets continue,       *)
(*           "sigwait" the main loop, "pipe" the main loop, to which the    *)
(*           handler writes a byte, "thread" a new thread                  *)
(*   takes   what it receives: "all" until EAGAIN, "one" with a blocking    *)
(*           mq_receive, "none"                                            *)
(* The queue notifies the registered process once, when a message arrives   *)
(* at an empty queue nobody waits at; the work begins with registering      *)
(* again.                                                                  *)
(***************************************************************************)
EXTENDS Integers, FiniteSets

CONSTANTS MaxMsgs,   \* messages that others send
          MaxWorkers \* threads of mqnotifythread1 at the same time

ASSUME NotificationAssumption == MaxMsgs \in Nat /\ MaxWorkers \in Nat \ {0}

Notifier(how, takes) == [how |-> how, takes |-> takes]

mqnotifysig1 == Notifier("handler", "one")
mqnotifysig2 == Notifier("suspend", "one")
\* Mutant: one message for each notification, although the queue is nonblocking.
mqnotifysig3One == Notifier("suspend", "one")
mqnotifysig3 == Notifier("suspend", "all")
mqnotifysig4 == Notifier("sigwait", "all")
mqnotifysig5 == Notifier("pipe", "all")
mqnotifythread1 == Notifier("thread", "all")
mqnotify3 == Notifier("handler", "none")
mqnotify1 == Notifier("handler", "none")
NotIdle == Notifier("idle", "none")

VARIABLES nprog,
          nmsgs,     \* messages in the queue
          nsent, nread,
          nreg,      \* the process is registered
          nlate,     \* it registered when messages were in the queue already
          nblocked,  \* SIGUSR1 is blocked
          npending,  \* SIGUSR1 is pending
          nflag,     \* mqflag, or the bytes in the pipe
          npc,       \* of the main loop
          nwork      \* of each worker: a thread, or the one place of the others

notVars == <<nprog, nmsgs, nsent, nread, nreg, nlate, nblocked, npending, nflag, npc, nwork>>

Workers == IF nprog.how = "thread" THEN 1..MaxWorkers ELSE {1}

NotInit ==
  /\ nprog \in {mqnotifysig1, mqnotifysig2, mqnotifysig3, mqnotifysig4, mqnotifysig5, mqnotifythread1,
                mqnotify3, NotIdle}
  /\ nmsgs \in (IF nprog = NotIdle THEN {0} ELSE 0..1)
  /\ nsent = nmsgs /\ nread = 0
  /\ nreg = FALSE /\ nlate = FALSE
  /\ nblocked = (nprog.how = "sigwait")
  /\ npending = FALSE /\ nflag = 0
  /\ npc = (IF nprog = NotIdle THEN "exit" ELSE "main")
  /\ nwork = [w \in Workers |-> "idle"]

At(w, pc) == nwork' = [nwork EXCEPT ![w] = pc]

\* Mq_notify before the main loop
NotMain ==
  /\ npc = "main"
  /\ nreg' = TRUE
  /\ nlate' = (nmsgs > 0)
  /\ npc' = (IF nprog.how = "suspend" THEN "block" ELSE "wait")
  /\ UNCHANGED <<nprog, nmsgs, nsent, nread, nblocked, npending, nflag, nwork>>

Receiving == nmsgs = 0 /\ nprog.takes = "one" /\ \E w \in Workers : nwork[w] = "receive"

\* A message arrives.  A thread is started at once.
MessageArrives ==
  /\ nprog # NotIdle
  /\ nsent < MaxMsgs
  /\ nsent' = nsent + 1 /\ nmsgs' = nmsgs + 1
  /\ IF nreg /\ nmsgs = 0 /\ ~Receiving
     THEN /\ nreg' = FALSE
          /\ IF nprog.how = "thread"
             THEN /\ \E w \in Workers : nwork[w] = "idle" /\ At(w, "register")
                  /\ UNCHANGED npending
             ELSE npending' = TRUE /\ UNCHANGED nwork
     ELSE UNCHANGED <<nreg, npending, nwork>>
  /\ UNCHANGED <<nprog, nread, nlate, nblocked, nflag, npc>>

\* Another process receives a message.
OtherReceives ==
  /\ nmsgs > 0
  /\ nmsgs' = nmsgs - 1 /\ nread' = nread + 1
  /\ UNCHANGED <<nprog, nsent, nreg, nlate, nblocked, npending, nflag, npc, nwork>>

\* The handler: it does the work, sets mqflag, or writes a byte to the pipe.  While it
\* runs, the signal is blocked.
sig_usr1 ==
  /\ npending /\ ~nblocked
  /\ nprog.how = "handler" => nwork[1] = "idle"
  /\ npending' = FALSE
  /\ CASE nprog.how = "handler" -> At(1, "register") /\ UNCHANGED <<nflag, nblocked, npc>>
       [] nprog.how = "suspend" -> /\ nflag' = 1
                                   /\ nblocked' = (npc = "suspend")
                                   /\ npc' = (IF npc = "suspend" THEN "test" ELSE npc)
                                   /\ UNCHANGED nwork
       [] nprog.how = "pipe" -> nflag' = nflag + 1 /\ UNCHANGED <<nwork, nblocked, npc>>
  /\ UNCHANGED <<nprog, nmsgs, nsent, nread, nreg, nlate>>

-----------------------------------------------------------------------------
(***************************************************************************)
(* The main loop                                                            *)
(***************************************************************************)
\* Sigprocmask(SIG_BLOCK), mqnotifysig2 and mqnotifysig3
NotBlock ==
  /\ npc = "block"
  /\ nblocked' = TRUE /\ npc' = "test"
  /\ UNCHANGED <<nprog, nmsgs, nsent, nread, nreg, nlate, npending, nflag, nwork>>

\* Mutant: mqflag is not reset.
NotTestKeepsFlag ==
  /\ npc = "test"
  /\ IF nflag = 0
     THEN npc' = "suspend" /\ nblocked' = FALSE /\ UNCHANGED nwork
     ELSE npc' = "work" /\ At(1, "register") /\ UNCHANGED nblocked
  /\ UNCHANGED <<nprog, nmsgs, nsent, nread, nreg, nlate, npending, nflag>>

\* The test of mqflag: sigsuspend, which unblocks the signal, or the work.
NotTest ==
  /\ npc = "test"
  /\ IF nflag = 0
     THEN npc' = "suspend" /\ nblocked' = FALSE /\ UNCHANGED <<nflag, nwork>>
     ELSE nflag' = 0 /\ npc' = "work" /\ At(1, "register") /\ UNCHANGED nblocked
  /\ UNCHANGED <<nprog, nmsgs, nsent, nread, nreg, nlate, npending>>

\* Sigwait takes the pending signal.
NotSigwait ==
  /\ npc = "wait" /\ nprog.how = "sigwait"
  /\ npending
  /\ npending' = FALSE
  /\ npc' = "work" /\ At(1, "register")
  /\ UNCHANGED <<nprog, nmsgs, nsent, nread, nreg, nlate, nblocked, nflag>>

\* Select, which the signal interrupts and the wrapper repeats, and Read of the byte
Select ==
  /\ npc = "wait" /\ nprog.how = "pipe"
  /\ nflag > 0
  /\ nflag' = nflag - 1
  /\ npc' = "work" /\ At(1, "register")
  /\ UNCHANGED <<nprog, nmsgs, nsent, nread, nreg, nlate, nblocked, npending>>

\* Sigprocmask(SIG_UNBLOCK), and the next turn of the loop
NotAgain ==
  /\ npc = "work" /\ nwork[1] = "idle"
  /\ npc' = (IF nprog.how = "suspend" THEN "block" ELSE "wait")
  /\ nblocked' = (nprog.how = "sigwait")
  /\ UNCHANGED <<nprog, nmsgs, nsent, nread, nreg, nlate, npending, nflag, nwork>>

-----------------------------------------------------------------------------
(***************************************************************************)
(* The work                                                                 *)
(***************************************************************************)
Takes == nprog.takes # "none"

\* Mutant: the process does not register again.
ReregisterMissing(w) ==
  /\ nwork[w] = "register"
  /\ At(w, IF Takes THEN "receive" ELSE "idle")
  /\ UNCHANGED <<nprog, nmsgs, nsent, nread, nreg, nlate, nblocked, npending, nflag, npc>>

\* Mq_notify, first
Reregister(w) ==
  /\ nwork[w] = "register"
  /\ nreg' = TRUE
  /\ At(w, IF Takes THEN "receive" ELSE "idle")
  /\ UNCHANGED <<nprog, nmsgs, nsent, nread, nlate, nblocked, npending, nflag, npc>>

\* mq_receive returns a message.
Mq_receive(w) ==
  /\ nwork[w] = "receive"
  /\ nmsgs > 0
  /\ nmsgs' = nmsgs - 1 /\ nread' = nread + 1
  /\ At(w, IF nprog.takes = "all" THEN "receive" ELSE "idle")
  /\ UNCHANGED <<nprog, nsent, nreg, nlate, nblocked, npending, nflag, npc>>

\* mq_receive fails with EAGAIN: the handler, the thread or the turn is done.
Mq_again(w) ==
  /\ nwork[w] = "receive" /\ nprog.takes = "all"
  /\ nmsgs = 0
  /\ At(w, "idle")
  /\ UNCHANGED <<nprog, nmsgs, nsent, nread, nreg, nlate, nblocked, npending, nflag, npc>>

NotWork(w) == Reregister(w) \/ Mq_receive(w) \/ Mq_again(w)

NotStep ==
  \/ NotMain \/ sig_usr1 \/ NotBlock \/ NotTest \/ NotSigwait \/ Select \/ NotAgain
  \/ \E w \in Workers : NotWork(w)

NotNext == MessageArrives \/ OtherReceives \/ NotStep

NotFairness == WF_notVars(NotMain \/ sig_usr1 \/ NotBlock \/ NotTest \/ NotSigwait \/ Select \/ NotAgain)
               /\ \A w \in 1..MaxWorkers : WF_notVars(w \in Workers /\ NotWork(w))

-----------------------------------------------------------------------------
NotTypeOK ==
  /\ nmsgs \in 0..MaxMsgs /\ nsent \in 0..MaxMsgs /\ nread \in 0..MaxMsgs
  /\ {nreg, nlate, nblocked, npending} \subseteq BOOLEAN
  /\ nflag \in 0..1
  /\ npc \in {"main", "block", "test", "suspend", "wait", "work", "exit"}
  /\ nwork \in [Workers -> {"idle", "register", "receive"}]

\* From the first registration on there is always exactly one of: the registration, a
\* signal pending, mqflag or the byte it has become, a worker about to register again.  So
\* no Mq_notify finds the process registered (EBUSY) and no notification is lost.
OneNotification ==
  npc \notin {"main", "exit"} =>
    (IF nreg THEN 1 ELSE 0) + (IF npending THEN 1 ELSE 0) + nflag
      + Cardinality({w \in Workers : nwork[w] = "register"}) = 1

\* The programs that receive until EAGAIN leave nothing in the queue, provided that it was
\* empty when they first registered.  (mqnotifysig1 and mqnotifysig2 do, if messages arrive
\* faster than they are received: the queue is then never empty when one arrives.)
AllNoticed == nprog.takes = "all" /\ npc # "main" /\ ~nlate => nmsgs = 0
=============================================================================
