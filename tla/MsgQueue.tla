------------------------------ MODULE MsgQueue ------------------------------
(***************************************************************************)
(* The Posix message queues of my_pxmsg_mmap/: one queue in a memory-mapped *)
(* file, used by processes that have it open.  The messages are slots of    *)
(* the file, linked by msg_next into a list of messages (mqh_head) and a    *)
(* list of free slots (mqh_free); 0 ends a list.                            *)
(*                                                                         *)
(* mqh_lock is held from the beginning to the end of a function, except in  *)
(* pthread_cond_wait: a function is one step, or one step up to the wait    *)
(* and one for each return from it.  Senders and receivers wait on the same *)
(* condition variable mqh_wait.  The length of messages is left out         *)
(* (EMSGSIZE changes nothing), a message is its priority and its number.    *)
(***************************************************************************)
EXTENDS Naturals, Sequences, FiniteSets

CONSTANTS Procs,      \* the processes, each of one thread
          None,       \* "no process", for mqh_pid
          MaxMsg,     \* mq_maxmsg
          Prios,      \* the priorities in use
          MaxSends,   \* bound: the number of messages sent in a run
          MaxSigs,    \* bound: the signals pending for a process
          Mortal      \* the processes that may be killed

ASSUME MsgQueueAssumption ==
  /\ IsFiniteSet(Procs) /\ None \notin Procs
  /\ MaxMsg \in Nat \ {0}
  /\ Prios \subseteq Nat
  /\ MaxSends \in Nat
  /\ MaxSigs \in Nat \ {0}
  /\ Mortal \subseteq Procs

Slots == 1..MaxMsg

VARIABLES mqh_head, mqh_free, msg_next, msg_prio, mq_curmsgs, mqh_nwait,
          mqh_pid,    \* the process registered for notification
          mqh_event,  \* its sigev_notify is SIGEV_SIGNAL
          msg_num,    \* the number of the message in each slot
          nsent,      \* how many messages were sent
          got,        \* the message received last
          open,       \* mqi_magic = MQI_MAGIC
          nonblock,   \* mqi_flags & O_NONBLOCK
          pc,         \* where each process is
          arg,        \* the priority that a blocked mq_send was called with
          sigs        \* the signals pending for each process

queue == <<mqh_head, mqh_free, msg_next, msg_prio, msg_num, mq_curmsgs, nsent, got>>
registration == <<mqh_pid, mqh_event, sigs>>
descriptors == <<open, nonblock>>
vars == <<queue, mqh_nwait, registration, descriptors, pc, arg>>

\* The lists: the slots from slot s on.
List[s \in 0..MaxMsg] == IF s = 0 THEN <<>> ELSE <<s>> \o List[msg_next[s]]

Message(s) == <<msg_prio[s], msg_num[s]>>

Full == mq_curmsgs >= MaxMsg

\* The queue as mq_open creates it, all its slots on the free list, opened by
\* every process.
Init ==
  /\ mqh_head = 0
  /\ mqh_free = 1
  /\ msg_next = [s \in Slots |-> IF s = MaxMsg THEN 0 ELSE s + 1]
  /\ msg_prio = [s \in Slots |-> 0]
  /\ msg_num = [s \in Slots |-> 0]
  /\ mq_curmsgs = 0
  /\ mqh_nwait = 0
  /\ mqh_pid = None
  /\ mqh_event = FALSE
  /\ nsent = 0
  /\ got = <<0, 0>>
  /\ open = [p \in Procs |-> TRUE]
  /\ nonblock = [p \in Procs |-> FALSE]
  /\ pc = [p \in Procs |-> "idle"]
  /\ arg = [p \in Procs |-> 0]
  /\ sigs = [p \in Procs |-> 0]

-----------------------------------------------------------------------------
Ready(p) == pc[p] = "idle" /\ open[p]

\* kill(pid, 0) fails with ESRCH.
Dead(p) == pc[p] \in {"dead", "recvdead"}

\* pthread_cond_signal(&mqh_wait), when the processes are at l.
Signal(l) ==
  LET waiting == {p \in Procs : l[p] \in {"sendwait", "recvwait"}} IN
  IF waiting = {}
  THEN pc' = l
  ELSE \E w \in waiting :
         pc' = [l EXCEPT ![w] = IF @ = "sendwait" THEN "sendwoken" ELSE "recvwoken"]

\* Mutant: a new message overtakes those of its own priority.
GoesBeforeEqual(prio, s) == prio >= msg_prio[s]

\* A new message goes before the messages of lower priority.
GoesBefore(prio, s) == prio > msg_prio[s]

\* Mutants: mq_curmsgs is changed before it is tested.
WasEmptyLate == mq_curmsgs + 1 = 0
WasFullLate == mq_curmsgs - 1 = MaxMsg

\* When mq_send and mq_receive signal mqh_wait.
WasEmpty == mq_curmsgs = 0
WasFull == mq_curmsgs = MaxMsg

\* Take the first free slot for a message of priority prio, link it before the
\* first message of lower priority, and wake up one process if the queue was
\* empty.
Put(p, prio) ==
  LET new == mqh_free
      messages == List[mqh_head]
      lower == {i \in DOMAIN messages : GoesBefore(prio, messages[i])}
      index == IF lower = {} THEN 0
               ELSE messages[CHOOSE i \in lower : \A j \in lower : i <= j]
      before == {s \in Slots : \E i \in DOMAIN messages :
                                 messages[i] = s /\ msg_next[s] = index}
      done == [pc EXCEPT ![p] = "idle"]
  IN /\ mqh_free # 0
     /\ mqh_free' = msg_next[new]
     /\ msg_prio' = [msg_prio EXCEPT ![new] = prio]
     /\ msg_num' = [msg_num EXCEPT ![new] = nsent + 1]
     /\ mqh_head' = IF mqh_head = index THEN new ELSE mqh_head
     /\ msg_next' = [s \in Slots |-> IF s = new THEN index
                                     ELSE IF s \in before THEN new ELSE msg_next[s]]
     /\ mq_curmsgs' = mq_curmsgs + 1
     /\ nsent' = nsent + 1
     /\ IF WasEmpty THEN Signal(done) ELSE pc' = done
     /\ UNCHANGED got

\* Mutant: receivers that wait do not prevent the notification.
NotifyRegisteredAlways ==
  IF mq_curmsgs = 0 /\ mqh_pid # None
  THEN /\ sigs' = IF mqh_event /\ ~Dead(mqh_pid)
                  THEN [sigs EXCEPT ![mqh_pid] = @ + 1] ELSE sigs
       /\ mqh_pid' = None
       /\ UNCHANGED mqh_event
  ELSE UNCHANGED registration

\* A message for an empty queue that no receiver waits for: notify the
\* registered process.  One notification ends the registration.
NotifyRegistered ==
  IF mq_curmsgs = 0 /\ mqh_pid # None /\ mqh_nwait = 0
  THEN /\ sigs' = IF mqh_event /\ ~Dead(mqh_pid)
                  THEN [sigs EXCEPT ![mqh_pid] = @ + 1] ELSE sigs
       /\ mqh_pid' = None
       /\ UNCHANGED mqh_event
  ELSE UNCHANGED registration

\* mq_send on a queue that is not full
Send(p, prio) ==
  /\ Ready(p)
  /\ nsent < MaxSends
  /\ mqh_pid # None => sigs[mqh_pid] < MaxSigs
  /\ ~Full
  /\ NotifyRegistered
  /\ Put(p, prio)
  /\ UNCHANGED <<mqh_nwait, descriptors, arg>>

\* mq_send on a full queue: wait for room for one message.
SendBlock(p, prio) ==
  /\ Ready(p)
  /\ nsent < MaxSends
  /\ Full
  /\ ~nonblock[p]
  /\ pc' = [pc EXCEPT ![p] = "sendwait"]
  /\ arg' = [arg EXCEPT ![p] = prio]
  /\ UNCHANGED <<queue, mqh_nwait, registration, descriptors>>

\* pthread_cond_wait returns in mq_send: the queue is still full ...
SendWaitAgain(p) ==
  /\ pc[p] = "sendwoken"
  /\ Full
  /\ pc' = [pc EXCEPT ![p] = "sendwait"]
  /\ UNCHANGED <<queue, mqh_nwait, registration, descriptors, arg>>

\* ... or there is room.  The test for notification is not made again.
SendResume(p) ==
  /\ pc[p] = "sendwoken"
  /\ ~Full
  /\ nsent < MaxSends
  /\ Put(p, arg[p])
  /\ arg' = [arg EXCEPT ![p] = 0]
  /\ UNCHANGED <<mqh_nwait, registration, descriptors>>

-----------------------------------------------------------------------------
\* Mutant: the free list is not linked to the slot in front of it.
TakeUnlinked(p) ==
  LET first == mqh_head
      done == [pc EXCEPT ![p] = "idle"]
  IN /\ mqh_head # 0
     /\ mqh_head' = msg_next[first]
     /\ got' = Message(first)
     /\ mqh_free' = first
     /\ IF WasFull THEN Signal(done) ELSE pc' = done
     /\ mq_curmsgs' = mq_curmsgs - 1
     /\ UNCHANGED <<msg_next, msg_prio, msg_num, nsent>>

\* Unlink the first message, put its slot in front of the free list, and wake
\* up one process if the queue was full.
Take(p) ==
  LET first == mqh_head
      done == [pc EXCEPT ![p] = "idle"]
  IN /\ mqh_head # 0
     /\ mqh_head' = msg_next[first]
     /\ got' = Message(first)
     /\ msg_next' = [msg_next EXCEPT ![first] = mqh_free]
     /\ mqh_free' = first
     /\ IF WasFull THEN Signal(done) ELSE pc' = done
     /\ mq_curmsgs' = mq_curmsgs - 1
     /\ UNCHANGED <<msg_prio, msg_num, nsent>>

\* mq_receive on a queue that is not empty
Receive(p) ==
  /\ Ready(p)
  /\ mq_curmsgs # 0
  /\ Take(p)
  /\ UNCHANGED <<mqh_nwait, registration, descriptors, arg>>

\* mq_receive on an empty queue: wait for a message.
RecvBlock(p) ==
  /\ Ready(p)
  /\ mq_curmsgs = 0
  /\ ~nonblock[p]
  /\ mqh_nwait' = mqh_nwait + 1
  /\ pc' = [pc EXCEPT ![p] = "recvwait"]
  /\ UNCHANGED <<queue, registration, descriptors, arg>>

\* pthread_cond_wait returns in mq_receive.
RecvWaitAgain(p) ==
  /\ pc[p] = "recvwoken"
  /\ mq_curmsgs = 0
  /\ pc' = [pc EXCEPT ![p] = "recvwait"]
  /\ UNCHANGED <<queue, mqh_nwait, registration, descriptors, arg>>

\* Mutant: mqh_nwait is not taken back.
RecvResumeUncounted(p) ==
  /\ pc[p] = "recvwoken"
  /\ mq_curmsgs # 0
  /\ Take(p)
  /\ UNCHANGED <<mqh_nwait, registration, descriptors, arg>>

RecvResume(p) ==
  /\ pc[p] = "recvwoken"
  /\ mq_curmsgs # 0
  /\ mqh_nwait' = mqh_nwait - 1
  /\ Take(p)
  /\ UNCHANGED <<registration, descriptors, arg>>

-----------------------------------------------------------------------------
\* mq_notify with a notification: EBUSY while a live process is registered.
Notify(p, event) ==
  /\ Ready(p)
  /\ mqh_pid # None => Dead(mqh_pid)
  /\ mqh_pid' = p
  /\ mqh_event' = event
  /\ UNCHANGED <<queue, mqh_nwait, descriptors, pc, arg, sigs>>

\* mq_notify(mqd, NULL): no error if the caller is not registered.
Unregister(p) == mqh_pid' = IF mqh_pid = p THEN None ELSE mqh_pid

NotifyNull(p) ==
  /\ Ready(p)
  /\ Unregister(p)
  /\ UNCHANGED <<queue, mqh_nwait, descriptors, pc, arg, sigs, mqh_event>>

Close(p) ==
  /\ Ready(p)
  /\ Unregister(p)
  /\ open' = [open EXCEPT ![p] = FALSE]
  /\ UNCHANGED <<queue, mqh_nwait, nonblock, pc, arg, sigs, mqh_event>>

\* mq_open of the existing queue, with or without O_NONBLOCK
Open(p, flag) ==
  /\ pc[p] = "idle"
  /\ ~open[p]
  /\ open' = [open EXCEPT ![p] = TRUE]
  /\ nonblock' = [nonblock EXCEPT ![p] = flag]
  /\ UNCHANGED <<queue, mqh_nwait, registration, pc, arg>>

SetAttr(p, flag) ==
  /\ Ready(p)
  /\ nonblock' = [nonblock EXCEPT ![p] = flag]
  /\ UNCHANGED <<queue, mqh_nwait, registration, open, pc, arg>>

-----------------------------------------------------------------------------
SpuriousWakeup(p) ==
  /\ \/ pc[p] = "sendwait" /\ pc' = [pc EXCEPT ![p] = "sendwoken"]
     \/ pc[p] = "recvwait" /\ pc' = [pc EXCEPT ![p] = "recvwoken"]
  /\ UNCHANGED <<queue, mqh_nwait, registration, descriptors, arg>>

\* The process catches a pending signal.
Catch(p) ==
  /\ ~Dead(p)
  /\ sigs[p] > 0
  /\ sigs' = [sigs EXCEPT ![p] = @ - 1]
  /\ UNCHANGED <<queue, mqh_nwait, mqh_pid, mqh_event, descriptors, pc, arg>>

\* The process is killed outside the functions, or while it waits in them.
\* One killed in mq_receive is remembered as "recvdead".
Die(p) ==
  /\ p \in Mortal
  /\ pc[p] \in {"idle", "sendwait", "recvwait"}
  /\ pc' = [pc EXCEPT ![p] = IF @ = "recvwait" THEN "recvdead" ELSE "dead"]
  /\ sigs' = [sigs EXCEPT ![p] = 0]
  /\ UNCHANGED <<queue, mqh_nwait, mqh_pid, mqh_event, descriptors, arg>>

Next == \E p \in Procs :
          \/ \E prio \in Prios : Send(p, prio) \/ SendBlock(p, prio)
          \/ SendWaitAgain(p) \/ SendResume(p)
          \/ Receive(p) \/ RecvBlock(p) \/ RecvWaitAgain(p) \/ RecvResume(p)
          \/ \E event \in BOOLEAN : Notify(p, event)
          \/ NotifyNull(p) \/ Close(p)
          \/ \E flag \in BOOLEAN : Open(p, flag) \/ SetAttr(p, flag)
          \/ SpuriousWakeup(p) \/ Catch(p) \/ Die(p)

Spec == Init /\ [][Next]_vars

-----------------------------------------------------------------------------
\* Every variable has its type.
TypeOK ==
  /\ mqh_head \in 0..MaxMsg /\ mqh_free \in 0..MaxMsg
  /\ msg_next \in [Slots -> 0..MaxMsg]
  /\ msg_prio \in [Slots -> Prios \cup {0}]
  /\ msg_num \in [Slots -> 0..MaxSends]
  /\ mq_curmsgs \in 0..MaxMsg
  /\ mqh_nwait \in 0..Cardinality(Procs)
  /\ mqh_pid \in Procs \cup {None} /\ mqh_event \in BOOLEAN
  /\ nsent \in 0..MaxSends
  /\ got \in (Prios \cup {0}) \X (0..MaxSends)
  /\ open \in [Procs -> BOOLEAN] /\ nonblock \in [Procs -> BOOLEAN]
  /\ pc \in [Procs -> {"idle", "sendwait", "sendwoken", "recvwait", "recvwoken",
                    "dead", "recvdead"}]
  /\ arg \in [Procs -> Prios \cup {0}]
  /\ sigs \in [Procs -> 0..MaxSigs]

Elements(list) == {list[i] : i \in DOMAIN list}

\* Every slot is on exactly one of the two lists, and mq_curmsgs is the length
\* of the list of messages: the err_dump of mq_send (no free slot although the
\* queue is not full) and the one of mq_receive are never reached, and no
\* message is lost or read twice.  The variables have their types.
ListsPartitionSlots ==
  LET messages == List[mqh_head]
      free == List[mqh_free]
  IN /\ TypeOK
     /\ Len(messages) = mq_curmsgs
     /\ Len(messages) + Len(free) = MaxMsg
     /\ Elements(messages) \cup Elements(free) = Slots

\* Sending and receiving through the linked lists implement a bounded priority
\* queue that is first-in, first-out within a priority.
PQ ==
  INSTANCE PriorityQueue WITH
    msgs <- {Message(s) : s \in Elements(List[mqh_head])}

ImplementsPriorityQueue == PQ!PQSpec

Waiting(labels) == {p \in Procs : pc[p] \in labels}

\* mqh_nwait is the number of processes blocked in mq_receive, and of those
\* that were killed there: the count is in the file, and nobody takes a killed
\* process off it.
NwaitCountsReceivers ==
  mqh_nwait = Cardinality(Waiting({"recvwait", "recvwoken", "recvdead"}))

\* A process is only signalled when a message arrives at an empty queue that
\* no process is blocked in mq_receive on, and this uses up its registration.
SignalsOnArrivalOnly ==
  [][\A p \in Procs : sigs'[p] > sigs[p] =>
        /\ mq_curmsgs = 0 /\ mq_curmsgs' = 1
        /\ mqh_pid = p /\ mqh_pid' = None
        /\ Waiting({"recvwait", "recvwoken"}) = {}]_vars

\* No receiver sleeps beside a message, unless another process was woken up
\* and still has to run.
ReceiversWoken ==
  mq_curmsgs > 0 /\ Waiting({"recvwait"}) # {} => Waiting({"recvwoken", "sendwoken"}) # {}

=============================================================================
