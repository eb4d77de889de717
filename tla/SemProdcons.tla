---------------------------- MODULE SemProdcons ----------------------------
(***************************************************************************)
(* Producers and consumers that share a circular buffer of NBUFF items      *)
(* under three semaphores:                                                  *)
(*   prodcons1  pxsem/prodcons1.c, which starts the consumer when the       *)
(*              producer is done                                            *)
(*   prodcons2  pxsem/prodcons2.c, and the programs prodcons1.c of          *)
(*              my_pxsem_mmap, my_pxsem_svsem and my_pxsem_fifo             *)
(*   deadlock   pxsem/deadlock.c, whose consumer takes the mutex first      *)
(*   prodcons3  pxsem/prodcons3.c, with several producers                   *)
(*   prodcons4  pxsem/prodcons4.c, with several producers and consumers     *)
(*                                                                         *)
(* A call of a semaphore is a step; what a thread does between two calls    *)
(* belongs to the step of the second.  nput and nget are the variables of   *)
(* that name, or the variable i of the only producer or consumer; nputval   *)
(* and ngetval have their values and are left out.  The counts of the       *)
(* threads are added up.                                                    *)
(***************************************************************************)
EXTENDS Semaphores, FiniteSets

CONSTANTS Producers, Consumers,
          OneProducer, OneConsumer,   \* the threads of the programs that have one
          NBUFF,
          MaxItems                    \* bound: the number of items

ASSUME SemProdconsAssumption ==
  /\ IsFiniteSet(Producers) /\ IsFiniteSet(Consumers)
  /\ Threads = Producers \union Consumers /\ Producers \intersect Consumers = {}
  /\ OneProducer \in Producers /\ OneConsumer \in Consumers
  /\ NBUFF \in Nat \ {0} /\ MaxItems \in Nat
  /\ FifoSize \in Nat /\ FifoSize >= NBUFF
  /\ NoSem \notin Sems

Slots == 0..(NBUFF - 1)

VARIABLES program,
          nitems,                 \* the argument of the program
          buff, nput, nget,
          prodcount, conscount,   \* the items counted by all producers, consumers
          pc

args == <<impl, program, nitems>>
shared == <<buff, nput, nget>>
counts == <<prodcount, conscount>>
prodconsVars == <<args, semVars, shared, counts, pc>>

\* The programs: on which semaphores, whether the consumer starts only when the producer is
\* done, whether it takes the mutex first, and of which threads there are several; mycat2
\* copies a file.
prodcons2 ==
  [sems |-> "posix", late |-> FALSE, swapped |-> FALSE, producers |-> FALSE, consumers |-> FALSE,
   copies |-> FALSE]

prodcons1 == [prodcons2 EXCEPT !.late = TRUE]

deadlock == [prodcons2 EXCEPT !.swapped = TRUE]

prodcons3 == [prodcons2 EXCEPT !.producers = TRUE]

prodcons4 == [prodcons3 EXCEPT !.consumers = TRUE]

mmap_prodcons1 == [prodcons2 EXCEPT !.sems = "mmap"]

svsem_prodcons1 == [prodcons2 EXCEPT !.sems = "svsem"]

fifo_prodcons1 == [prodcons2 EXCEPT !.sems = "fifo"]

ProdconsPrograms ==
  {prodcons1, prodcons2, deadlock, prodcons3, prodcons4,
   mmap_prodcons1, svsem_prodcons1, fifo_prodcons1}

Uses(t) ==
  \/ t = OneProducer
  \/ t = OneConsumer
  \/ t \in Producers /\ program.producers
  \/ t \in Consumers /\ program.consumers

Value(empty) == [s \in Sems |-> CASE s = "mutex" -> 1 [] s = "nempty" -> empty
                                  [] s = "nstored" -> 0]

\* Mutant: nempty starts with one slot too many.
SemaphoresOneTooMany == SemInit(Value(NBUFF + 1))

SemaphoresCreated == SemInit(Value(NBUFF))

\* main, up to the threads
ProdconsInit(programs) ==
  /\ program \in programs
  /\ impl = program.sems
  /\ nitems \in 0..MaxItems
  /\ SemaphoresCreated
  /\ buff = [s \in Slots |-> 0] /\ nput = 0 /\ nget = 0
  /\ prodcount = 0 /\ conscount = 0
  /\ pc = [t \in Threads |-> IF ~Uses(t) THEN "absent"
                             ELSE IF program.late /\ t \in Consumers THEN "unborn"
                             ELSE "wait"]

-----------------------------------------------------------------------------
Goto(t, label) == pc' = [pc EXCEPT ![t] = label]

\* The threads with the loop for (i = 0; i < nitems; i++)
CountsItems(t) ==
  \/ ~program.producers
  \/ ~program.consumers /\ t \in Consumers

AllDone(t) == IF t \in Producers THEN nput >= nitems ELSE nget >= nitems

\* The semaphore that a thread waits for and the one that it posts
Needs(t) == IF t \in Producers THEN "nempty" ELSE "nstored"

Gives(t) == IF t \in Producers THEN "nstored" ELSE "nempty"

MutexFirst(t) == program.swapped /\ t \in Consumers

\* The thread t at label from waits for semaphore s and goes to label to.
WaitFor(t, s, from, to) ==
  /\ pc[t] = from
  /\ \/ Sem_wait(t, s) /\ Goto(t, to)
     \/ Sem_sleep(t, s) /\ UNCHANGED pc
  /\ UNCHANGED <<args, shared, counts>>

WaitFirst(t) ==
  /\ ~(CountsItems(t) /\ AllDone(t))
  /\ WaitFor(t, IF MutexFirst(t) THEN "mutex" ELSE Needs(t), "wait", "second")

WaitSecond(t) == WaitFor(t, IF MutexFirst(t) THEN Needs(t) ELSE "mutex", "second", "locked")

\* The loop of a thread that counts its items ends.
LoopEnds(t) ==
  /\ pc[t] = "wait" /\ CountsItems(t) /\ AllDone(t)
  /\ Goto(t, "done")
  /\ UNCHANGED <<args, semVars, shared, counts>>

\* produce, with the mutex: an item into the buffer, and Sem_post(mutex)
Put(t) ==
  /\ t \in Producers /\ pc[t] = "locked" /\ ~AllDone(t)
  /\ buff' = [buff EXCEPT ![nput % NBUFF] = nput]
  /\ nput' = nput + 1
  /\ Sem_post(t, "mutex")
  /\ Goto(t, "post")
  /\ UNCHANGED <<args, nget, counts>>

\* Mutant: the mutex is not posted.
GetKeepsMutex(t) ==
  /\ t \in Consumers /\ pc[t] = "locked" /\ ~AllDone(t)
  /\ nget' = nget + 1
  /\ Goto(t, "post")
  /\ UNCHANGED <<args, semVars, buff, nput, counts>>

\* consume, with the mutex: the test of the item, and Sem_post(mutex)
Get(t) ==
  /\ t \in Consumers /\ pc[t] = "locked" /\ ~AllDone(t)
  /\ nget' = nget + 1
  /\ Sem_post(t, "mutex")
  /\ Goto(t, "post")
  /\ UNCHANGED <<args, buff, nput, counts>>

\* The other Sem_post, and the count of the thread
Post(t) ==
  /\ pc[t] = "post"
  /\ Sem_post(t, Gives(t))
  /\ prodcount' = IF t \in Producers THEN prodcount + 1 ELSE prodcount
  /\ conscount' = IF t \in Consumers THEN conscount + 1 ELSE conscount
  /\ Goto(t, "wait")
  /\ UNCHANGED <<args, shared>>

-----------------------------------------------------------------------------
\* Mutant: the producers stop one item early.
FinishEarly(t) ==
  /\ pc[t] = "locked"
  /\ IF t \in Producers THEN nput + 1 >= nitems ELSE AllDone(t)
  /\ IF program.consumers THEN Sem_post(t, "nstored") ELSE UNCHANGED semVars
  /\ Goto(t, IF t \in Producers THEN "giveback" ELSE "unlock")
  /\ UNCHANGED <<args, shared, counts>>

\* A thread with the mutex finds all items done; in prodcons4 it lets a consumer
\* go on.
Finish(t) ==
  /\ pc[t] = "locked" /\ AllDone(t)
  /\ IF program.consumers THEN Sem_post(t, "nstored") ELSE UNCHANGED semVars
  /\ Goto(t, IF t \in Producers THEN "giveback" ELSE "unlock")
  /\ UNCHANGED <<args, shared, counts>>

\* Mutant: a producer that ends does not give its slot back.
GiveBackNothing(t) ==
  /\ pc[t] = "giveback"
  /\ Goto(t, "unlock")
  /\ UNCHANGED <<args, semVars, shared, counts>>

\* Sem_post(nempty) of a producer that ends
GiveBack(t) ==
  /\ pc[t] = "giveback"
  /\ Sem_post(t, "nempty")
  /\ Goto(t, "unlock")
  /\ UNCHANGED <<args, shared, counts>>

\* Sem_post(mutex) and the end of the thread
Unlock(t) ==
  /\ pc[t] = "unlock"
  /\ Sem_post(t, "mutex")
  /\ Goto(t, "done")
  /\ UNCHANGED <<args, shared, counts>>

\* Mutant: the consumer is started at once.
StartConsumerFirst ==
  /\ pc[OneConsumer] = "unborn"
  /\ Goto(OneConsumer, "wait")
  /\ UNCHANGED <<args, semVars, shared, counts>>

\* main of prodcons1: Pthread_join of the producer, Pthread_create of the consumer
StartConsumer ==
  /\ pc[OneConsumer] = "unborn" /\ pc[OneProducer] = "done"
  /\ Goto(OneConsumer, "wait")
  /\ UNCHANGED <<args, semVars, shared, counts>>

Step(t) ==
  \/ WaitFirst(t) \/ WaitSecond(t) \/ LoopEnds(t) \/ Put(t) \/ Get(t) \/ Post(t)
  \/ Finish(t) \/ GiveBack(t) \/ Unlock(t)

Spurious(t) == SpuriousWakeup(t) /\ UNCHANGED <<args, shared, counts, pc>>

ProdconsNext == StartConsumer \/ \E t \in Threads : Step(t) \/ Spurious(t)

\* Safety only; SemCat adds the fairness of the threads.
ProdconsSpec == ProdconsInit(ProdconsPrograms) /\ [][ProdconsNext]_prodconsVars

-----------------------------------------------------------------------------
ProdconsTypeOK ==
  /\ impl \in Impls /\ nitems \in 0..MaxItems
  /\ sem_count \in [Sems -> Nat] /\ sem_count["mutex"] <= 1
  /\ waiting \in [Threads -> Sems \union {NoSem}]
  /\ woken \in [Threads -> Sems \union {NoSem}]
  /\ nput \in 0..nitems /\ nget \in 0..nitems
  /\ prodcount \in 0..nitems /\ conscount \in 0..nitems

Ended == \A t \in Threads : pc[t] \in {"done", "absent"}

\* A consumer that has the mutex and an item to get finds it in the buffer: the
\* message "buff[i] = ..." is never written, although prodcons4 posts nstored
\* for items that do not exist.
ItemsInOrder ==
  \A t \in Consumers :
    pc[t] = "locked" /\ nget < nitems => nget < nput /\ buff[nget % NBUFF] = nget

\* A producer that has the mutex and an item to put has a slot that was emptied.
\* The variables have their types: the mutex is never above one.
NoOverwrite ==
  /\ ProdconsTypeOK
  /\ \A t \in Producers : pc[t] = "locked" /\ nput < nitems => nput - nget < NBUFF

\* All items were put and got, and the counts that prodcons3 and prodcons4 write
\* out account for them.
AllAccounted ==
  /\ nput = nitems /\ nget = nitems
  /\ prodcount = nitems /\ conscount = nitems

\* All threads of prodcons2, on each kind of semaphores, of prodcons3 and of
\* prodcons4 end with all items accounted for, however many items and threads
\* there are.
Terminates == program \in ProdconsPrograms \ {prodcons1, deadlock} =>
  <>(Ended /\ AllAccounted)

\* prodcons1 ends if the items fit into the buffer; with more the producer waits
\* for ever for the consumer, which is not started.
EndsOnlyIfItemsFit ==
  program = prodcons1 =>
    <>[](IF nitems <= NBUFF THEN Ended /\ AllAccounted
         ELSE pc[OneProducer] = "wait" /\ pc[OneConsumer] = "unborn" /\ nput = NBUFF)

\* deadlock ends, or stops where the consumer waits for an item with the mutex, and the
\* producer waits for the mutex with a slot; nowhere else.
StopsOnlyHoldingMutex ==
  program = deadlock =>
    <>[](\/ Ended
         \/ /\ pc[OneConsumer] = "second" /\ sem_count["nstored"] = 0
            /\ pc[OneProducer] = "second" /\ sem_count["mutex"] = 0)
=============================================================================
