--------------------------- MODULE MutexProdcons ---------------------------
(***************************************************************************)
(* The programs prodcons1.c ... prodcons7.c of the directory mutex: the     *)
(* producers fill an array, each slot with its own index, and one consumer  *)
(* looks at the slots in order.                                             *)
(*   prodcons1     no lock; the consumer starts when the producers are done *)
(*   prodcons2     a mutex; the consumer starts when the producers are done *)
(*   prodcons3, 4  the consumer polls nput under the mutex (4 yields)       *)
(*   prodcons5     a condition variable, signalled for every item           *)
(*   prodcons6, 7  nready has a mutex of its own, and the condition is      *)
(*                 signalled when nready was 0 (7 counts the signals)       *)
(*                                                                         *)
(* What a thread does between a lock and the unlock is one step.  The       *)
(* producers of prodcons1 have no lock: every access of theirs to nput,     *)
(* nval or buff is a step, and where the code names nput or nval again the  *)
(* compiled program reads it again or still has it in a register.           *)
(***************************************************************************)
EXTENDS Naturals, FiniteSets

CONSTANTS Producers,
          consumer,
          MaxItems,         \* bound: the number of items
          MaxRacedItems,    \* bound: the number of items in prodcons1
          MaxRacers         \* bound: the number of producers in prodcons1

ASSUME MutexProdconsAssumption ==
  /\ IsFiniteSet(Producers) /\ consumer \notin Producers
  /\ MaxItems \in Nat /\ MaxRacedItems \in 0..MaxItems /\ MaxRacers \in Nat

Threads == Producers \union {consumer}

\* The slots that the programs can reach, see CountsAddUp.
Slots == 0..(MaxItems + Cardinality(Producers))

VARIABLES program,
          nitems,                  \* the first argument of the program
          created,                 \* the producers: the second argument is their number
          nput, nval, buff,
          nready, nsignals,
          idx, val,                \* nput and nval, as a producer last read them
          count,                   \* *arg, added up over the producers
          i,                       \* of consume
          asleep,                  \* the consumer is in Pthread_cond_wait
          pc

args == <<program, nitems, created>>
shared == <<nput, nval, buff>>
ready == <<nready, nsignals, asleep>>
regs == <<idx, val>>
prodconsVars == <<args, shared, ready, regs, count, i, pc>>

\* The programs: whether the producers lock, how the consumer waits, whether nready has a
\* mutex of its own, and whether the signals are counted.
prodcons2 == [locks |-> TRUE, wait |-> "join", own |-> FALSE, counts |-> FALSE]

prodcons1 == [prodcons2 EXCEPT !.locks = FALSE]

prodcons3 == [prodcons2 EXCEPT !.wait = "poll"]

prodcons4 == [prodcons2 EXCEPT !.wait = "yield"]

prodcons5 == [prodcons2 EXCEPT !.wait = "cond"]

prodcons6 == [prodcons5 EXCEPT !.own = TRUE]

prodcons7 == [prodcons6 EXCEPT !.counts = TRUE]

ProdconsPrograms ==
  {prodcons1, prodcons2, prodcons3, prodcons4, prodcons5, prodcons6, prodcons7}

NoProdconsProgram == [prodcons2 EXCEPT !.wait = "idle"]

StartsLate == program.wait = "join"

Polls == program.wait \in {"poll", "yield"}

\* The shared variables, which C sets to 0
SharedZero ==
  /\ nput = 0 /\ nval = 0 /\ buff = [s \in Slots |-> 0]
  /\ nready = 0 /\ nsignals = 0 /\ asleep = FALSE
  /\ idx = [p \in Producers |-> 0] /\ val = [p \in Producers |-> 0]
  /\ count = 0 /\ i = 0

ProdconsInit ==
  /\ program \in ProdconsPrograms
  /\ nitems \in 0..MaxItems
  /\ created \in SUBSET Producers
  /\ ~program.locks => nitems <= MaxRacedItems /\ Cardinality(created) <= MaxRacers
  /\ SharedZero
  /\ pc = [t \in Threads |->
             IF t = consumer THEN (IF StartsLate THEN "unborn" ELSE "loop")
             ELSE IF t \notin created THEN "absent"
             ELSE IF program.locks THEN "put" ELSE "test"]

-----------------------------------------------------------------------------
Goto(t, label) == pc' = [pc EXCEPT ![t] = label]

\* The producers of prodcons1: a step reads nput or nval, or uses what was read.
Test(p) ==
  /\ pc[p] = "test"
  /\ idx' = [idx EXCEPT ![p] = nput]
  /\ Goto(p, IF nput >= nitems THEN "done" ELSE "index")
  /\ UNCHANGED <<args, shared, ready, val, count, i>>

ReadPut(p) ==
  /\ pc[p] \in {"index", "nput++"}
  /\ \E n \in {idx[p], nput} : idx' = [idx EXCEPT ![p] = n]
  /\ Goto(p, IF pc[p] = "index" THEN "value" ELSE "setput")
  /\ UNCHANGED <<args, shared, ready, val, count, i>>

ReadVal(p) ==
  /\ pc[p] \in {"value", "nval++"}
  /\ \E n \in IF pc[p] = "value" THEN {nval} ELSE {val[p], nval} : val' = [val EXCEPT ![p] = n]
  /\ Goto(p, IF pc[p] = "value" THEN "store" ELSE "setval")
  /\ UNCHANGED <<args, shared, ready, idx, count, i>>

Store(p) ==
  /\ pc[p] = "store"
  /\ buff' = [buff EXCEPT ![idx[p]] = val[p]]
  /\ Goto(p, "nput++")
  /\ UNCHANGED <<args, nput, nval, ready, regs, count, i>>

SetPut(p) ==
  /\ pc[p] = "setput"
  /\ nput' = idx[p] + 1
  /\ Goto(p, "nval++")
  /\ UNCHANGED <<args, nval, buff, ready, regs, count, i>>

SetVal(p) ==
  /\ pc[p] = "setval"
  /\ nval' = val[p] + 1
  /\ count' = count + 1
  /\ Goto(p, "test")
  /\ UNCHANGED <<args, nput, buff, ready, regs, i>>

-----------------------------------------------------------------------------
\* Mutant: the test for a full array is off by one.
FullLate == nput > nitems

Full == nput >= nitems

PutDone(p) ==
  /\ pc[p] = "put" /\ Full
  /\ Goto(p, "done")
  /\ UNCHANGED <<args, shared, ready, regs, count, i>>

PutItem ==
  /\ buff' = [buff EXCEPT ![nput] = nval]
  /\ nput' = nput + 1
  /\ nval' = nval + 1

\* Pthread_cond_signal: the only thread that waits is the consumer.
Signal == asleep' = FALSE

\* prodcons2 ... prodcons5: the item is ready with the mutex still locked.
Put(p) ==
  /\ pc[p] = "put" /\ ~Full /\ ~program.own
  /\ PutItem
  /\ IF program.wait = "cond" THEN nready' = nready + 1 /\ Signal /\ UNCHANGED nsignals
                              ELSE UNCHANGED ready
  /\ count' = count + 1
  /\ UNCHANGED <<args, regs, i, pc>>

\* prodcons6 and 7, with put.mutex
PutFirst(p) ==
  /\ pc[p] = "put" /\ ~Full /\ program.own
  /\ PutItem
  /\ Goto(p, "ready")
  /\ UNCHANGED <<args, ready, regs, count, i>>

\* Mutant: the condition is signalled when nready was positive.
AnnounceLate(p) ==
  /\ pc[p] = "ready"
  /\ IF nready > 0 THEN Signal ELSE UNCHANGED asleep
  /\ nsignals' = nsignals
  /\ nready' = nready + 1
  /\ count' = count + 1
  /\ Goto(p, "put")
  /\ UNCHANGED <<args, shared, regs, i>>

\* prodcons6 and 7, with nready.mutex
Announce(p) ==
  /\ pc[p] = "ready"
  /\ IF nready = 0 THEN Signal ELSE UNCHANGED asleep
  /\ nsignals' = IF nready = 0 /\ program.counts THEN nsignals + 1 ELSE nsignals
  /\ nready' = nready + 1
  /\ count' = count + 1
  /\ Goto(p, "put")
  /\ UNCHANGED <<args, shared, regs, i>>

-----------------------------------------------------------------------------
ProducersDone == \A p \in created : pc[p] = "done"

\* main of prodcons1 and 2: Pthread_join of the producers, and the consumer
StartConsumer ==
  /\ pc[consumer] = "unborn" /\ ProducersDone
  /\ Goto(consumer, "loop")
  /\ UNCHANGED <<args, shared, ready, regs, count, i>>

ConsumeEnds ==
  /\ pc[consumer] = "loop" /\ i >= nitems
  /\ Goto(consumer, "done")
  /\ UNCHANGED <<args, shared, ready, regs, count, i>>

\* Mutant: consume_wait is off by one.
ItemReadyEarly == IF StartsLate THEN TRUE ELSE IF Polls THEN i <= nput ELSE nready > 0

\* What the consumer waits for: nothing, nput (consume_wait), or nready
ItemReady == IF StartsLate THEN TRUE ELSE IF Polls THEN i < nput ELSE nready > 0

\* Mutant: nready is not decremented.
TakeKeepsReady ==
  /\ pc[consumer] = "loop" /\ i < nitems /\ ~asleep /\ ItemReady
  /\ Goto(consumer, "look")
  /\ UNCHANGED <<args, shared, ready, regs, count, i>>

Take ==
  /\ pc[consumer] = "loop" /\ i < nitems /\ ~asleep /\ ItemReady
  /\ nready' = IF StartsLate \/ Polls THEN nready ELSE nready - 1
  /\ Goto(consumer, "look")
  /\ UNCHANGED <<args, shared, nsignals, asleep, regs, count, i>>

\* The consumer finds no item: in prodcons3 and 4 it will look again.
Wait ==
  /\ pc[consumer] = "loop" /\ i < nitems /\ ~asleep /\ ~ItemReady
  /\ asleep' = ~Polls
  /\ UNCHANGED <<args, shared, nready, nsignals, regs, count, i, pc>>

\* if (buff[i] != i), without a lock
Look ==
  /\ pc[consumer] = "look"
  /\ i' = i + 1
  /\ Goto(consumer, "loop")
  /\ UNCHANGED <<args, shared, ready, regs, count>>

\* Pthread_cond_wait may return without a signal.
SpuriousWakeup ==
  /\ asleep /\ asleep' = FALSE
  /\ UNCHANGED <<args, shared, nready, nsignals, regs, count, i, pc>>

-----------------------------------------------------------------------------
Produce(p) ==
  \/ Test(p) \/ ReadPut(p) \/ ReadVal(p) \/ Store(p) \/ SetPut(p) \/ SetVal(p)
  \/ PutDone(p) \/ Put(p) \/ PutFirst(p) \/ Announce(p)

Consume == StartConsumer \/ ConsumeEnds \/ Take \/ Wait \/ Look

ProdconsNext == (\E p \in Producers : Produce(p)) \/ Consume \/ SpuriousWakeup

ProdconsFairness == (\A p \in Producers : WF_prodconsVars(Produce(p))) /\ WF_prodconsVars(Consume)

ProdconsSpec == ProdconsInit /\ [][ProdconsNext]_prodconsVars /\ ProdconsFairness

-----------------------------------------------------------------------------
IsProdcons == program \in ProdconsPrograms

Items == 0..(nitems - 1)

Signals == program.wait = "cond"

ProdconsEnded == \A t \in Threads : pc[t] \in {"done", "absent"}

ProdconsTypeOK ==
  /\ nitems \in 0..MaxItems /\ created \subseteq Producers
  /\ nput \in Nat /\ nval \in Nat /\ buff \in [Slots -> Nat]
  /\ nready \in 0..MaxItems /\ nsignals \in 0..MaxItems /\ asleep \in BOOLEAN
  /\ idx \in [Producers -> Nat] /\ val \in [Producers -> Nat]
  /\ count \in Nat /\ i \in 0..nitems

\* The slot that the consumer looks at has its item, in every program that locks
\* (and has a producer): "buff[%d] = %d" is never written.  In prodcons6 and 7
\* this needs that a count made by one producer never stands for an item that
\* another one is still storing.
ItemsSeen ==
  IsProdcons /\ program.locks /\ created # {} /\ pc[consumer] = "look" => buff[i] = i

\* The consumer is not asleep with an item ready, although prodcons6 and 7 only
\* signal the first of several; and nready counts what was put and not yet
\* taken, less what a producer has put and not yet announced.
NoMissedSignal ==
  /\ IsProdcons /\ asleep => nready = 0
  /\ Signals =>
       nready + i + (IF pc[consumer] = "look" THEN 1 ELSE 0)
              + Cardinality({p \in Producers : pc[p] = "ready"}) = nput

\* The counts that main writes out add up to the items, and the producers stopped
\* at nitems.  Those of prodcons1 may all have seen the last slot free, and each
\* put an item: one slot more for each thread but one.
CountsAddUp ==
  IF program = prodcons1
  THEN count >= nitems /\ nput <= nitems + Cardinality(created) - 1
  ELSE count = nitems /\ nput = nitems

\* With at least one producer every program ends, and its counts add up.
ProdconsEnds ==
  IsProdcons /\ created # {} => <>(ProdconsEnded /\ CountsAddUp)
=============================================================================
