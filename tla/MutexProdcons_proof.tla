------------------------ MODULE MutexProdcons_proof ------------------------
(***************************************************************************)
(* Proofs about MutexProdcons, for any finite set of producers and any      *)
(* number of items: the consumer of a program that locks finds every item   *)
(* that it looks at, and no signal of prodcons5, 6 and 7 is missed.         *)
(***************************************************************************)
EXTENDS MutexProdcons, FiniteSetTheorems, TLAPS

\* The producers that have put an item and not yet counted it in nready
Unannounced == {p \in Producers : pc[p] = "ready"}

\* nready is what was put, less what the consumer has taken and what is unannounced.
Accounted ==
  nready + i + (IF pc[consumer] = "look" THEN 1 ELSE 0) + Cardinality(Unannounced) = nput

\* What holds in the programs whose producers lock
Locked ==
  /\ nput \in 0..nitems /\ nval = nput
  /\ buff \in [Slots -> Nat]
  /\ \A k \in 0..(nput - 1) : buff[k] = k
  /\ nready \in Nat /\ i \in 0..nitems
  /\ \A p \in Producers : pc[p] \in {"absent", "put", "ready", "done"}
  /\ pc[consumer] \in {"unborn", "loop", "look", "done"}
  /\ \A p \in Producers : pc[p] = "done" => nput = nitems
  /\ StartsLate /\ pc[consumer] # "unborn" => ProducersDone
  /\ pc[consumer] = "look" => i < nitems /\ (Polls => i < nput)
  /\ Signals => Accounted

\* The inductive invariant
IInv ==
  /\ program \in ProdconsPrograms
  /\ nitems \in 0..MaxItems /\ created \subseteq Producers
  /\ DOMAIN pc = Threads
  /\ asleep \in BOOLEAN
  /\ asleep => Signals /\ nready = 0
  /\ program.locks => Locked

-----------------------------------------------------------------------------
\* What tells the programs prodcons1 ... prodcons7 apart, as far as it is needed: only
\* prodcons1 does not lock, and its consumer starts late.
LEMMA ProgramFacts ==
  ASSUME program \in ProdconsPrograms
  PROVE  /\ program.locks \in BOOLEAN /\ program.own \in BOOLEAN
         /\ program.wait \in {"join", "poll", "yield", "cond"}
         /\ ~program.locks => program.wait = "join"
         /\ program.own => program.wait = "cond"
<1>1. CASE program = prodcons1
  BY <1>1 DEF prodcons1, prodcons2
<1>2. CASE program = prodcons2
  BY <1>2 DEF prodcons2
<1>3. CASE program = prodcons3
  BY <1>3 DEF prodcons3, prodcons2
<1>4. CASE program = prodcons4
  BY <1>4 DEF prodcons4, prodcons2
<1>5. CASE program = prodcons5
  BY <1>5 DEF prodcons5, prodcons2
<1>6. CASE program = prodcons6
  BY <1>6 DEF prodcons6, prodcons5, prodcons2
<1>7. CASE program = prodcons7
  BY <1>7 DEF prodcons7, prodcons6, prodcons5, prodcons2
<1> QED
  BY <1>1, <1>2, <1>3, <1>4, <1>5, <1>6, <1>7 DEF ProdconsPrograms

\* The array has a slot for every item.
LEMMA SlotsSuffice ==
  ASSUME NEW n \in 0..MaxItems
  PROVE  n \in Slots
<1>1. Cardinality(Producers) \in Nat
  BY FS_CardinalityType, MutexProdconsAssumption
<1> QED
  BY <1>1, MutexProdconsAssumption DEF Slots

LEMMA UnannouncedFinite ==
  IsFiniteSet(Unannounced) /\ Cardinality(Unannounced) \in Nat
<1>1. Unannounced \subseteq Producers
  BY DEF Unannounced
<1> QED
  BY <1>1, FS_Subset, FS_CardinalityType, MutexProdconsAssumption

\* A step that moves no producer to or from the announcement
LEMMA UnannouncedKept ==
  ASSUME \A p \in Producers : (pc'[p] = "ready") <=> (pc[p] = "ready")
  PROVE  Cardinality(Unannounced)' = Cardinality(Unannounced)
<1>1. Unannounced' = Unannounced
  BY DEF Unannounced
<1> QED
  BY <1>1

LEMMA UnannouncedMore ==
  ASSUME NEW p \in Producers, DOMAIN pc = Threads, pc[p] # "ready",
         pc' = [pc EXCEPT ![p] = "ready"]
  PROVE  Cardinality(Unannounced)' = Cardinality(Unannounced) + 1
<1>1. Unannounced' = Unannounced \cup {p} /\ p \notin Unannounced
  BY DEF Unannounced, Threads
<1>2. Cardinality(Unannounced \cup {p}) = Cardinality(Unannounced) + 1
  BY <1>1, UnannouncedFinite, FS_AddElement
<1> QED
  BY <1>1, <1>2

LEMMA UnannouncedLess ==
  ASSUME NEW p \in Producers, DOMAIN pc = Threads, pc[p] = "ready",
         pc' = [pc EXCEPT ![p] = "put"]
  PROVE  Cardinality(Unannounced)' = Cardinality(Unannounced) - 1
<1>1. Unannounced' = Unannounced \ {p} /\ p \in Unannounced
  BY DEF Unannounced, Threads
<1>2. Cardinality(Unannounced \ {p}) = Cardinality(Unannounced) - 1
  BY <1>1, UnannouncedFinite, FS_RemoveElement
<1> QED
  BY <1>1, <1>2

-----------------------------------------------------------------------------
LEMMA InitIInv == ProdconsInit => IInv
<1> SUFFICES ASSUME ProdconsInit PROVE IInv
  OBVIOUS
<1>1. /\ program \in ProdconsPrograms /\ nitems \in 0..MaxItems /\ created \subseteq Producers
      /\ DOMAIN pc = Threads /\ asleep = FALSE /\ nput = 0 /\ nval = 0 /\ nready = 0 /\ i = 0
      /\ buff = [s \in Slots |-> 0]
  BY DEF ProdconsInit, SharedZero
<1>2. nitems \in Nat
  BY <1>1, MutexProdconsAssumption
<1>3. \A p \in Producers : p \in Threads /\ p # consumer
  BY MutexProdconsAssumption DEF Threads
<1>4. ASSUME program.locks PROVE Locked
  <2>1. \A p \in Producers : pc[p] \in {"absent", "put"}
    BY <1>3, <1>4 DEF ProdconsInit
  <2>2. pc[consumer] = IF StartsLate THEN "unborn" ELSE "loop"
    BY DEF ProdconsInit, Threads
  <2>3. Unannounced = {}
    BY <2>1 DEF Unannounced
  <2>4. Accounted
    BY <1>1, <2>2, <2>3, FS_EmptySet DEF Accounted
  <2> QED
    BY <1>1, <1>2, <2>1, <2>2, <2>4 DEF Locked
<1> QED
  BY <1>1, <1>4 DEF IInv

\* The arguments of the program never change, and every thread stays a thread.
LEMMA ArgsKept ==
  ASSUME IInv, [ProdconsNext]_prodconsVars
  PROVE  /\ program' = program /\ nitems' = nitems /\ created' = created
         /\ DOMAIN pc' = Threads
BY DEF IInv, ProdconsNext, prodconsVars, args, Produce, Test, ReadPut, ReadVal, Store, SetPut,
       SetVal, PutDone, Put, PutFirst, Announce, Consume, StartConsumer, ConsumeEnds, Take,
       Wait, Look, SpuriousWakeup, Goto

\* In prodcons1 the consumer never sleeps.
LEMMA UnlockedStep ==
  ASSUME IInv, ~program.locks, [ProdconsNext]_prodconsVars
  PROVE  IInv'
<1>1. StartsLate /\ ~Signals /\ asleep = FALSE
  BY ProgramFacts DEF IInv, StartsLate, Signals
<1>2. asleep' = FALSE
  BY <1>1 DEF ProdconsNext, prodconsVars, ready, Produce, Test, ReadPut, ReadVal, Store, SetPut,
       SetVal, PutDone, Put, Signal, PutFirst, Announce, Consume, StartConsumer, ConsumeEnds, Take,
       Wait, ItemReady, Look, SpuriousWakeup
<1> QED
  BY <1>2, ArgsKept DEF IInv

-----------------------------------------------------------------------------
\* The item that a producer puts, with the mutex
LEMMA PutItemKeeps ==
  ASSUME IInv, Locked, ~Full, PutItem, nitems' = nitems
  PROVE  /\ nput \in Nat /\ nput < nitems /\ nput' = nput + 1
         /\ nput' \in 0..nitems' /\ nval' = nput'
         /\ buff' \in [Slots -> Nat]
         /\ \A k \in 0..(nput' - 1) : buff'[k] = k
<1>1. /\ nitems \in Nat /\ nitems <= MaxItems /\ nput \in 0..nitems /\ nval = nput
      /\ buff \in [Slots -> Nat]
  BY MutexProdconsAssumption DEF IInv, Locked
<1>2. nput < nitems
  BY <1>1 DEF Full
<1>3. nput \in Slots
  BY <1>1, <1>2, SlotsSuffice, MutexProdconsAssumption
<1>4. buff' = [buff EXCEPT ![nput] = nput] /\ nput' = nput + 1 /\ nval' = nput'
  BY <1>1 DEF PutItem
<1>5. ASSUME NEW k \in 0..(nput' - 1) PROVE buff'[k] = k
  <2>1. k \in Slots
    BY <1>1, <1>2, <1>4, SlotsSuffice, MutexProdconsAssumption
  <2>2. k = nput \/ k \in 0..(nput - 1)
    BY <1>1, <1>4
  <2> QED
    BY <1>1, <1>3, <1>4, <2>1, <2>2 DEF Locked
<1> QED
  BY <1>1, <1>2, <1>3, <1>4, <1>5

\* A step that changes neither the array nor the counts nor the consumer's index.
LEMMA ArrayKept ==
  ASSUME Locked, nitems' = nitems, nput' = nput, nval' = nval, buff' = buff
  PROVE  /\ nput' \in 0..nitems' /\ nval' = nput' /\ buff' \in [Slots -> Nat]
         /\ \A k \in 0..(nput' - 1) : buff'[k] = k
BY DEF Locked

\* The steps of a producer of a program that locks
LEMMA ProducerStep ==
  ASSUME IInv, program.locks, NEW p \in Producers, Produce(p), DOMAIN pc' = Threads,
         program' = program, nitems' = nitems, created' = created
  PROVE  IInv'
<1>1. /\ Locked /\ pc[p] \in {"absent", "put", "ready", "done"}
      /\ p # consumer /\ p \in Threads /\ consumer \in Threads
  BY MutexProdconsAssumption DEF IInv, Locked, Threads
<1>2. /\ nitems \in Nat /\ nready \in Nat /\ i \in Nat /\ nput \in Nat
      /\ Cardinality(Unannounced) \in Nat
  BY <1>1, UnannouncedFinite, MutexProdconsAssumption DEF IInv, Locked
<1>3. CASE PutDone(p)
  <2>1. /\ pc' = [pc EXCEPT ![p] = "done"] /\ pc[p] = "put" /\ nput >= nitems
        /\ nput' = nput /\ nval' = nval /\ buff' = buff
        /\ nready' = nready /\ asleep' = asleep /\ i' = i
    BY <1>3 DEF PutDone, Full, Goto, shared, ready
  <2>2. nput = nitems
    BY <1>1, <1>2, <2>1 DEF Locked
  <2>3. \A q \in Producers : (pc'[q] = "ready") <=> (pc[q] = "ready")
    BY <1>1, <2>1 DEF IInv, Threads
  <2>4. Accounted <=> Accounted'
    BY <1>1, <2>1, <2>3, UnannouncedKept DEF Accounted, IInv
  <2>5. Locked'
    BY <1>1, <2>1, <2>2, <2>4, ArrayKept
       DEF Locked, IInv, Threads, StartsLate, ProducersDone, Polls, Signals
  <2> QED
    BY <2>1, <2>5 DEF IInv, Signals
<1>4. CASE Put(p)
  <2>1. /\ pc' = pc /\ i' = i /\ ~Full /\ PutItem
        /\ IF Signals THEN nready' = nready + 1 /\ asleep' = FALSE
                      ELSE nready' = nready /\ asleep' = asleep
    BY <1>4 DEF Put, Signal, Signals, ready
  <2>2. /\ nput < nitems /\ nput' = nput + 1
        /\ nput' \in 0..nitems' /\ nval' = nput' /\ buff' \in [Slots -> Nat]
        /\ \A k \in 0..(nput' - 1) : buff'[k] = k
    BY <1>1, <2>1, PutItemKeeps
  <2>3. Cardinality(Unannounced)' = Cardinality(Unannounced)
    BY <2>1, UnannouncedKept
  <2>4. Signals /\ Accounted => Accounted'
    BY <1>2, <2>1, <2>2, <2>3 DEF Accounted
  <2>5. \A q \in Producers : pc[q] # "done"
    BY <1>1, <1>2, <2>2 DEF Locked
  <2>6. Locked'
    BY <1>1, <1>2, <2>1, <2>2, <2>4, <2>5
       DEF Locked, StartsLate, ProducersDone, Polls, Signals
  <2> QED
    BY <2>1, <2>6 DEF IInv, Signals
<1>5. CASE PutFirst(p)
  <2>1. /\ pc' = [pc EXCEPT ![p] = "ready"] /\ pc[p] = "put" /\ i' = i /\ ~Full /\ PutItem
        /\ nready' = nready /\ asleep' = asleep /\ program.own
    BY <1>5 DEF PutFirst, Goto, ready
  <2>2. /\ nput < nitems /\ nput' = nput + 1
        /\ nput' \in 0..nitems' /\ nval' = nput' /\ buff' \in [Slots -> Nat]
        /\ \A k \in 0..(nput' - 1) : buff'[k] = k
    BY <1>1, <2>1, PutItemKeeps
  <2>3. Cardinality(Unannounced)' = Cardinality(Unannounced) + 1
    BY <2>1, UnannouncedMore DEF IInv
  <2>4. pc'[consumer] = pc[consumer]
    BY <1>1, <2>1 DEF IInv
  <2>5. Accounted => Accounted'
    BY <1>2, <2>1, <2>2, <2>3, <2>4 DEF Accounted
  <2>6. \A q \in Producers : pc[q] # "done" /\ pc'[q] \in {"absent", "put", "ready"}
    BY <1>1, <1>2, <2>1, <2>2 DEF Locked, IInv, Threads
  <2>7. ~StartsLate
    BY <2>1, ProgramFacts DEF IInv, StartsLate
  <2>8. Locked'
    BY <1>1, <1>2, <2>1, <2>2, <2>4, <2>5, <2>6, <2>7
       DEF Locked, StartsLate, ProducersDone, Polls, Signals
  <2> QED
    BY <2>1, <2>8 DEF IInv, Signals
<1>6. CASE Announce(p)
  <2>1. /\ pc' = [pc EXCEPT ![p] = "put"] /\ pc[p] = "ready" /\ i' = i
        /\ nput' = nput /\ nval' = nval /\ buff' = buff
        /\ nready' = nready + 1
        /\ IF nready = 0 THEN asleep' = FALSE ELSE asleep' = asleep
    BY <1>6 DEF Announce, Goto, Signal, shared
  <2>2. Cardinality(Unannounced)' = Cardinality(Unannounced) - 1
    BY <2>1, UnannouncedLess DEF IInv
  <2>3. pc'[consumer] = pc[consumer]
    BY <1>1, <2>1 DEF IInv
  <2>4. Accounted => Accounted'
    BY <1>2, <2>1, <2>2, <2>3 DEF Accounted
  <2>5. \A q \in Producers : /\ pc'[q] \in {"absent", "put", "ready", "done"}
                             /\ pc'[q] = "done" => pc[q] = "done"
    BY <1>1, <2>1 DEF Locked, IInv, Threads
  <2>6. ProducersDone => ProducersDone'
    BY <1>1, <2>1 DEF ProducersDone, IInv, Threads
  <2>7. Locked'
    BY <1>1, <1>2, <2>1, <2>3, <2>4, <2>5, <2>6, ArrayKept
       DEF Locked, StartsLate, Polls, Signals
  <2>8. asleep' = FALSE
    BY <2>1 DEF IInv
  <2> QED
    BY <2>7, <2>8 DEF IInv
<1> QED
  BY <1>1, <1>3, <1>4, <1>5, <1>6
     DEF Produce, Test, ReadPut, ReadVal, Store, SetPut, SetVal

\* The steps of the consumer, and a wakeup without a signal
LEMMA ConsumerStep ==
  ASSUME IInv, program.locks, Consume \/ SpuriousWakeup, DOMAIN pc' = Threads,
         program' = program, nitems' = nitems, created' = created
  PROVE  IInv'
<1>1. /\ Locked /\ consumer \in Threads
      /\ \A q \in Producers : q # consumer /\ q \in Threads
  BY MutexProdconsAssumption DEF IInv, Locked, Threads
<1>2. /\ nitems \in Nat /\ nready \in Nat /\ i \in Nat /\ nput \in Nat
      /\ Cardinality(Unannounced) \in Nat
  BY <1>1, UnannouncedFinite, MutexProdconsAssumption DEF IInv, Locked
<1>3. nput' = nput /\ nval' = nval /\ buff' = buff
  BY DEF Consume, StartConsumer, ConsumeEnds, Take, Wait, Look, SpuriousWakeup, shared
<1>4. \A q \in Producers : pc'[q] = pc[q]
  BY <1>1 DEF IInv, Consume, StartConsumer, ConsumeEnds, Take, Wait, Look, SpuriousWakeup, Goto
<1>5. Cardinality(Unannounced)' = Cardinality(Unannounced)
  BY <1>4, UnannouncedKept
<1>6. ProducersDone' <=> ProducersDone
  BY <1>4 DEF IInv, ProducersDone
<1> DEFINE Rest ==
      /\ nready' \in Nat /\ i' \in 0..nitems'
      /\ pc'[consumer] \in {"unborn", "loop", "look", "done"}
      /\ StartsLate' /\ pc'[consumer] # "unborn" => ProducersDone'
      /\ pc'[consumer] = "look" => i' < nitems' /\ (Polls' => i' < nput')
      /\ Signals' => Accounted'
<1>7. Rest => Locked'
  BY <1>1, <1>3, <1>4, ArrayKept DEF Locked
<1> HIDE DEF Rest
<1>8. CASE StartConsumer
  <2>1. /\ pc' = [pc EXCEPT ![consumer] = "loop"] /\ pc[consumer] = "unborn" /\ ProducersDone
        /\ nready' = nready /\ asleep' = asleep /\ i' = i
    BY <1>8 DEF StartConsumer, Goto, ready
  <2>2. Accounted => Accounted'
    BY <1>1, <1>3, <1>5, <2>1 DEF Accounted, IInv
  <2>3. Rest
    BY <1>1, <1>6, <2>1, <2>2 DEF Rest, Locked, IInv, StartsLate, Polls, Signals
  <2> QED
    BY <1>7, <2>1, <2>3 DEF IInv, Signals
<1>9. CASE ConsumeEnds
  <2>1. /\ pc' = [pc EXCEPT ![consumer] = "done"] /\ pc[consumer] = "loop"
        /\ nready' = nready /\ asleep' = asleep /\ i' = i
    BY <1>9 DEF ConsumeEnds, Goto, ready
  <2>2. Accounted => Accounted'
    BY <1>1, <1>3, <1>5, <2>1 DEF Accounted, IInv
  <2>3. Rest
    BY <1>1, <1>6, <2>1, <2>2 DEF Rest, Locked, IInv, StartsLate, Polls, Signals
  <2> QED
    BY <1>7, <2>1, <2>3 DEF IInv, Signals
<1>10. CASE Take
  <2>1. /\ pc' = [pc EXCEPT ![consumer] = "look"] /\ pc[consumer] = "loop"
        /\ i < nitems /\ ItemReady /\ asleep = FALSE /\ asleep' = FALSE /\ i' = i
        /\ nready' = IF StartsLate \/ Polls THEN nready ELSE nready - 1
    BY <1>10 DEF Take, Goto, IInv
  <2>2. Signals => nready > 0 /\ nready' = nready - 1
    BY <2>1 DEF Signals, StartsLate, Polls, ItemReady
  <2>3. Signals /\ Accounted => Accounted'
    BY <1>1, <1>2, <1>3, <1>5, <2>1, <2>2 DEF Accounted, IInv
  <2>4. nready' \in Nat
    BY <1>2, <2>1, <2>2, ProgramFacts DEF IInv, Signals, StartsLate, Polls
  <2>5. Polls => i < nput
    BY <2>1 DEF ItemReady, StartsLate, Polls
  <2>6. Rest
    BY <1>1, <1>3, <1>6, <2>1, <2>3, <2>4, <2>5 DEF Rest, Locked, IInv, StartsLate, Polls, Signals
  <2> QED
    BY <1>7, <2>1, <2>6 DEF IInv
<1>11. CASE Wait
  <2>1. /\ pc' = pc /\ nready' = nready /\ i' = i /\ asleep' = ~Polls /\ ~ItemReady
    BY <1>11 DEF Wait
  <2>2. Accounted => Accounted'
    BY <1>3, <1>5, <2>1 DEF Accounted
  <2>3. Rest
    BY <1>1, <1>3, <1>6, <2>1, <2>2 DEF Rest, Locked, StartsLate, Polls, Signals
  <2>4. ~Polls => Signals /\ nready = 0
    BY <1>2, <2>1, ProgramFacts DEF IInv, ItemReady, StartsLate, Polls, Signals
  <2> QED
    BY <1>7, <2>1, <2>3, <2>4 DEF IInv, Signals
<1>12. CASE Look
  <2>1. /\ pc' = [pc EXCEPT ![consumer] = "loop"] /\ pc[consumer] = "look"
        /\ nready' = nready /\ asleep' = asleep /\ i' = i + 1
    BY <1>12 DEF Look, Goto, ready
  <2>2. Accounted => Accounted'
    BY <1>1, <1>2, <1>3, <1>5, <2>1 DEF Accounted, IInv
  <2>3. Rest
    BY <1>1, <1>2, <1>6, <2>1, <2>2 DEF Rest, Locked, IInv, StartsLate, Polls, Signals
  <2> QED
    BY <1>7, <2>1, <2>3 DEF IInv, Signals
<1>13. CASE SpuriousWakeup
  <2>1. pc' = pc /\ nready' = nready /\ i' = i /\ asleep' = FALSE
    BY <1>13 DEF SpuriousWakeup
  <2>2. Accounted => Accounted'
    BY <1>3, <1>5, <2>1 DEF Accounted
  <2>3. Rest
    BY <1>1, <1>3, <1>6, <2>1, <2>2 DEF Rest, Locked, StartsLate, Polls, Signals
  <2> QED
    BY <1>7, <2>1, <2>3 DEF IInv
<1> QED
  BY <1>8, <1>9, <1>10, <1>11, <1>12, <1>13 DEF Consume

LEMMA NextIInv == IInv /\ [ProdconsNext]_prodconsVars => IInv'
<1> SUFFICES ASSUME IInv, [ProdconsNext]_prodconsVars PROVE IInv'
  OBVIOUS
<1>1. CASE ~program.locks
  BY <1>1, UnlockedStep
<1>2. CASE program.locks /\ ProdconsNext
  BY <1>2, ArgsKept, ProducerStep, ConsumerStep DEF ProdconsNext
<1>3. CASE UNCHANGED prodconsVars
  BY <1>3 DEF prodconsVars, args, shared, ready, IInv, Locked, StartsLate, ProducersDone, Polls,
       Signals, Accounted, Unannounced
<1> QED
  BY <1>1, <1>2, <1>3

-----------------------------------------------------------------------------
LEMMA Invariance == ProdconsSpec => []IInv
BY InitIInv, NextIInv, PTL DEF ProdconsSpec

\* The consumer of every program that locks finds each item in its slot, however many
\* producers and items there are.
THEOREM ItemsAlwaysSeen == ProdconsSpec => []ItemsSeen
<1>1. IInv => ItemsSeen
  <2> SUFFICES ASSUME IInv, program.locks, created # {}, pc[consumer] = "look"
               PROVE  buff[i] = i
    BY DEF ItemsSeen
  <2>1. Locked /\ i \in Nat /\ nput \in Nat /\ nready \in Nat /\ nitems \in Nat /\ i < nitems
    BY MutexProdconsAssumption DEF IInv, Locked
  <2>2. CASE StartsLate
    <3>1. PICK p \in created : pc[p] = "done"
      BY <2>1, <2>2 DEF Locked, ProducersDone
    <3>2. nput = nitems
      BY <2>1, <3>1 DEF Locked, IInv
    <3> QED
      BY <2>1, <3>2 DEF Locked
  <2>3. CASE Polls
    BY <2>1, <2>3 DEF Locked
  <2>4. CASE Signals
    <3>1. i < nput
      BY <2>1, <2>4, UnannouncedFinite DEF Locked, Accounted
    <3> QED
      BY <2>1, <3>1 DEF Locked
  <2> QED
    BY <2>2, <2>3, <2>4, ProgramFacts DEF IInv, StartsLate, Polls, Signals
<1> QED
  BY <1>1, Invariance, PTL

\* The consumer of prodcons5, 6 and 7 does not sleep with an item ready, and nready counts
\* what was announced and not taken, however many producers and items there are.
THEOREM NoSignalMissed == ProdconsSpec => []NoMissedSignal
<1>1. IInv => NoMissedSignal
  <2> SUFFICES ASSUME IInv PROVE NoMissedSignal
    OBVIOUS
  <2>1. asleep => nready = 0
    BY DEF IInv
  <2>2. Signals => program.locks
    BY ProgramFacts DEF IInv, Signals
  <2>3. Signals => Accounted
    BY <2>2 DEF IInv, Locked
  <2> QED
    BY <2>1, <2>3 DEF NoMissedSignal, Accounted, Unannounced
<1> QED
  BY <1>1, Invariance, PTL
=============================================================================
