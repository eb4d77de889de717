------------------------- MODULE SemProdcons_proof -------------------------
(***************************************************************************)
(* Proofs about SemProdcons, for any finite sets of producers and consumers, *)
(* any buffer and any number of items: no item is overwritten and every      *)
(* consumer finds the item it gets.  The argument accounts for the units of  *)
(* each semaphore: a unit is in the semaphore, or with a thread that has     *)
(* taken it, or stands for an item or a slot of the buffer.                  *)
(***************************************************************************)
EXTENDS SemProdcons, FiniteSetTheorems, TLAPS

Labels == {"absent", "unborn", "wait", "second", "locked", "post", "giveback", "unlock", "done"}

\* The threads that have the mutex
Owners ==
  {t \in Threads : \/ pc[t] \in {"locked", "giveback", "unlock"}
                   \/ pc[t] = "second" /\ MutexFirst(t)}

\* The producers with an empty slot, and those with an item to announce
Slotted == {t \in Producers : pc[t] \in {"second", "locked", "giveback"}}
Storing == {t \in Producers : pc[t] = "post"}

\* The consumers with an item to get, and those with a slot to give back
Promised ==
  {t \in Consumers : pc[t] = "locked" \/ (pc[t] = "second" /\ ~MutexFirst(t))}
Emptying == {t \in Consumers : pc[t] = "post"}

Typed ==
  /\ program \in ProdconsPrograms /\ impl = program.sems
  /\ nitems \in 0..MaxItems
  /\ sem_count \in [Sems -> Nat]
  /\ waiting \in [Threads -> Sems \union {NoSem}]
  /\ woken \in [Threads -> Sems \union {NoSem}]
  /\ buff \in [Slots -> Nat]
  /\ nput \in 0..nitems /\ nget \in 0..nitems
  /\ prodcount \in Nat /\ conscount \in Nat
  /\ pc \in [Threads -> Labels]
  /\ \A t \in Consumers : pc[t] # "giveback"

\* The units of mutex and of nempty, and the counts of the threads
Accounted ==
  /\ sem_count["mutex"] + Cardinality(Owners) = 1
  /\ sem_count["nempty"] + Cardinality(Slotted) + Cardinality(Emptying) + nput - nget = NBUFF
  /\ prodcount + Cardinality(Storing) = nput
  /\ conscount + Cardinality(Emptying) = nget

\* The units of nstored, until the last item is put: then the threads of prodcons4
\* post it once more.
StoredUnits ==
  sem_count["nstored"] + Cardinality(Promised) + Cardinality(Storing) + nget = nput

StoredAccounted == nput < nitems => StoredUnits

\* The items between nget and nput are in the buffer.
Buffered == \A k \in Nat : nget <= k /\ k < nput => buff[k % NBUFF] = k

IInv == Typed /\ Accounted /\ StoredAccounted /\ Buffered

-----------------------------------------------------------------------------
\* Two numbers that are less than NBUFF apart have different slots.
LEMMA SlotsDiffer ==
  ASSUME NEW a \in Nat, NEW b \in Nat, a < b, b - a < NBUFF
  PROVE  a % NBUFF # b % NBUFF
<1> USE SemProdconsAssumption
<1> DEFINE x == a \div NBUFF
           y == b \div NBUFF
<1>1. /\ a = NBUFF * x + (a % NBUFF) /\ b = NBUFF * y + (b % NBUFF)
      /\ x \in Int /\ y \in Int
  OBVIOUS
<1>2. NBUFF * y - NBUFF * x = NBUFF * (y - x)
  BY <1>1
<1> HIDE DEF x, y
<1>3. ASSUME y - x >= 1 PROVE NBUFF * (y - x) >= NBUFF
  BY <1>1, <1>3
<1>4. ASSUME y - x <= 0 PROVE NBUFF * (y - x) <= 0
  BY <1>1, <1>4
<1> SUFFICES ASSUME a % NBUFF = b % NBUFF PROVE FALSE
  OBVIOUS
<1>5. a % NBUFF \in Int
  OBVIOUS
<1>6. b - a = NBUFF * (y - x)
  BY <1>1, <1>2, <1>5
<1> QED
  BY <1>1, <1>3, <1>4, <1>6

\* Every number has a slot.
LEMMA SlotExists == \A k \in Nat : k % NBUFF \in Slots
BY SemProdconsAssumption DEF Slots

\* How the size of a set changes when one element may come or go.
LEMMA SizeChanges ==
  ASSUME NEW X, NEW Y, NEW t, IsFiniteSet(X), \A u : u # t => (u \in X <=> u \in Y)
  PROVE  /\ IsFiniteSet(Y) /\ Cardinality(X) \in Nat /\ Cardinality(Y) \in Nat
         /\ (t \in X <=> t \in Y) => Cardinality(Y) = Cardinality(X)
         /\ t \notin X /\ t \in Y => Cardinality(Y) = Cardinality(X) + 1
         /\ t \in X /\ t \notin Y => Cardinality(Y) = Cardinality(X) - 1
<1>1. Cardinality(X) \in Nat
  BY FS_CardinalityType
<1>2. CASE t \in X <=> t \in Y
  <2>1. X = Y
    BY <1>2
  <2> QED
    BY <1>1, <1>2, <2>1
<1>3. CASE t \notin X /\ t \in Y
  <2>1. Y = X \union {t}
    BY <1>3
  <2> QED
    BY <1>1, <1>3, <2>1, FS_AddElement
<1>4. CASE t \in X /\ t \notin Y
  <2>1. Y = X \ {t}
    BY <1>4
  <2> QED
    BY <1>1, <1>4, <2>1, FS_RemoveElement, FS_CardinalityType
<1> QED
  BY <1>2, <1>3, <1>4

LEMMA Finite ==
  /\ IsFiniteSet(Owners) /\ IsFiniteSet(Slotted) /\ IsFiniteSet(Storing)
  /\ IsFiniteSet(Promised) /\ IsFiniteSet(Emptying)
<1>1. IsFiniteSet(Threads)
  BY FS_Union, SemProdconsAssumption
<1>2. /\ Owners \subseteq Threads /\ Slotted \subseteq Producers /\ Storing \subseteq Producers
      /\ Promised \subseteq Consumers /\ Emptying \subseteq Consumers
  BY DEF Owners, Slotted, Storing, Promised, Emptying
<1> QED
  BY <1>1, <1>2, FS_Subset, SemProdconsAssumption

LEMMA Sizes ==
  /\ Cardinality(Owners) \in Nat /\ Cardinality(Slotted) \in Nat /\ Cardinality(Storing) \in Nat
  /\ Cardinality(Promised) \in Nat /\ Cardinality(Emptying) \in Nat
BY Finite, FS_CardinalityType

\* The counts are natural numbers.
LEMMA Numbers ==
  ASSUME Typed
  PROVE  /\ sem_count["mutex"] \in Nat /\ sem_count["nempty"] \in Nat
         /\ sem_count["nstored"] \in Nat
         /\ nput \in Nat /\ nget \in Nat /\ nitems \in Nat
         /\ prodcount \in Nat /\ conscount \in Nat
BY DEF Typed, Sems

\* Fields of the programs.
LEMMA ProgramFacts ==
  ASSUME program \in ProdconsPrograms
  PROVE  /\ program.sems \in Impls /\ program.swapped \in BOOLEAN
         /\ program.producers \in BOOLEAN /\ program.consumers \in BOOLEAN
<1> USE DEF prodcons2, Impls
<1>1. CASE program = prodcons1
  BY <1>1 DEF prodcons1
<1>2. CASE program = prodcons2
  BY <1>2
<1>3. CASE program = prodcons3
  BY <1>3 DEF prodcons3
<1>4. CASE program = prodcons4
  BY <1>4 DEF prodcons4, prodcons3
<1>5. CASE program = deadlock
  BY <1>5 DEF deadlock
<1>6. CASE program = mmap_prodcons1
  BY <1>6 DEF mmap_prodcons1
<1>7. CASE program = svsem_prodcons1
  BY <1>7 DEF svsem_prodcons1
<1>8. CASE program = fifo_prodcons1
  BY <1>8 DEF fifo_prodcons1
<1> QED
  BY <1>1, <1>2, <1>3, <1>4, <1>5, <1>6, <1>7, <1>8 DEF ProdconsPrograms

-----------------------------------------------------------------------------
(***************************************************************************)
(* What the calls of a semaphore do to its count, whichever kind it is.     *)
(***************************************************************************)
SemTyped ==
  /\ sem_count \in [Sems -> Nat]
  /\ waiting \in [Threads -> Sems \union {NoSem}]
  /\ woken \in [Threads -> Sems \union {NoSem}]

\* sem_wait takes one unit.
LEMMA WaitTakes ==
  ASSUME SemTyped, NEW t \in Threads, NEW s \in Sems, Sem_wait(t, s)
  PROVE  /\ sem_count[s] > 0
         /\ sem_count' = [sem_count EXCEPT ![s] = @ - 1]
         /\ SemTyped'
<1>1. CASE posix_wait(s)
  BY <1>1 DEF SemTyped, posix_wait
<1>2. CASE sem_take(t, s)
  BY <1>2 DEF SemTyped, sem_take
<1>3. CASE sem_resume(t, s)
  BY <1>3 DEF SemTyped, sem_resume
<1>4. CASE sv_wait(s)
  <2>1. sem_count[s] \in Nat
    BY DEF SemTyped
  <2>2. sem_count[s] + (-1) = sem_count[s] - 1 /\ sem_count[s] > 0
    BY <1>4, <2>1 DEF sv_wait, semop
  <2>3. sem_count' = [sem_count EXCEPT ![s] = sem_count[s] - 1]
    BY <1>4, <2>2 DEF sv_wait, semop
  <2>4. UNCHANGED <<waiting, woken>>
    BY <1>4 DEF sv_wait, semop
  <2> QED
    BY <2>1, <2>2, <2>3, <2>4 DEF SemTyped
<1>5. CASE fifo_wait(s)
  BY <1>5 DEF SemTyped, fifo_wait
<1> QED
  BY <1>1, <1>2, <1>3, <1>4, <1>5 DEF Sem_wait

\* sem_post adds one unit.
LEMMA PostGives ==
  ASSUME SemTyped, NEW t \in Threads, NEW s \in Sems, Sem_post(t, s)
  PROVE  sem_count' = [sem_count EXCEPT ![s] = @ + 1] /\ SemTyped'
<1>1. CASE posix_post(s)
  BY <1>1 DEF SemTyped, posix_post
<1>2. CASE sem_post(t, s)
  <2>1. CASE \E w \in Sleepers(s) : WakeUp(w)
    BY <1>2, <2>1 DEF SemTyped, sem_post, Sleepers, WakeUp
  <2>2. CASE UNCHANGED <<waiting, woken>>
    BY <1>2, <2>2 DEF SemTyped, sem_post
  <2> QED
    BY <1>2, <2>1, <2>2 DEF sem_post
<1>3. CASE sv_post(s)
  BY <1>3 DEF SemTyped, sv_post, semop
<1>4. CASE fifo_post(s)
  BY <1>4 DEF SemTyped, fifo_post
<1> QED
  BY <1>1, <1>2, <1>3, <1>4 DEF Sem_post

\* A thread that goes to sleep, or wakes up for nothing, takes no unit.
LEMMA SleepKeeps ==
  ASSUME SemTyped, NEW t \in Threads, NEW s \in Sems, Sem_sleep(t, s) \/ SpuriousWakeup(t)
  PROVE  sem_count' = sem_count /\ SemTyped'
BY DEF SemTyped, Sem_sleep, sem_block, SpuriousWakeup, WakeUp

-----------------------------------------------------------------------------
(***************************************************************************)
(* What a step of one thread to another label does to the sets.             *)
(***************************************************************************)
Change(X, Y, t) ==
  /\ Cardinality(X) \in Nat /\ Cardinality(Y) \in Nat
  /\ (t \in X <=> t \in Y) => Cardinality(Y) = Cardinality(X)
  /\ t \notin X /\ t \in Y => Cardinality(Y) = Cardinality(X) + 1
  /\ t \in X /\ t \notin Y => Cardinality(Y) = Cardinality(X) - 1

\* Only the thread that moves comes or goes.
LEMMA Moved ==
  ASSUME Typed, NEW t \in Threads, NEW l \in Labels,
         pc' = [pc EXCEPT ![t] = l], UNCHANGED program
  PROVE  /\ Change(Owners, Owners', t) /\ Change(Slotted, Slotted', t)
         /\ Change(Storing, Storing', t) /\ Change(Promised, Promised', t)
         /\ Change(Emptying, Emptying', t)
<1>1. \A u : u # t => /\ u \in Owners <=> u \in Owners'
                      /\ u \in Slotted <=> u \in Slotted'
                      /\ u \in Storing <=> u \in Storing'
                      /\ u \in Promised <=> u \in Promised'
                      /\ u \in Emptying <=> u \in Emptying'
  BY SemProdconsAssumption DEF Typed, Owners, Slotted, Storing, Promised, Emptying, MutexFirst
<1>2. Change(Owners, Owners', t)
  BY <1>1, Finite, SizeChanges DEF Change
<1>3. Change(Slotted, Slotted', t)
  BY <1>1, Finite, SizeChanges DEF Change
<1>4. Change(Storing, Storing', t)
  BY <1>1, Finite, SizeChanges DEF Change
<1>5. Change(Promised, Promised', t)
  BY <1>1, Finite, SizeChanges DEF Change
<1>6. Change(Emptying, Emptying', t)
  BY <1>1, Finite, SizeChanges DEF Change
<1> QED
  BY <1>2, <1>3, <1>4, <1>5, <1>6

\* A step that moves no thread leaves the sets alone.
LEMMA NotMoved ==
  ASSUME UNCHANGED <<pc, program>>
  PROVE  UNCHANGED <<Owners, Slotted, Storing, Promised, Emptying>>
BY DEF Owners, Slotted, Storing, Promised, Emptying, MutexFirst

\* A step that only moves units between a semaphore and a thread
Units(mutex, nempty, nstored) ==
  /\ sem_count'["mutex"] = sem_count["mutex"] + mutex
  /\ sem_count'["nempty"] = sem_count["nempty"] + nempty
  /\ sem_count'["nstored"] = sem_count["nstored"] + nstored

Members(owner, slotted, storing, promised, emptying) ==
  /\ Cardinality(Owners') = Cardinality(Owners) + owner
  /\ Cardinality(Slotted') = Cardinality(Slotted) + slotted
  /\ Cardinality(Storing') = Cardinality(Storing) + storing
  /\ Cardinality(Promised') = Cardinality(Promised) + promised
  /\ Cardinality(Emptying') = Cardinality(Emptying) + emptying

\* The items that were put are at least those that were got.
LEMMA GotWasPut == IInv => nget <= nput
BY Sizes DEF IInv, Typed, StoredAccounted, StoredUnits, Sems

-----------------------------------------------------------------------------
\* The inductive invariant holds initially.
LEMMA InitIInv == ProdconsInit(ProdconsPrograms) => IInv
<1> SUFFICES ASSUME ProdconsInit(ProdconsPrograms) PROVE IInv
  OBVIOUS
<1> USE SemProdconsAssumption DEF ProdconsInit, SemaphoresCreated, SemInit, Value, Sems
<1>1. Typed
  BY DEF Typed, Labels, Slots
<1>2. Owners = {} /\ Slotted = {} /\ Storing = {} /\ Promised = {} /\ Emptying = {}
  BY DEF Owners, Slotted, Storing, Promised, Emptying
<1>3. Accounted /\ StoredAccounted
  BY <1>2, FS_EmptySet DEF Accounted, StoredAccounted, StoredUnits
<1>4. Buffered
  BY DEF Buffered
<1> QED
  BY <1>1, <1>3, <1>4 DEF IInv

\* A thread waits for its first semaphore.
LEMMA WaitFirstIInv ==
  ASSUME IInv, NEW t \in Threads, WaitFirst(t)
  PROVE  IInv'
<1> USE DEF IInv
<1> DEFINE s == IF MutexFirst(t) THEN "mutex" ELSE Needs(t)
<1>1. SemTyped /\ s \in Sems
  BY DEF Typed, SemTyped, Needs, Sems
<1>2. pc[t] = "wait" /\ UNCHANGED <<args, shared, counts>>
  BY DEF WaitFirst, WaitFor
<1>3. CASE Sem_sleep(t, s) /\ UNCHANGED pc
  <2>1. sem_count' = sem_count /\ SemTyped'
    BY <1>1, <1>3, SleepKeeps
  <2>2. UNCHANGED <<Owners, Slotted, Storing, Promised, Emptying>>
    BY <1>2, <1>3, NotMoved DEF args
  <2> QED
    BY <1>2, <1>3, <2>1, <2>2 DEF Typed, SemTyped, Accounted, StoredAccounted, StoredUnits,
       Buffered, args, shared, counts
<1>4. CASE Sem_wait(t, s) /\ Goto(t, "second")
  <2>1. sem_count[s] > 0 /\ sem_count' = [sem_count EXCEPT ![s] = @ - 1] /\ SemTyped'
    BY <1>1, <1>4, WaitTakes
  <2>2. pc' = [pc EXCEPT ![t] = "second"]
    BY <1>4 DEF Goto
  <2>3. Typed'
    BY <1>2, <2>1, <2>2 DEF Typed, SemTyped, Labels, args, shared, counts
  <2>4. /\ Change(Owners, Owners', t) /\ Change(Slotted, Slotted', t)
        /\ Change(Storing, Storing', t) /\ Change(Promised, Promised', t)
        /\ Change(Emptying, Emptying', t)
    BY <1>2, <2>2, Moved DEF Labels, args
  <2>5. CASE MutexFirst(t)
    <3>1. Units(-1, 0, 0)
      BY <1>1, <2>1, <2>5 DEF Units, SemTyped, Sems
    <3>2. Members(1, 0, 0, 0, 0)
      <4>1. /\ t \notin Owners /\ t \in Owners'
            /\ (t \in Slotted <=> t \in Slotted')
            /\ (t \in Storing <=> t \in Storing')
            /\ (t \in Promised <=> t \in Promised')
            /\ (t \in Emptying <=> t \in Emptying')
        BY <1>2, <2>2, <2>5, SemProdconsAssumption
           DEF Typed, Owners, Slotted, Storing, Promised, Emptying, MutexFirst, args
      <4> QED
        BY <2>4, <4>1 DEF Members, Change
    <3>3. Accounted'
      BY <1>2, <3>1, <3>2, Sizes, Numbers DEF Units, Members, Accounted, shared, counts
    <3>4. StoredAccounted'
      BY <1>2, <3>1, <3>2, Sizes, Numbers DEF Units, Members, StoredAccounted, StoredUnits, args, shared
    <3> QED
      BY <1>2, <2>3, <3>3, <3>4 DEF Buffered, shared
  <2>6. CASE ~MutexFirst(t) /\ t \in Producers
    <3>1. Units(0, -1, 0)
      BY <1>1, <2>1, <2>6 DEF Units, SemTyped, Sems, Needs
    <3>2. Members(0, 1, 0, 0, 0)
      <4>1. /\ (t \in Owners <=> t \in Owners')
            /\ t \notin Slotted /\ t \in Slotted'
            /\ (t \in Storing <=> t \in Storing')
            /\ (t \in Promised <=> t \in Promised')
            /\ (t \in Emptying <=> t \in Emptying')
        BY <1>2, <2>2, <2>6, SemProdconsAssumption
           DEF Typed, Owners, Slotted, Storing, Promised, Emptying, MutexFirst, args
      <4> QED
        BY <2>4, <4>1 DEF Members, Change
    <3>3. Accounted'
      BY <1>2, <3>1, <3>2, Sizes, Numbers DEF Units, Members, Accounted, shared, counts
    <3>4. StoredAccounted'
      BY <1>2, <3>1, <3>2, Sizes, Numbers DEF Units, Members, StoredAccounted, StoredUnits, args, shared
    <3> QED
      BY <1>2, <2>3, <3>3, <3>4 DEF Buffered, shared
  <2>7. CASE ~MutexFirst(t) /\ t \in Consumers
    <3>1. Units(0, 0, -1)
      BY <1>1, <2>1, <2>7, SemProdconsAssumption DEF Units, SemTyped, Sems, Needs
    <3>2. Members(0, 0, 0, 1, 0)
      <4>1. /\ (t \in Owners <=> t \in Owners')
            /\ (t \in Slotted <=> t \in Slotted')
            /\ (t \in Storing <=> t \in Storing')
            /\ t \notin Promised /\ t \in Promised'
            /\ (t \in Emptying <=> t \in Emptying')
        BY <1>2, <2>2, <2>7, SemProdconsAssumption
           DEF Typed, Owners, Slotted, Storing, Promised, Emptying, MutexFirst, args
      <4> QED
        BY <2>4, <4>1 DEF Members, Change
    <3>3. Accounted'
      BY <1>2, <3>1, <3>2, Sizes, Numbers DEF Units, Members, Accounted, shared, counts
    <3>4. StoredAccounted'
      BY <1>2, <3>1, <3>2, Sizes, Numbers DEF Units, Members, StoredAccounted, StoredUnits, args, shared
    <3> QED
      BY <1>2, <2>3, <3>3, <3>4 DEF Buffered, shared
  <2> QED
    BY <2>5, <2>6, <2>7, SemProdconsAssumption
<1> QED
  BY <1>3, <1>4 DEF WaitFirst, WaitFor

\* A thread waits for its second semaphore.
LEMMA WaitSecondIInv ==
  ASSUME IInv, NEW t \in Threads, WaitSecond(t)
  PROVE  IInv'
<1> USE DEF IInv
<1> DEFINE s == IF MutexFirst(t) THEN Needs(t) ELSE "mutex"
<1>1. SemTyped /\ s \in Sems
  BY DEF Typed, SemTyped, Needs, Sems
<1>2. pc[t] = "second" /\ UNCHANGED <<args, shared, counts>>
  BY DEF WaitSecond, WaitFor
<1>3. CASE Sem_sleep(t, s) /\ UNCHANGED pc
  <2>1. sem_count' = sem_count /\ SemTyped'
    BY <1>1, <1>3, SleepKeeps
  <2>2. UNCHANGED <<Owners, Slotted, Storing, Promised, Emptying>>
    BY <1>2, <1>3, NotMoved DEF args
  <2> QED
    BY <1>2, <1>3, <2>1, <2>2 DEF Typed, SemTyped, Accounted, StoredAccounted, StoredUnits,
       Buffered, args, shared, counts
<1>4. CASE Sem_wait(t, s) /\ Goto(t, "locked")
  <2>1. sem_count[s] > 0 /\ sem_count' = [sem_count EXCEPT ![s] = @ - 1] /\ SemTyped'
    BY <1>1, <1>4, WaitTakes
  <2>2. pc' = [pc EXCEPT ![t] = "locked"]
    BY <1>4 DEF Goto
  <2>3. Typed'
    BY <1>2, <2>1, <2>2 DEF Typed, SemTyped, Labels, args, shared, counts
  <2>4. /\ Change(Owners, Owners', t) /\ Change(Slotted, Slotted', t)
        /\ Change(Storing, Storing', t) /\ Change(Promised, Promised', t)
        /\ Change(Emptying, Emptying', t)
    BY <1>2, <2>2, Moved DEF Labels, args
  <2>5. CASE MutexFirst(t)
    <3>1. Units(0, 0, -1)
      BY <1>1, <2>1, <2>5, SemProdconsAssumption DEF Units, SemTyped, Sems, Needs, MutexFirst
    <3>2. Members(0, 0, 0, 1, 0)
      <4>1. /\ (t \in Owners <=> t \in Owners')
            /\ (t \in Slotted <=> t \in Slotted')
            /\ (t \in Storing <=> t \in Storing')
            /\ t \notin Promised /\ t \in Promised'
            /\ (t \in Emptying <=> t \in Emptying')
        BY <1>2, <2>2, <2>5, SemProdconsAssumption
           DEF Typed, Owners, Slotted, Storing, Promised, Emptying, MutexFirst, args
      <4> QED
        BY <2>4, <4>1 DEF Members, Change
    <3>3. Accounted'
      BY <1>2, <3>1, <3>2, Sizes, Numbers DEF Units, Members, Accounted, shared, counts
    <3>4. StoredAccounted'
      BY <1>2, <3>1, <3>2, Sizes, Numbers DEF Units, Members, StoredAccounted, StoredUnits, args, shared
    <3> QED
      BY <1>2, <2>3, <3>3, <3>4 DEF Buffered, shared
  <2>6. CASE ~MutexFirst(t)
    <3>1. Units(-1, 0, 0)
      BY <1>1, <2>1, <2>6, SemProdconsAssumption DEF Units, SemTyped, Sems, Needs, Gives
    <3>2. Members(1, 0, 0, 0, 0)
      <4>1. /\ t \notin Owners /\ t \in Owners'
            /\ (t \in Slotted <=> t \in Slotted')
            /\ (t \in Storing <=> t \in Storing')
            /\ (t \in Promised <=> t \in Promised')
            /\ (t \in Emptying <=> t \in Emptying')
        BY <1>2, <2>2, <2>6, SemProdconsAssumption
           DEF Typed, Owners, Slotted, Storing, Promised, Emptying, MutexFirst, args
      <4> QED
        BY <2>4, <4>1 DEF Members, Change
    <3>3. Accounted'
      BY <1>2, <3>1, <3>2, Sizes, Numbers DEF Units, Members, Accounted, shared, counts
    <3>4. StoredAccounted'
      BY <1>2, <3>1, <3>2, Sizes, Numbers DEF Units, Members, StoredAccounted, StoredUnits, args, shared
    <3> QED
      BY <1>2, <2>3, <3>3, <3>4 DEF Buffered, shared
  <2> QED
    BY <2>5, <2>6
<1> QED
  BY <1>3, <1>4 DEF WaitSecond, WaitFor

\* The end of a loop, and the start of the consumer of prodcons1, move a thread that
\* has no unit.
LEMMA IdleIInv ==
  ASSUME IInv, NEW t \in Threads, NEW l \in {"wait", "done"},
         pc[t] \in {"wait", "unborn"}, Goto(t, l), UNCHANGED <<args, semVars, shared, counts>>
  PROVE  IInv'
<1> USE DEF IInv
<1>1. pc' = [pc EXCEPT ![t] = l]
  BY DEF Goto
<1>2. Typed'
  BY <1>1 DEF Typed, Labels, args, semVars, shared, counts
<1>3. /\ Change(Owners, Owners', t) /\ Change(Slotted, Slotted', t)
      /\ Change(Storing, Storing', t) /\ Change(Promised, Promised', t)
      /\ Change(Emptying, Emptying', t)
  BY <1>1, Moved DEF Labels, args
<1>4. Members(0, 0, 0, 0, 0)
  <2>1. /\ (t \in Owners <=> t \in Owners')
        /\ (t \in Slotted <=> t \in Slotted')
        /\ (t \in Storing <=> t \in Storing')
        /\ (t \in Promised <=> t \in Promised')
        /\ (t \in Emptying <=> t \in Emptying')
    BY <1>1, SemProdconsAssumption
       DEF Typed, Owners, Slotted, Storing, Promised, Emptying, MutexFirst, args
  <2> QED
    BY <1>3, <2>1 DEF Members, Change
<1> QED
  BY <1>2, <1>4, Sizes, Numbers DEF Members, Accounted, StoredAccounted, StoredUnits, Buffered,
     args, semVars, shared, counts

\* produce
LEMMA PutIInv ==
  ASSUME IInv, NEW t \in Threads, Put(t)
  PROVE  IInv'
<1> USE DEF IInv
<1>0. SemTyped /\ "mutex" \in Sems
  BY DEF Typed, SemTyped, Sems
<1>1. /\ sem_count' = [sem_count EXCEPT !["mutex"] = @ + 1] /\ SemTyped'
      /\ pc' = [pc EXCEPT ![t] = "post"] /\ pc[t] = "locked" /\ t \in Producers
      /\ nput < nitems /\ nput' = nput + 1
      /\ buff' = [buff EXCEPT ![nput % NBUFF] = nput]
      /\ UNCHANGED <<args, nget, counts>>
  BY <1>0, PostGives DEF Put, Goto, AllDone, Typed
<1>2. Typed'
  BY <1>1, SlotExists DEF Typed, SemTyped, Labels, args, counts
<1>3. /\ Change(Owners, Owners', t) /\ Change(Slotted, Slotted', t)
      /\ Change(Storing, Storing', t) /\ Change(Promised, Promised', t)
      /\ Change(Emptying, Emptying', t)
  BY <1>1, Moved DEF Labels, args
<1>4. Units(1, 0, 0)
  BY <1>0, <1>1 DEF Units, SemTyped, Sems
<1>5. Members(-1, -1, 1, 0, 0)
  <2>1. /\ t \in Owners /\ t \notin Owners'
        /\ t \in Slotted /\ t \notin Slotted'
        /\ t \notin Storing /\ t \in Storing'
        /\ (t \in Promised <=> t \in Promised')
        /\ (t \in Emptying <=> t \in Emptying')
    BY <1>1, <1>3, SemProdconsAssumption
       DEF Typed, Owners, Slotted, Storing, Promised, Emptying, MutexFirst, args
  <2> QED
    BY <2>1, <1>3 DEF Members, Change
<1>6. Accounted' /\ StoredAccounted'
  BY <1>1, <1>2, <1>4, <1>5, Sizes, Numbers DEF Units, Members, Accounted, StoredAccounted,
     StoredUnits, args, counts
<1>7. nput - nget < NBUFF
  <2>1. t \in Slotted /\ Cardinality(Slotted) \in Nat /\ Cardinality(Slotted') \in Nat
    BY <1>1, <1>3 DEF Slotted, Change
  <2> QED
    BY <1>5, <2>1, Sizes, Numbers, SemProdconsAssumption DEF Members, Accounted
<1>8. Buffered'
  <2> SUFFICES ASSUME NEW k \in Nat, nget <= k, k < nput + 1 PROVE buff'[k % NBUFF] = k
    BY <1>1 DEF Buffered
  <2>1. nput \in Nat /\ nget \in Nat /\ k % NBUFF \in Slots /\ nput % NBUFF \in Slots
    BY SlotExists DEF Typed
  <2>2. CASE k = nput
    BY <1>1, <2>1, <2>2 DEF Typed
  <2>3. CASE k < nput
    <3>1. k % NBUFF # nput % NBUFF
      BY <1>7, <2>1, <2>3, SlotsDiffer, SemProdconsAssumption
    <3>2. buff[k % NBUFF] = k
      BY <2>3 DEF Buffered
    <3> QED
      BY <1>1, <2>1, <3>1, <3>2 DEF Typed
  <2> QED
    BY <2>1, <2>2, <2>3
<1> QED
  BY <1>2, <1>6, <1>8

\* consume
LEMMA GetIInv ==
  ASSUME IInv, NEW t \in Threads, Get(t)
  PROVE  IInv'
<1> USE DEF IInv
<1>0. SemTyped /\ "mutex" \in Sems
  BY DEF Typed, SemTyped, Sems
<1>1. /\ sem_count' = [sem_count EXCEPT !["mutex"] = @ + 1] /\ SemTyped'
      /\ pc' = [pc EXCEPT ![t] = "post"] /\ pc[t] = "locked" /\ t \in Consumers
      /\ nget < nitems /\ nget' = nget + 1
      /\ UNCHANGED <<args, buff, nput, counts>>
  BY <1>0, PostGives, SemProdconsAssumption DEF Get, Goto, AllDone, Typed
<1>2. Typed'
  BY <1>1 DEF Typed, SemTyped, Labels, args, counts
<1>3. /\ Change(Owners, Owners', t) /\ Change(Slotted, Slotted', t)
      /\ Change(Storing, Storing', t) /\ Change(Promised, Promised', t)
      /\ Change(Emptying, Emptying', t)
  BY <1>1, Moved DEF Labels, args
<1>4. Units(1, 0, 0)
  BY <1>0, <1>1 DEF Units, SemTyped, Sems
<1>5. Members(-1, 0, 0, -1, 1)
  <2>1. /\ t \in Owners /\ t \notin Owners'
        /\ (t \in Slotted <=> t \in Slotted')
        /\ (t \in Storing <=> t \in Storing')
        /\ t \in Promised /\ t \notin Promised'
        /\ t \notin Emptying /\ t \in Emptying'
    BY <1>1, <1>3, SemProdconsAssumption
       DEF Typed, Owners, Slotted, Storing, Promised, Emptying, MutexFirst, args
  <2> QED
    BY <2>1, <1>3 DEF Members, Change
<1>6. Accounted' /\ StoredAccounted'
  BY <1>1, <1>2, <1>4, <1>5, Sizes, Numbers DEF Units, Members, Accounted, StoredAccounted,
     StoredUnits, args, counts
<1>7. Buffered'
  BY <1>1 DEF Buffered, Typed
<1> QED
  BY <1>2, <1>6, <1>7

\* The other Sem_post
LEMMA PostIInv ==
  ASSUME IInv, NEW t \in Threads, Post(t)
  PROVE  IInv'
<1> USE DEF IInv
<1>1. SemTyped /\ Gives(t) \in Sems
  BY DEF Typed, SemTyped, Gives, Sems
<1>2. pc[t] = "post" /\ UNCHANGED <<args, shared>>
  BY DEF Post
<1> USE <1>2
<1>3. /\ prodcount' = IF t \in Producers THEN prodcount + 1 ELSE prodcount
      /\ conscount' = IF t \in Consumers THEN conscount + 1 ELSE conscount
  BY DEF Post
<1>4. sem_count' = [sem_count EXCEPT ![Gives(t)] = @ + 1] /\ SemTyped'
  BY <1>1, PostGives DEF Post
<1>5. pc' = [pc EXCEPT ![t] = "wait"]
  BY DEF Post, Goto
<1>6. Typed'
  BY <1>3, <1>4, <1>5 DEF Typed, SemTyped, Labels, args, shared
<1>7. /\ Change(Owners, Owners', t) /\ Change(Slotted, Slotted', t)
      /\ Change(Storing, Storing', t) /\ Change(Promised, Promised', t)
      /\ Change(Emptying, Emptying', t)
  BY <1>5, Moved DEF Labels, args
<1>8. CASE t \in Producers
  <2>1. Units(0, 0, 1)
    BY <1>1, <1>4, <1>8 DEF Units, SemTyped, Sems, Gives
  <2>2. Members(0, 0, -1, 0, 0)
    <3>1. /\ (t \in Owners <=> t \in Owners')
          /\ (t \in Slotted <=> t \in Slotted')
          /\ t \in Storing /\ t \notin Storing'
          /\ (t \in Promised <=> t \in Promised')
          /\ (t \in Emptying <=> t \in Emptying')
      BY <1>5, <1>7, <1>8, SemProdconsAssumption
         DEF Typed, Owners, Slotted, Storing, Promised, Emptying, MutexFirst, args
    <3> QED
      BY <3>1, <1>7 DEF Members, Change
  <2>3. prodcount' = prodcount + 1 /\ conscount' = conscount
    BY <1>3, <1>8, SemProdconsAssumption
  <2>4. Accounted' /\ StoredAccounted'
    BY <1>6, <2>1, <2>2, <2>3, Sizes, Numbers DEF Units, Members, Accounted,
       StoredAccounted, StoredUnits, args, shared
  <2> QED
    BY <1>6, <2>4 DEF Buffered, shared
<1>9. CASE t \in Consumers
  <2>1. Units(0, 1, 0)
    BY <1>1, <1>4, <1>9, SemProdconsAssumption DEF Units, SemTyped, Sems, Gives
  <2>2. Members(0, 0, 0, 0, -1)
    <3>1. /\ (t \in Owners <=> t \in Owners')
          /\ (t \in Slotted <=> t \in Slotted')
          /\ (t \in Storing <=> t \in Storing')
          /\ (t \in Promised <=> t \in Promised')
          /\ t \in Emptying /\ t \notin Emptying'
      BY <1>5, <1>7, <1>9, SemProdconsAssumption
         DEF Typed, Owners, Slotted, Storing, Promised, Emptying, MutexFirst, args
    <3> QED
      BY <3>1, <1>7 DEF Members, Change
  <2> QED
    BY <1>3, <1>6, <1>9, <2>1, <2>2, Sizes, Numbers, SemProdconsAssumption DEF Units, Members,
       Accounted, StoredAccounted, StoredUnits, Buffered, args, shared
<1> QED
  BY <1>8, <1>9, SemProdconsAssumption

\* A thread that finds all items done: StoredAccounted asks nothing any more.
LEMMA FinishIInv ==
  ASSUME IInv, NEW t \in Threads, Finish(t)
  PROVE  IInv'
<1> USE DEF IInv
<1> DEFINE l == IF t \in Producers THEN "giveback" ELSE "unlock"
<1>1. SemTyped /\ "nstored" \in Sems
  BY DEF Typed, SemTyped, Sems
<1>2. pc[t] = "locked" /\ pc' = [pc EXCEPT ![t] = l] /\ UNCHANGED <<args, shared, counts>>
  BY DEF Finish, Goto
<1>3. nput >= nitems
  BY GotWasPut DEF Finish, AllDone, Typed
<1>4. SemTyped' /\ (Units(0, 0, 0) \/ Units(0, 0, 1))
  <2>1. CASE Sem_post(t, "nstored")
    BY <1>1, <2>1, PostGives DEF Units, SemTyped, Sems
  <2>2. CASE UNCHANGED semVars
    BY <1>1, <2>2 DEF Units, SemTyped, Sems, semVars
  <2> QED
    BY <2>1, <2>2 DEF Finish
<1>5. l \in Labels /\ (t \in Consumers => l # "giveback")
  BY SemProdconsAssumption DEF Labels
<1> HIDE DEF l
<1>6. Typed'
  <2>1. pc' \in [Threads -> Labels] /\ \A u \in Consumers : pc'[u] # "giveback"
    BY <1>2, <1>5, SemProdconsAssumption DEF Typed
  <2> QED
    BY <1>2, <1>4, <2>1 DEF Typed, SemTyped, args, shared, counts
<1>7. /\ Change(Owners, Owners', t) /\ Change(Slotted, Slotted', t)
      /\ Change(Storing, Storing', t) /\ Change(Promised, Promised', t)
      /\ Change(Emptying, Emptying', t)
  BY <1>2, <1>5, Moved DEF args
<1>8. /\ (t \in Owners <=> t \in Owners') /\ (t \in Slotted <=> t \in Slotted')
      /\ (t \in Storing <=> t \in Storing') /\ (t \in Emptying <=> t \in Emptying')
  BY <1>2, SemProdconsAssumption DEF l, Typed, Owners, Slotted, Storing, Emptying, MutexFirst
<1>9. Accounted'
  <2>1. /\ Cardinality(Owners') = Cardinality(Owners)
        /\ Cardinality(Slotted') = Cardinality(Slotted)
        /\ Cardinality(Storing') = Cardinality(Storing)
        /\ Cardinality(Emptying') = Cardinality(Emptying)
    BY <1>7, <1>8 DEF Change
  <2>2. sem_count'["mutex"] = sem_count["mutex"] /\ sem_count'["nempty"] = sem_count["nempty"]
    BY <1>4, Numbers DEF Units
  <2> QED
    BY <1>2, <2>1, <2>2 DEF Accounted, shared, counts
<1> QED
  BY <1>2, <1>3, <1>6, <1>9 DEF StoredAccounted, Buffered, Typed, args, shared

\* Sem_post(nempty) of a producer that ends
LEMMA GiveBackIInv ==
  ASSUME IInv, NEW t \in Threads, GiveBack(t)
  PROVE  IInv'
<1> USE DEF IInv
<1>1. SemTyped /\ "nempty" \in Sems
  BY DEF Typed, SemTyped, Sems
<1>2. /\ pc[t] = "giveback" /\ pc' = [pc EXCEPT ![t] = "unlock"] /\ t \in Producers
      /\ UNCHANGED <<args, shared, counts>>
  BY SemProdconsAssumption DEF GiveBack, Goto, Typed
<1>3. sem_count' = [sem_count EXCEPT !["nempty"] = @ + 1] /\ SemTyped'
  BY <1>1, PostGives DEF GiveBack
<1>4. Typed'
  <2>1. pc' \in [Threads -> Labels] /\ \A u \in Consumers : pc'[u] # "giveback"
    BY <1>2, SemProdconsAssumption DEF Typed, Labels
  <2> QED
    BY <1>2, <1>3, <2>1 DEF Typed, SemTyped, args, shared, counts
<1>5. /\ Change(Owners, Owners', t) /\ Change(Slotted, Slotted', t)
      /\ Change(Storing, Storing', t) /\ Change(Promised, Promised', t)
      /\ Change(Emptying, Emptying', t)
  BY <1>2, Moved DEF Labels, args
<1>6. Units(0, 1, 0)
  BY <1>1, <1>3 DEF Units, SemTyped, Sems
<1>7. Members(0, -1, 0, 0, 0)
  <2>1. /\ (t \in Owners <=> t \in Owners')
        /\ t \in Slotted /\ t \notin Slotted'
        /\ (t \in Storing <=> t \in Storing')
        /\ (t \in Promised <=> t \in Promised')
        /\ (t \in Emptying <=> t \in Emptying')
    BY <1>2, SemProdconsAssumption
       DEF Typed, Owners, Slotted, Storing, Promised, Emptying, MutexFirst, args
  <2> QED
    BY <1>5, <2>1 DEF Members, Change
<1> QED
  BY <1>2, <1>4, <1>6, <1>7, Sizes, Numbers DEF Units, Members, Accounted, StoredAccounted,
     StoredUnits, Buffered, args, shared, counts

\* Sem_post(mutex) and the end of a thread
LEMMA UnlockIInv ==
  ASSUME IInv, NEW t \in Threads, Unlock(t)
  PROVE  IInv'
<1> USE DEF IInv
<1>1. SemTyped /\ "mutex" \in Sems
  BY DEF Typed, SemTyped, Sems
<1>2. /\ pc[t] = "unlock" /\ pc' = [pc EXCEPT ![t] = "done"]
      /\ UNCHANGED <<args, shared, counts>>
  BY DEF Unlock, Goto
<1>3. sem_count' = [sem_count EXCEPT !["mutex"] = @ + 1] /\ SemTyped'
  BY <1>1, PostGives DEF Unlock
<1>4. Typed'
  <2>1. pc' \in [Threads -> Labels] /\ \A u \in Consumers : pc'[u] # "giveback"
    BY <1>2, SemProdconsAssumption DEF Typed, Labels
  <2> QED
    BY <1>2, <1>3, <2>1 DEF Typed, SemTyped, args, shared, counts
<1>5. /\ Change(Owners, Owners', t) /\ Change(Slotted, Slotted', t)
      /\ Change(Storing, Storing', t) /\ Change(Promised, Promised', t)
      /\ Change(Emptying, Emptying', t)
  BY <1>2, Moved DEF Labels, args
<1>6. Units(1, 0, 0)
  BY <1>1, <1>3 DEF Units, SemTyped, Sems
<1>7. Members(-1, 0, 0, 0, 0)
  <2>1. /\ t \in Owners /\ t \notin Owners'
        /\ (t \in Slotted <=> t \in Slotted')
        /\ (t \in Storing <=> t \in Storing')
        /\ (t \in Promised <=> t \in Promised')
        /\ (t \in Emptying <=> t \in Emptying')
    BY <1>2, SemProdconsAssumption
       DEF Typed, Owners, Slotted, Storing, Promised, Emptying, MutexFirst, args
  <2>2. Cardinality(Owners') = Cardinality(Owners) + (-1)
    BY <1>5, <2>1, Sizes DEF Change
  <2> QED
    BY <1>5, <2>1, <2>2 DEF Members, Change
<1> QED
  BY <1>2, <1>4, <1>6, <1>7, Sizes, Numbers DEF Units, Members, Accounted, StoredAccounted,
     StoredUnits, Buffered, args, shared, counts

\* pthread_cond_wait returns without a signal.
LEMMA SpuriousIInv ==
  ASSUME IInv, NEW t \in Threads, Spurious(t)
  PROVE  IInv'
<1> USE DEF IInv
<1>1. SemTyped /\ "mutex" \in Sems
  BY DEF Typed, SemTyped, Sems
<1>2. sem_count' = sem_count /\ SemTyped' /\ UNCHANGED <<args, shared, counts, pc>>
  BY <1>1, SleepKeeps DEF Spurious
<1>3. UNCHANGED <<Owners, Slotted, Storing, Promised, Emptying>>
  BY <1>2, NotMoved DEF args
<1> QED
  BY <1>2, <1>3 DEF Typed, SemTyped, Accounted, StoredAccounted, StoredUnits, Buffered,
     args, shared, counts

\* Every step of the programs preserves the inductive invariant.
LEMMA NextIInv == IInv /\ [ProdconsNext]_prodconsVars => IInv'
<1> SUFFICES ASSUME IInv, [ProdconsNext]_prodconsVars PROVE IInv'
  OBVIOUS
<1>1. ASSUME NEW t \in Threads, Step(t) PROVE IInv'
  <2>1. CASE LoopEnds(t)
    BY <2>1, IdleIInv DEF LoopEnds
  <2> QED
    BY <1>1, <2>1, WaitFirstIInv, WaitSecondIInv, PutIInv, GetIInv, PostIInv, FinishIInv,
       GiveBackIInv, UnlockIInv DEF Step
<1>2. ASSUME NEW t \in Threads, Spurious(t) PROVE IInv'
  BY <1>2, SpuriousIInv
<1>3. CASE StartConsumer
  BY <1>3, IdleIInv, SemProdconsAssumption DEF StartConsumer
<1>4. CASE UNCHANGED prodconsVars
  <2>1. UNCHANGED <<Owners, Slotted, Storing, Promised, Emptying>>
    BY <1>4, NotMoved DEF prodconsVars, args
  <2> QED
    BY <1>4, <2>1 DEF IInv, Typed, Accounted, StoredAccounted, StoredUnits, Buffered,
       prodconsVars, args, semVars, shared, counts
<1> QED
  BY <1>1, <1>2, <1>3, <1>4 DEF ProdconsNext

\* IInv holds in every state.
THEOREM Invariance == ProdconsSpec => []IInv
BY InitIInv, NextIInv, PTL DEF ProdconsSpec

\* Every consumer that has the mutex and an item to get finds the item in the buffer,
\* for any number of threads, items and slots and on each kind of semaphores; also
\* in prodcons4, which posts nstored for items that do not exist.
THEOREM ItemsFound == ProdconsSpec => []ItemsInOrder
<1>1. IInv => ItemsInOrder
  <2> SUFFICES ASSUME IInv, NEW t \in Consumers, pc[t] = "locked", nget < nitems
               PROVE  nget < nput /\ buff[nget % NBUFF] = nget
    BY DEF ItemsInOrder
  <2> USE DEF IInv
  <2>1. Cardinality(Promised) >= 1
    <3>1. Promised # {}
      BY DEF Promised
    <3> QED
      BY <3>1, Finite, Sizes, FS_EmptySet
  <2>2. nget < nput
    BY <2>1, Sizes DEF Typed, StoredAccounted, StoredUnits, Sems
  <2> QED
    BY <2>2 DEF Buffered, Typed
<1> QED
  BY <1>1, Invariance, PTL

\* No producer stores into a slot that was not emptied, two threads never have the
\* mutex, and the counts that the programs write out never exceed the items.
THEOREM NothingOverwritten == ProdconsSpec => []NoOverwrite
<1>1. IInv => NoOverwrite
  <2> SUFFICES ASSUME IInv PROVE NoOverwrite
    OBVIOUS
  <2> USE DEF IInv
  <2>1. impl \in Impls
    BY ProgramFacts DEF Typed
  <2>2. ProdconsTypeOK
    BY <2>1, Sizes DEF ProdconsTypeOK, Typed, Accounted, Sems
  <2>3. ASSUME NEW t \in Producers, pc[t] = "locked", nput < nitems
        PROVE  nput - nget < NBUFF
    <3>1. Slotted # {}
      BY <2>3 DEF Slotted
    <3>2. Cardinality(Slotted) >= 1
      BY <3>1, Finite, Sizes, FS_EmptySet
    <3> QED
      BY <3>2, Sizes, SemProdconsAssumption DEF Typed, Accounted, Sems
  <2> QED
    BY <2>2, <2>3 DEF NoOverwrite
<1> QED
  BY <1>1, Invariance, PTL
=============================================================================
