------------------------------ MODULE Counters ------------------------------
(***************************************************************************)
(* Workers that increment a counter under a lock, as each of the programs   *)
(* of CounterPrograms does.  An increment is a read and a write of the      *)
(* counter, or of the file that holds it.  Processes may be killed at any   *)
(* time.                                                                    *)
(***************************************************************************)
EXTENDS CounterPrograms, Integers, FiniteSets

CONSTANTS Workers, main,
          Racers,          \* bound: the workers when nothing keeps them apart
          Nobody,
          nloop,           \* the loops of a worker
          MAX_TRIES,
          MaxSets,         \* bound: the System V semaphore sets created
          MaxDeaths        \* bound: the processes killed

ASSUME CountersAssumption ==
  /\ IsFiniteSet(Workers) /\ main \notin Workers /\ Nobody \notin Workers \union {main}
  /\ Racers \subseteq Workers
  /\ nloop \in Nat \ {0} /\ MAX_TRIES \in Nat /\ MaxSets \in Nat \ {0} /\ MaxDeaths \in Nat

Procs == Workers \union {main}

Sets == 1..MaxSets

LockObjects == Sets \union Procs     \* a lock is a set, or the copy of a process

Empty == -1                      \* the contents of a new file

Garbage == 0..1                  \* what an uninitialized variable may hold

VARIABLES program, superuser,
          counter,               \* of each process, or of main for all of them
          value,                 \* of the lock: 1 when it is free
          owner,                 \* of the record lock
          adj,                   \* the adjustments of SEM_UNDO
          key, nsets, otime,     \* System V: the set under the key, sem_otime # 0
          object,                \* the lock that a process uses: semid, or a pointer
          tries,
          reg,                   \* the number that a worker has read
          loops,                 \* of a worker
          pc,
          deaths,
          base, stores,          \* history: the first number, the increments
          removed                \* history: a set was removed by mysem_open

lockVars == <<value, owner, adj, otime>>
setVars == <<key, nsets, object, tries, removed>>
countVars == <<counter, reg, loops, base, stores>>
counterVars == <<program, superuser, lockVars, setVars, countVars, pc, deaths>>

-----------------------------------------------------------------------------
ShareLock == program.own # "lock"

\* Where a worker finds the counter
CounterOf(w) == IF program.own = "counter" THEN w ELSE main

\* The process whose record locks a worker's locks are
Process(w) == IF program.threads THEN main ELSE w

\* Mutant: the operations of locksvsem.c have no SEM_UNDO.
UndoMissing == program.lock = "undo"

Undo == program.lock \in {"undo", "svsem"}

Initializes == program.lock \in {"svsem", "mysem"}

\* The programs whose lock keeps the workers apart: not fcntl between threads, not
\* lockopen2.c for the superuser, and not a semaphore that a process which had waited
\* too long in mysem_open has removed from under its users.
Excludes ==
  CASE program.lock = "none" -> FALSE
    [] program.lock = "fcntl" -> ~program.threads
    [] program.lock = "open2" -> ~superuser
    [] program.lock = "mysem" -> ~removed
    [] OTHER -> TRUE

CountersInit ==
  /\ program \in Programs \union {NoProgram}
  /\ superuser \in (IF program.lock = "open2" THEN BOOLEAN ELSE {FALSE})
  /\ counter = [p \in Procs |-> IF program.empty THEN Empty ELSE 0]
  /\ value = [o \in LockObjects |-> IF program.gated THEN 0 ELSE 1]
  /\ owner = IF program.gated THEN main ELSE Nobody
  /\ adj = [p \in Procs |-> 0]
  /\ key = 0 /\ nsets = 0 /\ removed = FALSE /\ otime = [s \in Sets |-> FALSE]
  /\ object = [p \in Procs |-> IF ShareLock THEN main ELSE p]
  /\ tries = [w \in Workers |-> 0]
  /\ reg = [w \in Workers |-> 0] /\ loops = [w \in Workers |-> 0]
  /\ pc = [p \in Procs |-> IF p = main THEN (IF program.gated THEN "go" ELSE "absent")
                           ELSE IF program = NoProgram THEN "absent"
                           ELSE IF ~Excludes /\ p \notin Racers THEN "absent"
                           ELSE IF Initializes THEN "semget" ELSE "lock"]
  /\ deaths = 0
  /\ base = 0 /\ stores = [p \in Procs |-> 0]

Goto(p, label) == pc' = [pc EXCEPT ![p] = label]

fixed == <<program, superuser, deaths>>

-----------------------------------------------------------------------------
\* The initialization of a System V semaphore, in my_lock and in mysem_open.

\* A set exists until it is removed.
Exists(p) == object[p] \in Sets /\ object[p] = key

\* semget with IPC_EXCL creates a set; what its semaphore holds is not specified.
SemgetCreates(w) ==
  /\ pc[w] = "semget" /\ key = 0 /\ nsets < MaxSets
  /\ nsets' = nsets + 1 /\ key' = nsets + 1
  /\ object' = [object EXCEPT ![w] = nsets + 1]
  /\ \E v \in Garbage : value' = [value EXCEPT ![nsets + 1] = v]
  /\ Goto(w, "setval")
  /\ UNCHANGED <<fixed, owner, adj, otime, tries, removed, countVars>>

SemgetExists(w) ==
  /\ pc[w] = "semget" /\ key # 0
  /\ Goto(w, "get")
  /\ UNCHANGED <<fixed, lockVars, setVars, countVars>>

\* Mutant: my_lock sets no value.
SetvalNothing(w) ==
  /\ pc[w] = "setval"
  /\ Goto(w, IF program.lock = "svsem" THEN "lock" ELSE "initop")
  /\ UNCHANGED <<fixed, lockVars, setVars, countVars>>

\* SETVAL: to 1 in my_lock, to 0 in mysem_open
Setval(w) ==
  /\ pc[w] = "setval"
  /\ IF Exists(w)
     THEN /\ value' = [value EXCEPT ![object[w]] = IF program.lock = "svsem" THEN 1 ELSE 0]
          /\ Goto(w, IF program.lock = "svsem" THEN "lock" ELSE "initop")
     ELSE Goto(w, "quit") /\ UNCHANGED value
  /\ UNCHANGED <<fixed, owner, adj, otime, setVars, countVars>>

\* mysem_open: semop by the value, which is 1
Initop(w) ==
  /\ pc[w] = "initop"
  /\ IF Exists(w)
     THEN /\ value' = [value EXCEPT ![object[w]] = @ + 1]
          /\ otime' = [otime EXCEPT ![object[w]] = TRUE]
          /\ Goto(w, "lock")
     ELSE Goto(w, "quit") /\ UNCHANGED <<value, otime>>
  /\ UNCHANGED <<fixed, owner, adj, setVars, countVars>>

\* semget of a set that existed a moment ago
SemgetAgain(w) ==
  /\ pc[w] = "get"
  /\ IF key # 0 THEN object' = [object EXCEPT ![w] = key] /\ Goto(w, "stat")
                ELSE Goto(w, "quit") /\ UNCHANGED object
  /\ UNCHANGED <<fixed, lockVars, key, nsets, tries, removed, countVars>>

\* Mutant: sem_otime is not looked at.
StatReadyAlways(w) ==
  /\ pc[w] = "stat" /\ tries[w] < MAX_TRIES /\ Exists(w)
  /\ Goto(w, "lock")
  /\ UNCHANGED <<fixed, lockVars, setVars, countVars>>

\* IPC_STAT finds sem_otime set.
StatReady(w) ==
  /\ pc[w] = "stat" /\ tries[w] < MAX_TRIES /\ Exists(w) /\ otime[object[w]]
  /\ Goto(w, "lock")
  /\ UNCHANGED <<fixed, lockVars, setVars, countVars>>

\* Mutant: the tries are not counted.
StatWaitForever(w) ==
  /\ pc[w] = "stat" /\ tries[w] < MAX_TRIES /\ Exists(w) /\ ~otime[object[w]]
  /\ UNCHANGED counterVars

StatWait(w) ==
  /\ pc[w] = "stat" /\ tries[w] < MAX_TRIES /\ Exists(w) /\ ~otime[object[w]]
  /\ tries' = [tries EXCEPT ![w] = @ + 1]
  /\ UNCHANGED <<fixed, lockVars, key, nsets, object, removed, countVars, pc>>

\* The set is gone, or the process has waited for too long: mysem_open removes the
\* set, whoever uses it by now.
StatFails(w) ==
  /\ pc[w] = "stat" /\ (~Exists(w) \/ tries[w] >= MAX_TRIES)
  /\ IF program.lock = "mysem" /\ Exists(w) THEN key' = 0 /\ removed' = TRUE
                                            ELSE UNCHANGED <<key, removed>>
  /\ Goto(w, "quit")
  /\ UNCHANGED <<fixed, lockVars, nsets, object, tries, countVars>>

-----------------------------------------------------------------------------
\* my_lock and my_unlock, or what the programs have in their place

\* The end of a loop
Again(w) ==
  /\ loops' = [loops EXCEPT ![w] = @ + 1]
  /\ Goto(w, IF loops[w] + 1 < nloop THEN "lock" ELSE "done")

\* No lock.  The threads of incr_pxmutex0 only wait for main to release the mutex.
NoLock(w) ==
  /\ program.lock = "none"
  /\ \/ pc[w] = "lock" /\ pc[main] # "go" /\ Goto(w, "load") /\ UNCHANGED loops
     \/ pc[w] = "unlock" /\ Again(w)
  /\ UNCHANGED <<fixed, lockVars, setVars, counter, reg, base, stores>>

\* Sem_wait, a mutex lock or write lock, or Semop with waitop
ValueLock(w) ==
  /\ pc[w] = "lock" /\ program.lock \in {"value", "undo"}
  /\ value[object[w]] > 0
  /\ value' = [value EXCEPT ![object[w]] = @ - 1]
  /\ adj' = IF Undo THEN [adj EXCEPT ![w] = @ + 1] ELSE adj
  /\ Goto(w, "load")
  /\ UNCHANGED <<fixed, owner, otime, setVars, countVars>>

ValueUnlock(w) ==
  /\ pc[w] = "unlock" /\ program.lock \in {"value", "undo"}
  /\ value' = [value EXCEPT ![object[w]] = @ + 1]
  /\ adj' = IF Undo THEN [adj EXCEPT ![w] = @ - 1] ELSE adj
  /\ Again(w)
  /\ UNCHANGED <<fixed, owner, otime, setVars, counter, reg, base, stores>>

\* Semop of locksvsem.c and of my_pxsem_svsem, on a set that may be gone
SetLock(w) ==
  /\ pc[w] = "lock" /\ Initializes
  /\ IF Exists(w)
     THEN /\ value[object[w]] > 0
          /\ value' = [value EXCEPT ![object[w]] = @ - 1]
          /\ otime' = [otime EXCEPT ![object[w]] = TRUE]
          /\ adj' = IF Undo THEN [adj EXCEPT ![w] = @ + 1] ELSE adj
          /\ Goto(w, "load")
     ELSE Goto(w, "quit") /\ UNCHANGED <<value, otime, adj>>
  /\ UNCHANGED <<fixed, owner, setVars, countVars>>

\* Mutant: postop has no SEM_UNDO.
SetUnlockNoUndo(w) ==
  /\ pc[w] = "unlock" /\ Initializes /\ Exists(w)
  /\ value' = [value EXCEPT ![object[w]] = @ + 1]
  /\ Again(w)
  /\ UNCHANGED <<fixed, owner, otime, adj, setVars, counter, reg, base, stores>>

SetUnlock(w) ==
  /\ pc[w] = "unlock" /\ Initializes
  /\ IF Exists(w)
     THEN /\ value' = [value EXCEPT ![object[w]] = @ + 1]
          /\ adj' = IF Undo THEN [adj EXCEPT ![w] = @ - 1] ELSE adj
          /\ Again(w)
     ELSE Goto(w, "quit") /\ UNCHANGED <<value, adj, loops>>
  /\ UNCHANGED <<fixed, owner, otime, setVars, counter, reg, base, stores>>

\* fcntl: a process never waits for itself.
FcntlLock(w) ==
  /\ pc[w] = "lock" /\ program.lock = "fcntl"
  /\ owner \in {Nobody, Process(w)}
  /\ owner' = Process(w)
  /\ Goto(w, "load")
  /\ UNCHANGED <<fixed, value, adj, otime, setVars, countVars>>

FcntlUnlock(w) ==
  /\ pc[w] = "unlock" /\ program.lock = "fcntl"
  /\ owner' = IF owner = Process(w) THEN Nobody ELSE owner
  /\ Again(w)
  /\ UNCHANGED <<fixed, value, adj, otime, setVars, counter, reg, base, stores>>

\* open with O_CREAT | O_EXCL, or link: the call fails while the lock file is there.
FileLock(w) ==
  /\ pc[w] = "lock" /\ program.lock = "file"
  /\ value[main] = 1
  /\ value' = [value EXCEPT ![main] = 0]
  /\ Goto(w, "load")
  /\ UNCHANGED <<fixed, owner, adj, otime, setVars, countVars>>

\* open of a file without permissions: the superuser may always write to it.
Open2Lock(w) ==
  /\ pc[w] = "lock" /\ program.lock = "open2"
  /\ value[main] = 1 \/ superuser
  /\ value' = [value EXCEPT ![main] = 0]
  /\ Goto(w, "load")
  /\ UNCHANGED <<fixed, owner, adj, otime, setVars, countVars>>

\* Unlink of the lock file, an error if there is none
FileUnlock(w) ==
  /\ pc[w] = "unlock" /\ program.lock \in {"file", "open2"}
  /\ IF value[main] = 0 THEN value' = [value EXCEPT ![main] = 1] /\ Again(w)
                        ELSE Goto(w, "quit") /\ UNCHANGED <<value, loops>>
  /\ UNCHANGED <<fixed, owner, adj, otime, setVars, counter, reg, base, stores>>

-----------------------------------------------------------------------------
\* Read and sscanf, or the load of counter++.  From an empty file sscanf reads
\* nothing, and seqno is what it was.
Load(w) ==
  /\ pc[w] = "load"
  /\ IF counter[CounterOf(w)] = Empty
     THEN \E g \in Garbage : reg' = [reg EXCEPT ![w] = g] /\ base' = g
     ELSE reg' = [reg EXCEPT ![w] = counter[CounterOf(w)]] /\ UNCHANGED base
  /\ Goto(w, "store")
  /\ UNCHANGED <<fixed, lockVars, setVars, counter, loops, stores>>

\* Mutant: seqno++ is missing.
StoreSame(w) ==
  /\ pc[w] = "store"
  /\ counter' = [counter EXCEPT ![CounterOf(w)] = reg[w]]
  /\ stores' = [stores EXCEPT ![CounterOf(w)] = @ + 1]
  /\ Goto(w, "unlock")
  /\ UNCHANGED <<fixed, lockVars, setVars, reg, loops, base>>

Store(w) ==
  /\ pc[w] = "store"
  /\ counter' = [counter EXCEPT ![CounterOf(w)] = reg[w] + 1]
  /\ stores' = [stores EXCEPT ![CounterOf(w)] = @ + 1]
  /\ Goto(w, "unlock")
  /\ UNCHANGED <<fixed, lockVars, setVars, reg, loops, base>>

-----------------------------------------------------------------------------
\* Mutant: main posts once for every worker.
GoAll ==
  /\ pc[main] = "go"
  /\ value' = [value EXCEPT ![object[main]] = Cardinality(Workers)]
  /\ adj' = IF Undo THEN [adj EXCEPT ![main] = @ - 1] ELSE adj
  /\ owner' = Nobody
  /\ Goto(main, "wait")
  /\ UNCHANGED <<fixed, otime, setVars, countVars>>

\* main releases the lock to the workers.
Go ==
  /\ pc[main] = "go"
  /\ value' = [value EXCEPT ![object[main]] = @ + 1]
  /\ adj' = IF Undo THEN [adj EXCEPT ![main] = @ - 1] ELSE adj
  /\ owner' = Nobody
  /\ Goto(main, "wait")
  /\ UNCHANGED <<fixed, otime, setVars, countVars>>

Stopped(p) == pc[p] \in {"done", "quit", "dead", "absent"}

\* Pthread_join or Waitpid for all workers
Wait ==
  /\ pc[main] = "wait" /\ \A w \in Workers : Stopped(w)
  /\ Goto(main, "done")
  /\ UNCHANGED <<fixed, lockVars, setVars, countVars>>

\* A process is killed.  The kernel releases its record locks and applies its
\* adjustments; a semaphore does not get below 0.
Die(p) ==
  /\ ~program.threads /\ ~Stopped(p) /\ deaths < MaxDeaths
  /\ deaths' = deaths + 1
  /\ owner' = IF owner = p THEN Nobody ELSE owner
  /\ LET v == value[object[p]] + adj[p]
     IN value' = [value EXCEPT ![object[p]] = IF v > 0 THEN v ELSE 0]
  /\ adj' = [adj EXCEPT ![p] = 0]
  /\ Goto(p, "dead")
  /\ UNCHANGED <<program, superuser, otime, setVars, countVars>>

SemSetOpen(w) ==
  \/ SemgetCreates(w) \/ SemgetExists(w) \/ Setval(w) \/ Initop(w) \/ SemgetAgain(w)
  \/ StatReady(w) \/ StatWait(w) \/ StatFails(w)

my_lock(w) == ValueLock(w) \/ SetLock(w) \/ FcntlLock(w) \/ FileLock(w) \/ Open2Lock(w)

my_unlock(w) == ValueUnlock(w) \/ SetUnlock(w) \/ FcntlUnlock(w) \/ FileUnlock(w)

Step(w) == SemSetOpen(w) \/ NoLock(w) \/ my_lock(w) \/ my_unlock(w) \/ Load(w) \/ Store(w)

CountersNext == Go \/ Wait \/ (\E w \in Workers : Step(w)) \/ (\E p \in Procs : Die(p))

CountersFairness == WF_counterVars(Go \/ Wait) /\ \A w \in Workers : WF_counterVars(Step(w))

-----------------------------------------------------------------------------
CountersTypeOK ==
  /\ program \in Programs \union {NoProgram} /\ superuser \in BOOLEAN
  /\ counter \in [Procs -> Int] /\ value \in [LockObjects -> Nat]
  /\ owner \in Procs \union {Nobody} /\ adj \in [Procs -> -1..1]
  /\ key \in 0..nsets /\ nsets \in 0..MaxSets /\ object \in [Procs -> LockObjects]
  /\ tries \in [Workers -> 0..MAX_TRIES] /\ loops \in [Workers -> 0..nloop]
  /\ deaths \in 0..MaxDeaths

Holds(w) == pc[w] \in {"load", "store", "unlock"}

\* Two workers are never between lock and unlock at the same time, and no increment
\* is lost or made twice, whoever is killed: the counter, or each copy of it, has
\* grown by one with every store, from what it was or from what the first reader of
\* an empty file had in seqno.
CounterExact ==
  Excludes =>
    /\ Cardinality({w \in Workers : Holds(w)}) <= 1
    /\ \A p \in Procs : stores[p] > 0 => counter[p] = base + stores[p]

\* Without exclusion at least two increments of those that were made remain (if the
\* workers have two or more to make), and never more than were made.
LostBounded ==
  /\ ~Excludes /\ program.lock # "mysem" /\ deaths = 0 /\ (\A w \in Racers : pc[w] = "done") =>
       counter[main] >= IF nloop > 1 THEN 2 ELSE 1
  /\ ~program.empty => counter[main] <= stores[main]

\* A semaphore that is in use has one unit, free or with a worker, or with main: in
\* particular nobody uses one before its creator has set its value, or has it set
\* back later.  The variables have their types.
UnitExact ==
  /\ CountersTypeOK
  /\ \A o \in LockObjects :
    /\ deaths = 0 /\ program.lock \notin {"none", "fcntl", "open2"} /\ ShareLock
    /\ IF Initializes THEN o = key /\ otime[o] ELSE o = main
    => value[o] + Cardinality({w \in Workers : Holds(w) /\ object[w] = o})
                + (IF pc[main] = "go" THEN 1 ELSE 0) = 1

LockFree(w) ==
  CASE program.lock = "none" -> pc[main] # "go"
    [] program.lock = "fcntl" -> owner \in {Nobody, Process(w)}
    [] program.lock = "open2" -> value[main] = 1 \/ superuser
    [] Initializes -> Exists(w) => value[object[w]] > 0
    [] OTHER -> value[object[w]] > 0

\* A worker waits for a lock that nobody can release.
Lost(w) ==
  /\ pc[w] = "lock" /\ ~LockFree(w)
  /\ pc[main] # "go" /\ \A u \in Workers : ~Holds(u)

\* Record locks and SEM_UNDO give back the lock of a process that was killed, the
\* others do not.  SEM_UNDO also takes back the unit that main of incr_svsem6 has
\* given to its children, when main is killed; and the children of incr_pxsem9 wait
\* for semaphores of their own.
LockCanBeLost ==
  \/ program.own = "lock"
  \/ deaths > 0 /\ program.lock \in {"value", "file", "open2", "mysem"}
  \/ pc[main] = "dead" /\ program.lock = "undo"

\* Every worker came to its end, or waits for a lock that is lost, and a lock is only
\* lost where nobody gives it back.
WorkersEnded == \A w \in Workers : Stopped(w) \/ (Lost(w) /\ LockCanBeLost)
=============================================================================
