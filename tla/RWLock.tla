------------------------------- MODULE RWLock -------------------------------
(***************************************************************************)
(* The read-write lock of my_rwlock/: one my_pthread_rwlock_t shared by     *)
(* the threads of a process.  A critical section under rw_mutex that only   *)
(* ends by unlocking it is one step; rdlock and wrlock, which give up the   *)
(* mutex inside pthread_cond_wait, are split there, and where destroy,      *)
(* which takes no mutex, could see the difference.                          *)
(*                                                                         *)
(* Calls that return an error and change nothing (EINVAL on a bad magic     *)
(* number, EBUSY from the try functions and from destroy) are stuttering    *)
(* steps.                                                                  *)
(***************************************************************************)
EXTENDS Integers, FiniteSets

CONSTANTS Threads,      \* the threads that share the lock
          None,         \* "nobody", for the owner of rw_mutex
          Cancellable,  \* the threads that may be the target of pthread_cancel
          WaitErrors,   \* may pthread_cond_wait return an error?
          DestroyAlone  \* is destroy only called while no lock call is running?

ASSUME RWLockAssumption ==
  /\ IsFiniteSet(Threads)
  /\ None \notin Threads
  /\ Cancellable \subseteq Threads
  /\ WaitErrors \in BOOLEAN
  /\ DestroyAlone \in BOOLEAN

VARIABLES rw_mutex,         \* the owner of the mutex, or None
          rw_magic,         \* rw_magic = RW_MAGIC
          rw_nwaitreaders,
          rw_nwaitwriters,
          rw_refcount,      \* -1: a write lock, n >= 0: n read locks
          pc                \* where each thread is

vars == <<rw_mutex, rw_magic, rw_nwaitreaders, rw_nwaitwriters, rw_refcount, pc>>

-----------------------------------------------------------------------------
(***************************************************************************)
(* A thread is outside the lock functions ("idle", or holding the lock as   *)
(* "reading" or "writing", or "dead" after a cancellation), or in rdlock    *)
(* or wrlock:                                                               *)
(*   call    the magic number was checked, the mutex not yet locked         *)
(*   test    it owns the mutex and is about to evaluate the while condition *)
(*   wait    it is blocked in pthread_cond_wait                             *)
(*   woken   it was woken up, but does not own the mutex again yet          *)
(*   cancel  it was cancelled, and needs the mutex to run its cleanup       *)
(***************************************************************************)
Outside == {"idle", "reading", "writing", "dead"}

InRdLock == {"rdcall", "rdtest", "rdwait", "rdwoken", "rdcancel"}

InWrLock == {"wrcall", "wrtest", "wrwait", "wrwoken", "wrcancel"}

At(S) == {t \in Threads : pc[t] \in S}

Goto(t, l) == pc' = [pc EXCEPT ![t] = l]

\* PTHREAD_RWLOCK_INITIALIZER
Init ==
  /\ rw_mutex = None
  /\ rw_magic = TRUE
  /\ rw_nwaitreaders = 0
  /\ rw_nwaitwriters = 0
  /\ rw_refcount = 0
  /\ pc = [t \in Threads |-> "idle"]

-----------------------------------------------------------------------------
\* Mutant: waiting writers have no preference.
ReaderBlockedNoPreference == rw_refcount < 0

\* A reader waits while a writer holds the lock or waits for it.
ReaderBlocked == rw_refcount < 0 \/ rw_nwaitwriters > 0

\* Mutant: a writer looks for another writer only.
WriterBlockedByWriter == rw_refcount < 0

WriterBlocked == rw_refcount # 0

RdCall(t) ==
  /\ pc[t] = "idle"
  /\ rw_magic
  /\ Goto(t, "rdcall")
  /\ UNCHANGED <<rw_mutex, rw_magic, rw_nwaitreaders, rw_nwaitwriters, rw_refcount>>

RdLockMutex(t) ==
  /\ pc[t] = "rdcall"
  /\ rw_mutex = None
  /\ rw_mutex' = t
  /\ Goto(t, "rdtest")
  /\ UNCHANGED <<rw_magic, rw_nwaitreaders, rw_nwaitwriters, rw_refcount>>

\* The while condition holds: count this reader, and wait.
RdBlock(t) ==
  /\ pc[t] = "rdtest"
  /\ ReaderBlocked
  /\ rw_nwaitreaders' = rw_nwaitreaders + 1
  /\ rw_mutex' = None
  /\ Goto(t, "rdwait")
  /\ UNCHANGED <<rw_magic, rw_nwaitwriters, rw_refcount>>

\* It does not: another reader has a read lock.
RdAcquire(t) ==
  /\ pc[t] = "rdtest"
  /\ ~ReaderBlocked
  /\ rw_refcount' = rw_refcount + 1
  /\ rw_mutex' = None
  /\ Goto(t, "reading")
  /\ UNCHANGED <<rw_magic, rw_nwaitreaders, rw_nwaitwriters>>

\* pthread_cond_wait returns 0, with the mutex; back to the while condition.
RdReturn(t) ==
  /\ pc[t] = "rdwoken"
  /\ rw_mutex = None
  /\ rw_mutex' = t
  /\ rw_nwaitreaders' = rw_nwaitreaders - 1
  /\ Goto(t, "rdtest")
  /\ UNCHANGED <<rw_magic, rw_nwaitwriters, rw_refcount>>

\* Mutant: the result of the wait is not tested before rw_refcount++.
RdWaitErrorCounted(t) ==
  /\ WaitErrors
  /\ pc[t] = "rdwait"
  /\ rw_mutex = None
  /\ rw_nwaitreaders' = rw_nwaitreaders - 1
  /\ rw_refcount' = rw_refcount + 1
  /\ Goto(t, "idle")
  /\ UNCHANGED <<rw_mutex, rw_magic, rw_nwaitwriters>>

\* pthread_cond_wait returns an error, and so does rdlock: no read lock.
RdWaitError(t) ==
  /\ WaitErrors
  /\ pc[t] = "rdwait"
  /\ rw_mutex = None
  /\ rw_nwaitreaders' = rw_nwaitreaders - 1
  /\ Goto(t, "idle")
  /\ UNCHANGED <<rw_mutex, rw_magic, rw_nwaitwriters, rw_refcount>>

\* Mutant: the cleanup handler only unlocks the mutex.
RdCleanupUncounted(t) ==
  /\ pc[t] = "rdcancel"
  /\ rw_mutex = None
  /\ Goto(t, "dead")
  /\ UNCHANGED <<rw_mutex, rw_magic, rw_nwaitreaders, rw_nwaitwriters, rw_refcount>>

\* rwlock_cancelrdwait, run with the mutex that pthread_cond_wait locked again.
RdCleanup(t) ==
  /\ pc[t] = "rdcancel"
  /\ rw_mutex = None
  /\ rw_nwaitreaders' = rw_nwaitreaders - 1
  /\ Goto(t, "dead")
  /\ UNCHANGED <<rw_mutex, rw_magic, rw_nwaitwriters, rw_refcount>>

-----------------------------------------------------------------------------
WrCall(t) ==
  /\ pc[t] = "idle"
  /\ rw_magic
  /\ Goto(t, "wrcall")
  /\ UNCHANGED <<rw_mutex, rw_magic, rw_nwaitreaders, rw_nwaitwriters, rw_refcount>>

WrLockMutex(t) ==
  /\ pc[t] = "wrcall"
  /\ rw_mutex = None
  /\ rw_mutex' = t
  /\ Goto(t, "wrtest")
  /\ UNCHANGED <<rw_magic, rw_nwaitreaders, rw_nwaitwriters, rw_refcount>>

WrBlock(t) ==
  /\ pc[t] = "wrtest"
  /\ WriterBlocked
  /\ rw_nwaitwriters' = rw_nwaitwriters + 1
  /\ rw_mutex' = None
  /\ Goto(t, "wrwait")
  /\ UNCHANGED <<rw_magic, rw_nwaitreaders, rw_refcount>>

WrAcquire(t) ==
  /\ pc[t] = "wrtest"
  /\ ~WriterBlocked
  /\ rw_refcount' = -1
  /\ rw_mutex' = None
  /\ Goto(t, "writing")
  /\ UNCHANGED <<rw_magic, rw_nwaitreaders, rw_nwaitwriters>>

WrReturn(t) ==
  /\ pc[t] = "wrwoken"
  /\ rw_mutex = None
  /\ rw_mutex' = t
  /\ rw_nwaitwriters' = rw_nwaitwriters - 1
  /\ Goto(t, "wrtest")
  /\ UNCHANGED <<rw_magic, rw_nwaitreaders, rw_refcount>>

WrWaitError(t) ==
  /\ WaitErrors
  /\ pc[t] = "wrwait"
  /\ rw_mutex = None
  /\ rw_nwaitwriters' = rw_nwaitwriters - 1
  /\ Goto(t, "idle")
  /\ UNCHANGED <<rw_mutex, rw_magic, rw_nwaitreaders, rw_refcount>>

\* rwlock_cancelwrwait
WrCleanup(t) ==
  /\ pc[t] = "wrcancel"
  /\ rw_mutex = None
  /\ rw_nwaitwriters' = rw_nwaitwriters - 1
  /\ Goto(t, "dead")
  /\ UNCHANGED <<rw_mutex, rw_magic, rw_nwaitreaders, rw_refcount>>

-----------------------------------------------------------------------------
\* Mutant: tryrdlock does not look at the waiting writers.
TryRdLockNoPreference(t) ==
  /\ pc[t] = "idle"
  /\ rw_magic
  /\ rw_mutex = None
  /\ rw_refcount >= 0
  /\ rw_refcount' = rw_refcount + 1
  /\ Goto(t, "reading")
  /\ UNCHANGED <<rw_mutex, rw_magic, rw_nwaitreaders, rw_nwaitwriters>>

TryRdLock(t) ==
  /\ pc[t] = "idle"
  /\ rw_magic
  /\ rw_mutex = None
  /\ ~ReaderBlocked
  /\ rw_refcount' = rw_refcount + 1
  /\ Goto(t, "reading")
  /\ UNCHANGED <<rw_mutex, rw_magic, rw_nwaitreaders, rw_nwaitwriters>>

TryWrLock(t) ==
  /\ pc[t] = "idle"
  /\ rw_magic
  /\ rw_mutex = None
  /\ ~WriterBlocked
  /\ rw_refcount' = -1
  /\ Goto(t, "writing")
  /\ UNCHANGED <<rw_mutex, rw_magic, rw_nwaitreaders, rw_nwaitwriters>>

-----------------------------------------------------------------------------
\* pthread_cond_signal(&rw_condwriters) by t, which becomes idle: one of the
\* writers blocked on the condition variable, if there is one, is woken up.
SignalWriter(t) ==
  LET done == [pc EXCEPT ![t] = "idle"] IN
  IF At({"wrwait"}) = {}
  THEN pc' = done
  ELSE \E w \in At({"wrwait"}) : pc' = [done EXCEPT ![w] = "wrwoken"]

\* pthread_cond_broadcast(&rw_condreaders) by t, which becomes idle.
BroadcastReaders(t) ==
  pc' = [u \in Threads |-> IF u = t THEN "idle"
                           ELSE IF pc[u] = "rdwait" THEN "rdwoken" ELSE pc[u]]

\* Mutant: the write lock is released as if it were a read lock.
ReleasedAsReader == rw_refcount - 1

\* The count once a reader or the writer released its lock.
Released == IF rw_refcount > 0 THEN rw_refcount - 1 ELSE 0

\* Mutant: unlock forgets the waiting readers.
WakeupsWritersOnly(t) ==
  IF rw_nwaitwriters > 0 /\ Released = 0 THEN SignalWriter(t) ELSE Goto(t, "idle")

\* Waiting writers have preference over waiting readers, but are only woken
\* up when the last lock is released.
Wakeups(t) ==
  IF rw_nwaitwriters > 0
  THEN IF Released = 0 THEN SignalWriter(t) ELSE Goto(t, "idle")
  ELSE IF rw_nwaitreaders > 0 THEN BroadcastReaders(t) ELSE Goto(t, "idle")

\* Threads unlock what they locked.  With rw_refcount = 0 the process would
\* end in err_dump.
Unlock(t) ==
  /\ pc[t] \in {"reading", "writing"}
  /\ rw_magic
  /\ rw_mutex = None
  /\ rw_refcount # 0
  /\ rw_refcount' = Released
  /\ Wakeups(t)
  /\ UNCHANGED <<rw_mutex, rw_magic, rw_nwaitreaders, rw_nwaitwriters>>

\* Mutant: destroy looks at rw_refcount only.
DestroyIgnoresWaiters(t) ==
  /\ pc[t] = "idle"
  /\ rw_magic
  /\ DestroyAlone => \A u \in Threads : pc[u] \in Outside \cup {"rdwait", "wrwait"}
  /\ rw_refcount = 0
  /\ rw_magic' = FALSE
  /\ UNCHANGED <<rw_mutex, rw_nwaitreaders, rw_nwaitwriters, rw_refcount, pc>>

\* destroy reads the counts without the mutex.
Destroy(t) ==
  /\ pc[t] = "idle"
  /\ rw_magic
  /\ DestroyAlone => \A u \in Threads : pc[u] \in Outside \cup {"rdwait", "wrwait"}
  /\ rw_refcount = 0 /\ rw_nwaitreaders = 0 /\ rw_nwaitwriters = 0
  /\ rw_magic' = FALSE
  /\ UNCHANGED <<rw_mutex, rw_nwaitreaders, rw_nwaitwriters, rw_refcount, pc>>

\* my_pthread_rwlock_init on a lock that is not initialized.
RWInit(t) ==
  /\ pc[t] = "idle"
  /\ ~rw_magic
  /\ rw_mutex' = None
  /\ rw_magic' = TRUE
  /\ rw_nwaitreaders' = 0
  /\ rw_nwaitwriters' = 0
  /\ rw_refcount' = 0
  /\ UNCHANGED pc

-----------------------------------------------------------------------------
(***************************************************************************)
(* What the condition variables and pthread_cancel may do on their own.     *)
(***************************************************************************)
SpuriousWakeup(t) ==
  /\ \/ pc[t] = "rdwait" /\ Goto(t, "rdwoken")
     \/ pc[t] = "wrwait" /\ Goto(t, "wrwoken")
  /\ UNCHANGED <<rw_mutex, rw_magic, rw_nwaitreaders, rw_nwaitwriters, rw_refcount>>

\* A cancelled thread no longer waits for the condition variable.
Cancel(t) ==
  /\ t \in Cancellable
  /\ \/ pc[t] = "rdwait" /\ Goto(t, "rdcancel")
     \/ pc[t] = "wrwait" /\ Goto(t, "wrcancel")
  /\ UNCHANGED <<rw_mutex, rw_magic, rw_nwaitreaders, rw_nwaitwriters, rw_refcount>>

-----------------------------------------------------------------------------
RdLock(t) == RdCall(t) \/ RdLockMutex(t) \/ RdBlock(t) \/ RdAcquire(t)
             \/ RdReturn(t) \/ RdWaitError(t) \/ RdCleanup(t)

WrLock(t) == WrCall(t) \/ WrLockMutex(t) \/ WrBlock(t) \/ WrAcquire(t)
             \/ WrReturn(t) \/ WrWaitError(t) \/ WrCleanup(t)

Next == \E t \in Threads : \/ RdLock(t)
                           \/ WrLock(t)
                           \/ TryRdLock(t)
                           \/ TryWrLock(t)
                           \/ Unlock(t)
                           \/ Destroy(t)
                           \/ RWInit(t)
                           \/ SpuriousWakeup(t)
                           \/ Cancel(t)

Spec == Init /\ [][Next]_vars

-----------------------------------------------------------------------------
\* Every variable has its type: the counts never leave the range that the
\* comments of pthread_rwlock.h give them.
TypeOK ==
  /\ rw_mutex \in Threads \cup {None}
  /\ rw_magic \in BOOLEAN
  /\ rw_nwaitreaders \in Nat
  /\ rw_nwaitwriters \in Nat
  /\ rw_refcount \in Nat \cup {-1}
  /\ pc \in [Threads -> Outside \cup InRdLock \cup InWrLock]

\* A thread that rdlock, wrlock or a try function gave a write lock to is the
\* only one that has a lock.
MutualExclusion ==
  \A t, u \in Threads : pc[t] = "writing" /\ pc[u] \in {"reading", "writing"} => t = u

\* rw_refcount is what pthread_rwlock.h says it is: -1 with a write lock, else
\* the number of read locks held.
LocksCounted ==
  rw_refcount = IF At({"writing"}) # {} THEN -1 ELSE Cardinality(At({"reading"}))

\* Also after spurious wakeups, failed waits and cancellations, every waiting
\* thread is counted exactly once, until it owns the mutex again: the counts
\* neither leak, which would shut readers out for good, nor go negative.
WaitersCounted ==
  /\ rw_nwaitreaders = Cardinality(At({"rdwait", "rdwoken", "rdcancel"}))
  /\ rw_nwaitwriters = Cardinality(At({"wrwait", "wrwoken", "wrcancel"}))

\* A free lock never has threads asleep on a condition variable that nobody
\* is going to wake up: unlock woke up a writer, which has not run yet, or
\* there was none and it woke up all the readers.
NoStrandedThread ==
  rw_mutex = None /\ rw_refcount = 0 /\ At({"rdwait", "wrwait"}) # {}
    => At({"wrwoken"}) # {}

\* A free lock that no writer waits for has no reader asleep.
NoStrandedReader ==
  rw_mutex = None /\ rw_refcount = 0 /\ rw_nwaitwriters = 0 => At({"rdwait"}) = {}

\* The lock implements a read-write lock that prefers writers: granting and
\* releasing are atomic for the callers, however long they waited inside.
RW ==
  INSTANCE ReadersWriter WITH
    readers <- At({"reading"}),
    writers <- At({"writing"}),
    waiting <- At({"wrwait", "wrwoken", "wrcancel"})

ImplementsReadersWriter == RW!RWSpec

\* destroy only succeeds on a lock that no thread holds, waits for or is
\* about to lock.
DestroyRefusesLockInUse ==
  [][rw_magic /\ ~rw_magic' => \A t \in Threads : pc[t] \in {"idle", "dead"}]_vars
=============================================================================
