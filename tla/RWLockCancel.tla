---------------------------- MODULE RWLockCancel ----------------------------
(***************************************************************************)
(* The read-write lock of my_rwlock_cancel/.  It has the state of my_rwlock *)
(* and differs in two functions: unlock signals a waiting writer without    *)
(* looking at rw_refcount, and rdlock and wrlock return 0 to their caller   *)
(* also when pthread_cond_wait failed.                                      *)
(***************************************************************************)
EXTENDS RWLock

VARIABLE waitFailed  \* history: a pthread_cond_wait has failed

varsC == <<vars, waitFailed>>

InitC == Init /\ waitFailed = FALSE

\* Mutant: the count of waiting readers is not taken back.
RdWaitErrorUncounted(t) ==
  /\ WaitErrors
  /\ pc[t] = "rdwait"
  /\ rw_mutex = None
  /\ Goto(t, "reading")
  /\ waitFailed' = TRUE
  /\ UNCHANGED <<rw_mutex, rw_magic, rw_nwaitreaders, rw_nwaitwriters, rw_refcount>>

\* The wait failed, rw_refcount is left alone, and the caller is told that it
\* holds a read lock.
RdWaitErrorC(t) ==
  /\ WaitErrors
  /\ pc[t] = "rdwait"
  /\ rw_mutex = None
  /\ rw_nwaitreaders' = rw_nwaitreaders - 1
  /\ Goto(t, "reading")
  /\ waitFailed' = TRUE
  /\ UNCHANGED <<rw_mutex, rw_magic, rw_nwaitwriters, rw_refcount>>

WrWaitErrorC(t) ==
  /\ WaitErrors
  /\ pc[t] = "wrwait"
  /\ rw_mutex = None
  /\ rw_nwaitwriters' = rw_nwaitwriters - 1
  /\ Goto(t, "writing")
  /\ waitFailed' = TRUE
  /\ UNCHANGED <<rw_mutex, rw_magic, rw_nwaitreaders, rw_refcount>>

RdLockC(t) == RdCall(t) \/ RdLockMutex(t) \/ RdBlock(t) \/ RdAcquire(t) \/ RdReturn(t)

WrLockC(t) == WrCall(t) \/ WrLockMutex(t) \/ WrBlock(t) \/ WrAcquire(t) \/ WrReturn(t)

\* rwlock_cancelrdwait and rwlock_cancelwrwait
CancelRdWait(t) == RdCleanup(t)

CancelWrWait(t) == WrCleanup(t)

TryRdLockC(t) == TryRdLock(t)

TryWrLockC(t) == TryWrLock(t)

DestroyC(t) == Destroy(t)

RWInitC(t) == RWInit(t)

\* Mutant: whoever unlocks sets rw_refcount to 0.
UnlockClears(t) ==
  /\ pc[t] \in {"reading", "writing"}
  /\ rw_mutex = None
  /\ rw_refcount # 0
  /\ rw_refcount' = 0
  /\ Wakeups(t)
  /\ UNCHANGED <<rw_mutex, rw_magic, rw_nwaitreaders, rw_nwaitwriters>>

\* unlock; the three cases are those of the if statements at its end.
UnlockC(t) ==
  /\ pc[t] \in {"reading", "writing"}
  /\ rw_magic
  /\ rw_mutex = None
  /\ rw_refcount # 0
  /\ rw_refcount' = Released
  /\ \/ rw_nwaitwriters > 0 /\ SignalWriter(t)
     \/ rw_nwaitwriters = 0 /\ rw_nwaitreaders > 0 /\ BroadcastReaders(t)
     \/ rw_nwaitwriters = 0 /\ rw_nwaitreaders = 0 /\ Goto(t, "idle")
  /\ UNCHANGED <<rw_mutex, rw_magic, rw_nwaitreaders, rw_nwaitwriters>>

NextC == \E t \in Threads :
           \/ RdWaitErrorC(t)
           \/ WrWaitErrorC(t)
           \/ /\ \/ RdLockC(t)
                 \/ WrLockC(t)
                 \/ CancelRdWait(t)
                 \/ CancelWrWait(t)
                 \/ TryRdLockC(t)
                 \/ TryWrLockC(t)
                 \/ UnlockC(t)
                 \/ DestroyC(t)
                 \/ RWInitC(t)
                 \/ SpuriousWakeup(t)
                 \/ Cancel(t)
              /\ UNCHANGED waitFailed

SpecC == InitC /\ [][NextC]_varsC

-----------------------------------------------------------------------------
(***************************************************************************)
(* A failed wait lets its caller believe it has a lock that rw_refcount     *)
(* does not count, so the lock is correct up to the first failed wait only. *)
(***************************************************************************)

\* As long as no wait failed, the lock implements a read-write lock that
\* prefers writers, although unlock signals them while readers hold the lock,
\* and rw_refcount is -1 with a write lock, else the number of read locks, so
\* that unlock never ends the process with err_dump.  The counts of waiting
\* threads are exact also after a failed wait.
ImplementsUntilFailure ==
  /\ RW!RWInitial
  /\ [][WaitersCounted' /\ (waitFailed' \/ (LocksCounted' /\ [RW!RWNext]_(RW!rwvars)))]_varsC
=============================================================================
