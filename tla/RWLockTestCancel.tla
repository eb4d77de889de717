-------------------------- MODULE RWLockTestCancel --------------------------
(***************************************************************************)
(* The program testcancel.c of my_rwlock and of my_rwlock_cancel: thread1   *)
(* takes a read lock and cancels thread2, which waits for a write lock;     *)
(* main joins both and destroys the lock.  The program orders its threads   *)
(* with sleep only; prompt says that every sleep lasts until the thread it  *)
(* is meant for has got as far as it can.                                   *)
(***************************************************************************)
EXTENDS RWLockTest1

CONSTANTS thread1, thread2, mainThread

ASSUME TestCancelAssumption ==
  /\ {thread1, thread2, mainThread} \subseteq Threads
  /\ Cardinality({thread1, thread2, mainThread}) = 3
  /\ thread2 \in Cancellable

VARIABLES prompt,     \* are all the sleeps long enough?
          mainAt,     \* where main is
          at1, at2,   \* where thread1 and thread2 are
          cancelled   \* thread2 was cancelled, and acts on it where it may

cancelVars == <<prompt, mainAt, at1, at2, cancelled>>

demoVars == <<allVars, cancelVars>>

testcancel == [lock |-> "my_rwlock", threads |-> "demo"]

cancel_testcancel == [lock |-> "my_rwlock_cancel", threads |-> "demo"]

DemoInit ==
  /\ TestInit
  /\ program \in {test1, cancel_test1, testcancel, cancel_testcancel}
  /\ prompt \in (IF program.threads = "demo" THEN BOOLEAN ELSE {TRUE})
  /\ mainAt = IF program = testcancel THEN "init" ELSE "create1"
  /\ at1 = "none"
  /\ at2 = "none"
  /\ cancelled = FALSE

-----------------------------------------------------------------------------
\* Pthread_rwlock_init, on a lock that its initializer has set up already
MainLockInit ==
  /\ mainAt = "init"
  /\ rw_mutex' = None /\ rw_magic' = TRUE
  /\ rw_nwaitreaders' = 0 /\ rw_nwaitwriters' = 0 /\ rw_refcount' = 0
  /\ mainAt' = "create1"
  /\ UNCHANGED <<pc, prompt, at1, at2, cancelled>>

MainCreate ==
  /\ \/ mainAt = "create1" /\ mainAt' = "sleep" /\ at1' = "rdlock" /\ UNCHANGED at2
     \/ mainAt = "create2" /\ mainAt' = "join2" /\ at2' = "print" /\ UNCHANGED at1
  /\ UNCHANGED <<vars, prompt, cancelled>>

\* sleep(1), to let thread1 get the lock
MainSleep ==
  /\ mainAt = "sleep"
  /\ prompt => pc[thread1] = "reading"
  /\ mainAt' = "create2"
  /\ UNCHANGED <<vars, prompt, at1, at2, cancelled>>

MainJoin ==
  /\ \/ mainAt = "join2" /\ at2 \in {"done", "cancelled"} /\ mainAt' = "join1"
     \/ mainAt = "join1" /\ at1 = "done" /\ mainAt' = "destroy"
  /\ UNCHANGED <<vars, prompt, at1, at2, cancelled>>

\* Pthread_rwlock_destroy ends the program when destroy returns EBUSY.
MainDestroy ==
  /\ mainAt = "destroy"
  /\ \/ Destroy(mainThread) /\ mainAt' = "exit"
     \/ ~ENABLED Destroy(mainThread) /\ mainAt' = "busy" /\ UNCHANGED vars
  /\ UNCHANGED <<prompt, at1, at2, cancelled>>

-----------------------------------------------------------------------------
\* Pthread_rwlock_rdlock
Thread1Lock ==
  /\ at1 = "rdlock"
  /\ RdCall(thread1) \/ RdLockMutex(thread1) \/ RdBlock(thread1)
     \/ RdAcquire(thread1) \/ RdReturn(thread1)
  /\ at1' = IF pc'[thread1] = "reading" THEN "sleep1" ELSE at1
  /\ UNCHANGED <<prompt, mainAt, at2, cancelled>>

\* sleep(3), to let thread2 block in pthread_rwlock_wrlock, and sleep(3) again
Thread1Sleep ==
  /\ \/ at1 = "sleep1" /\ (prompt => pc[thread2] = "wrwait") /\ at1' = "cancel"
     \/ at1 = "sleep2" /\ (prompt => at2 = "cancelled") /\ at1' = "unlock"
  /\ UNCHANGED <<vars, prompt, mainAt, at2, cancelled>>

\* pthread_cancel(tid2).  With a tid2 that was not set yet, or was joined
\* before, the call is undefined: nothing happens or the process ends.
Thread1Cancel ==
  /\ at1 = "cancel"
  /\ at1' = "sleep2"
  /\ IF mainAt = "join2"
     THEN cancelled' = TRUE /\ UNCHANGED mainAt
     ELSE mainAt' \in {mainAt, "crash"} /\ UNCHANGED cancelled
  /\ UNCHANGED <<vars, prompt, at2>>

Thread1Unlock ==
  /\ at1 = "unlock"
  /\ UnlockLock(thread1)
  /\ at1' = "done"
  /\ UNCHANGED <<prompt, mainAt, at2, cancelled>>

-----------------------------------------------------------------------------
\* printf may act on a cancellation; pthread_mutex_lock does not.
Thread2Print ==
  /\ at2 = "print"
  /\ \/ at2' = "wrlock"
     \/ cancelled /\ at2' = "cancelled"
  /\ UNCHANGED <<vars, prompt, mainAt, at1, cancelled>>

Thread2Lock ==
  /\ at2 = "wrlock"
  /\ WrCall(thread2) \/ WrLockMutex(thread2) \/ WrBlock(thread2)
     \/ WrAcquire(thread2) \/ WrReturn(thread2)
  /\ at2' = IF pc'[thread2] = "writing" THEN "sleep" ELSE at2
  /\ UNCHANGED <<prompt, mainAt, at1, cancelled>>

\* Mutant: the thread ends in pthread_cond_wait without its cleanup handler.
Thread2CancelledNoCleanup ==
  /\ cancelled
  /\ pc[thread2] = "wrwait"
  /\ Goto(thread2, "dead")
  /\ at2' = "cancelled"
  /\ UNCHANGED <<rw_mutex, rw_magic, rw_nwaitreaders, rw_nwaitwriters, rw_refcount>>
  /\ UNCHANGED <<prompt, mainAt, at1, cancelled>>

\* thread2 acts on the cancellation in pthread_cond_wait.
Thread2Cancelled ==
  /\ \/ cancelled /\ Cancel(thread2) /\ UNCHANGED at2
     \/ WrCleanup(thread2) /\ at2' = "cancelled"
  /\ UNCHANGED <<prompt, mainAt, at1, cancelled>>

\* sleep(1) acts on it too, and no cleanup handler is left to unlock.
Thread2Sleep ==
  /\ at2 = "sleep"
  /\ at2' = IF cancelled THEN "cancelled" ELSE "unlock"
  /\ UNCHANGED <<vars, prompt, mainAt, at1, cancelled>>

Thread2Unlock ==
  /\ at2 = "unlock"
  /\ UnlockLock(thread2)
  /\ at2' = "done"
  /\ UNCHANGED <<prompt, mainAt, at1, cancelled>>

-----------------------------------------------------------------------------
Main == MainLockInit \/ MainCreate \/ MainSleep \/ MainJoin \/ MainDestroy

Thread1 == Thread1Lock \/ Thread1Sleep \/ Thread1Cancel \/ Thread1Unlock

Thread2 == Thread2Print \/ Thread2Lock \/ Thread2Cancelled \/ Thread2Sleep \/ Thread2Unlock

\* main has returned, or a call has ended the process.
DemoOver == mainAt \in {"exit", "busy", "crash"}

Demo(Step) ==
  /\ program.threads = "demo"
  /\ ~DemoOver
  /\ Step
  /\ UNCHANGED <<waitFailed, program, testVars>>

TestsNext ==
  \/ TestNext /\ UNCHANGED cancelVars
  \/ Demo(Main)
  \/ Demo(Thread1)
  \/ Demo(Thread2)

\* Every thread that stays able to run is run in the end.  Weak fairness does
\* not hand a mutex over fairly: a thread may lose it to the others again and
\* again, but the others only have finitely many locks to take.
TestsSpec ==
  /\ DemoInit
  /\ [][TestsNext]_demoVars
  /\ \A t \in Threads : WF_demoVars(ThreadStep(t) /\ UNCHANGED cancelVars)
  /\ WF_demoVars(Demo(Main))
  /\ WF_demoVars(Demo(Thread1))
  /\ WF_demoVars(Demo(Thread2))

-----------------------------------------------------------------------------
\* When the sleeps of testcancel.c are long enough, thread2 does not get the
\* write lock ("should not get here") and the lock can be destroyed.  When they
\* are not, destroy returns EBUSY only because thread2 was cancelled in its
\* sleep, with the write lock.  A state that is not sound leads to an end that
\* is not.
DemoSound ==
  /\ prompt => at2 \notin {"sleep", "unlock", "done"} /\ mainAt \notin {"busy", "crash"}
  /\ mainAt = "busy" => at2 = "cancelled" /\ pc[thread2] = "writing"

\* No check of test1.c ends the program, every reader and every writer gets all
\* its locks and the program ends: no wakeup is lost between unlock and the
\* threads that wait.  testcancel.c ends as it should, wherever thread2 is when it
\* is cancelled.
EveryThreadFinishes ==
  /\ []ChecksPass
  /\ <>[](DemoSound /\ (IF program.threads = "demo" THEN DemoOver ELSE Joined))
=============================================================================
