---------------------------- MODULE RWLockTest1 ----------------------------
(***************************************************************************)
(* The program test1.c of my_rwlock and of my_rwlock_cancel, each run on    *)
(* the lock of its directory: reader and writer threads that lock and       *)
(* unlock nloop times and check, while they hold the lock, whom else they   *)
(* see.  (As it stands test1.c names the pthread_rwlock_ functions of the   *)
(* platform, which have the interface of my_rwlock.)                        *)
(***************************************************************************)
EXTENDS RWLockCancel

CONSTANTS Readers,   \* the threads that run reader(); the others run writer()
          Nloop,
          MaxSpurious  \* bound: the number of spurious wakeups in a run

ASSUME Test1Assumption ==
  Readers \subseteq Threads /\ Nloop \in Nat \ {0} /\ MaxSpurious \in Nat

VARIABLES program,   \* the program that runs, and its lock
          left,      \* the iterations each thread still has to finish
          at,        \* where each thread is between lock and unlock
          nreaders,  \* shared.nreaders
          nwriters,  \* shared.nwriters
          spurious   \* the number of spurious wakeups so far

testVars == <<left, at, nreaders, nwriters, spurious>>

allVars == <<varsC, program, testVars>>

test1 == [lock |-> "my_rwlock", threads |-> "loop"]

cancel_test1 == [lock |-> "my_rwlock_cancel", threads |-> "loop"]

TestInit ==
  /\ InitC
  /\ left = [t \in Threads |-> Nloop]
  /\ at = [t \in Threads |-> "count"]
  /\ nreaders = 0
  /\ nwriters = 0
  /\ spurious = 0

-----------------------------------------------------------------------------
\* unlock of the lock of the program's directory
UnlockLock(t) ==
  \/ program.lock = "my_rwlock" /\ Unlock(t)
  \/ program.lock = "my_rwlock_cancel" /\ UnlockC(t)

\* The lock call at the head of the loop.
Lock(t) ==
  /\ \/ t \in Readers /\ RdCall(t)
     \/ t \notin Readers /\ WrCall(t)
  /\ left[t] > 0
  /\ UNCHANGED testVars

\* The steps inside rdlock and wrlock.
InLock(t) ==
  /\ \/ RdLockMutex(t) \/ RdBlock(t) \/ RdAcquire(t) \/ RdReturn(t)
     \/ WrLockMutex(t) \/ WrBlock(t) \/ WrAcquire(t) \/ WrReturn(t)
  /\ UNCHANGED testVars

\* shared.nreaders++, under shared.rcountlock
ReaderCount(t) ==
  /\ pc[t] = "reading" /\ at[t] = "count"
  /\ nreaders' = nreaders + 1
  /\ at' = [at EXCEPT ![t] = "check"]
  /\ UNCHANGED <<vars, left, nwriters, spurious>>

\* The test of shared.nwriters, which ends the program when it fails.
ReaderCheck(t) ==
  /\ pc[t] = "reading" /\ at[t] = "check"
  /\ nwriters = 0
  /\ at' = [at EXCEPT ![t] = "uncount"]
  /\ UNCHANGED <<vars, left, nreaders, nwriters, spurious>>

ReaderUncount(t) ==
  /\ pc[t] = "reading" /\ at[t] = "uncount"
  /\ nreaders' = nreaders - 1
  /\ at' = [at EXCEPT ![t] = "unlock"]
  /\ UNCHANGED <<vars, left, nwriters, spurious>>

WriterCount(t) ==
  /\ pc[t] = "writing" /\ at[t] = "count"
  /\ nwriters' = nwriters + 1
  /\ at' = [at EXCEPT ![t] = "check"]
  /\ UNCHANGED <<vars, left, nreaders, spurious>>

WriterCheck(t) ==
  /\ pc[t] = "writing" /\ at[t] = "check"
  /\ nwriters <= 1 /\ nreaders = 0
  /\ at' = [at EXCEPT ![t] = "uncount"]
  /\ UNCHANGED <<vars, left, nreaders, nwriters, spurious>>

WriterUncount(t) ==
  /\ pc[t] = "writing" /\ at[t] = "uncount"
  /\ nwriters' = nwriters - 1
  /\ at' = [at EXCEPT ![t] = "unlock"]
  /\ UNCHANGED <<vars, left, nreaders, spurious>>

UnlockAndLoop(t) ==
  /\ at[t] = "unlock"
  /\ UnlockLock(t)
  /\ at' = [at EXCEPT ![t] = "count"]
  /\ left' = [left EXCEPT ![t] = @ - 1]
  /\ UNCHANGED <<nreaders, nwriters, spurious>>

ThreadStep(t) ==
  /\ program \in {test1, cancel_test1}
  /\ \/ Lock(t) \/ InLock(t) \/ UnlockAndLoop(t)
     \/ ReaderCount(t) \/ ReaderCheck(t) \/ ReaderUncount(t)
     \/ WriterCount(t) \/ WriterCheck(t) \/ WriterUncount(t)
  /\ UNCHANGED <<waitFailed, program>>

Spurious(t) ==
  /\ spurious < MaxSpurious
  /\ SpuriousWakeup(t)
  /\ spurious' = spurious + 1
  /\ UNCHANGED <<waitFailed, program, left, at, nreaders, nwriters>>

\* main has joined all the threads.
Joined == \A t \in Threads : left[t] = 0

TestNext ==
  \/ \E t \in Threads : ThreadStep(t)
  \/ \E t \in Threads : Spurious(t)

-----------------------------------------------------------------------------
\* What the checks of test1.c test: no reader finds a writer, and no writer
\* another writer or a reader.
ChecksPass ==
  \A t \in Threads : at[t] = "check" =>
    IF t \in Readers THEN nwriters = 0 ELSE nwriters = 1 /\ nreaders = 0
=============================================================================
