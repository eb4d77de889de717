---------------------------- MODULE Semaphores ----------------------------
(***************************************************************************)
(* Four kinds of semaphores that the threads of a program can have open:    *)
(* the Posix semaphores of the system, and those that the repository builds *)
(* of memory-mapped files (my_pxsem_mmap), of System V semaphores           *)
(* (my_pxsem_svsem) and of fifos (my_pxsem_fifo).  In all of them a         *)
(* semaphore is a count; in a fifo it is the number of bytes.               *)
(*                                                                         *)
(* What a function does with sem_mutex locked is one step.  sem_wait of     *)
(* my_pxsem_mmap gives the mutex up in pthread_cond_wait; the others wait   *)
(* in the kernel, which wakes them up when they can take a unit.            *)
(***************************************************************************)
EXTENDS Integers

CONSTANTS Threads,
          FifoSize,   \* the bytes that fit into a fifo
          NoSem       \* "at no semaphore"

Sems == {"mutex", "nempty", "nstored"}

Impls == {"posix", "mmap", "svsem", "fifo"}

VARIABLES impl,       \* which semaphores these are
          sem_count,
          waiting,    \* mmap: the semaphore each thread sleeps at
          woken       \* mmap: the semaphore each thread was woken up at

semVars == <<sem_count, waiting, woken>>

\* The semaphores once they were created with these values.
SemInit(value) ==
  /\ sem_count = value
  /\ waiting = [t \in Threads |-> NoSem]
  /\ woken = [t \in Threads |-> NoSem]

-----------------------------------------------------------------------------
(***************************************************************************)
(* my_pxsem_mmap                                                            *)
(***************************************************************************)
Running(t) == waiting[t] = NoSem /\ woken[t] = NoSem

Sleepers(s) == {t \in Threads : waiting[t] = s}

\* The thread w returns from pthread_cond_wait, up to the mutex.
WakeUp(w) ==
  /\ woken' = [woken EXCEPT ![w] = waiting[w]]
  /\ waiting' = [waiting EXCEPT ![w] = NoSem]

\* Mutant: the count is incremented before it is tested.
sem_postLate(t, s) ==
  /\ Running(t)
  /\ IF sem_count[s] + 1 = 0 /\ Sleepers(s) # {}
     THEN \E w \in Sleepers(s) : WakeUp(w)
     ELSE UNCHANGED <<waiting, woken>>
  /\ sem_count' = [sem_count EXCEPT ![s] = @ + 1]

sem_post(t, s) ==
  /\ Running(t)
  /\ IF sem_count[s] = 0 /\ Sleepers(s) # {}
     THEN \E w \in Sleepers(s) : WakeUp(w)
     ELSE UNCHANGED <<waiting, woken>>
  /\ sem_count' = [sem_count EXCEPT ![s] = @ + 1]

\* sem_wait and sem_trywait, when they need not wait
sem_take(t, s) ==
  /\ Running(t)
  /\ sem_count[s] > 0
  /\ sem_count' = [sem_count EXCEPT ![s] = @ - 1]
  /\ UNCHANGED <<waiting, woken>>

\* sem_wait up to pthread_cond_wait, when called and when it tests again
sem_block(t, s) ==
  /\ Running(t) \/ woken[t] = s
  /\ sem_count[s] = 0
  /\ waiting' = [waiting EXCEPT ![t] = s]
  /\ woken' = [woken EXCEPT ![t] = NoSem]
  /\ UNCHANGED sem_count

\* Mutant: the count is not tested again after pthread_cond_wait.
sem_resumeUntested(t, s) ==
  /\ woken[t] = s
  /\ woken' = [woken EXCEPT ![t] = NoSem]
  /\ sem_count' = [sem_count EXCEPT ![s] = @ - 1]
  /\ UNCHANGED waiting

\* sem_wait after pthread_cond_wait
sem_resume(t, s) ==
  /\ woken[t] = s
  /\ sem_count[s] > 0
  /\ woken' = [woken EXCEPT ![t] = NoSem]
  /\ sem_count' = [sem_count EXCEPT ![s] = @ - 1]
  /\ UNCHANGED waiting

\* pthread_cond_wait may return without a signal.
SpuriousWakeup(t) ==
  /\ waiting[t] # NoSem
  /\ WakeUp(t)
  /\ UNCHANGED sem_count

-----------------------------------------------------------------------------
(***************************************************************************)
(* The others                                                               *)
(***************************************************************************)
\* semop adds to the count of a System V semaphore, and waits until it can.
semop(s, n) ==
  /\ sem_count[s] + n >= 0
  /\ sem_count' = [sem_count EXCEPT ![s] = @ + n]
  /\ UNCHANGED <<waiting, woken>>

sv_post(s) == semop(s, 1)

sv_wait(s) == semop(s, -1)

\* write of one byte; the descriptor is nonblocking, so that a full fifo ends
\* the program in Mysem_post.
fifo_post(s) ==
  /\ sem_count[s] < FifoSize
  /\ sem_count' = [sem_count EXCEPT ![s] = @ + 1]
  /\ UNCHANGED <<waiting, woken>>

\* read of one byte
fifo_wait(s) ==
  /\ sem_count[s] > 0
  /\ sem_count' = [sem_count EXCEPT ![s] = @ - 1]
  /\ UNCHANGED <<waiting, woken>>

posix_post(s) ==
  /\ sem_count' = [sem_count EXCEPT ![s] = @ + 1]
  /\ UNCHANGED <<waiting, woken>>

posix_wait(s) ==
  /\ sem_count[s] > 0
  /\ sem_count' = [sem_count EXCEPT ![s] = @ - 1]
  /\ UNCHANGED <<waiting, woken>>

-----------------------------------------------------------------------------
\* Sem_post or Mysem_post by thread t
Sem_post(t, s) ==
  \/ impl = "posix" /\ posix_post(s)
  \/ impl = "mmap" /\ sem_post(t, s)
  \/ impl = "svsem" /\ sv_post(s)
  \/ impl = "fifo" /\ fifo_post(s)

\* Sem_wait or Mysem_wait by thread t returns.
Sem_wait(t, s) ==
  \/ impl = "posix" /\ posix_wait(s)
  \/ impl = "mmap" /\ (sem_take(t, s) \/ sem_resume(t, s))
  \/ impl = "svsem" /\ sv_wait(s)
  \/ impl = "fifo" /\ fifo_wait(s)

\* Mysem_wait by thread t goes to sleep.
Sem_sleep(t, s) == impl = "mmap" /\ sem_block(t, s)

\* Nobody sleeps at a semaphore that could be taken, unless one that was woken
\* up there is about to take it.
SleepersWoken ==
  \A s \in Sems : sem_count[s] > 0 /\ Sleepers(s) # {} => \E t \in Threads : woken[t] = s
===========================================================================
