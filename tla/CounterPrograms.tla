-------------------------- MODULE CounterPrograms --------------------------
(***************************************************************************)
(* The programs that increment a counter under a lock: the sequence number  *)
(* file of the directory lock with each of its locks, the programs incr_*   *)
(* of bench and my_rwlock, the programs incr* of shm, and client1 of pxshm. *)
(* They differ in who the workers are, in the lock, and in what fork copies; *)
(* those are the fields of a program:                                       *)
(*   gated    main holds the lock while it creates the workers              *)
(*   threads  the workers are threads of main, else processes               *)
(*   lock     "none", "value" (mutex, write lock or semaphore), "undo"      *)
(*            (System V semaphore with SEM_UNDO), "fcntl", "file" (created  *)
(*            with O_EXCL, or linked), "open2" (created with no permission  *)
(*            bits), and, with their own initialization, "svsem" (my_lock   *)
(*            of locksvsem.c) and "mysem" (mysem_open of my_pxsem_svsem)    *)
(*   own      "lock" or "counter": each process has its own copy of it      *)
(*   empty    the program creates the sequence number file, with nothing in *)
(*            it                                                           *)
(***************************************************************************)
Bench(threads, lock) ==
  [gated |-> TRUE, threads |-> threads, lock |-> lock, own |-> "none", empty |-> FALSE]

Loop(lock) == [gated |-> FALSE, threads |-> FALSE, lock |-> lock, own |-> "none", empty |-> FALSE]

incr_pxmutex0 == Bench(TRUE, "none")

incr_pxmutex1 == Bench(TRUE, "value")

incr_pxmutex5 == Bench(FALSE, "value")

incr_rwlock1 == Bench(TRUE, "value")

incr_rwlock2 == Bench(TRUE, "value")

incr_rwlock5 == Bench(FALSE, "value")

my_incr_rwlock1 == Bench(TRUE, "value")

cancel_incr_rwlock1 == Bench(TRUE, "value")

incr_pxsem1 == Bench(TRUE, "value")

incr_pxsem2 == Bench(TRUE, "value")

incr_pxsem5 == Bench(FALSE, "value")

incr_pxsem6 == Bench(FALSE, "value")

incr_pxsem7 == Bench(FALSE, "value")

incr_pxsem8 == Bench(FALSE, "value")

incr_pxsem9 == [Bench(FALSE, "value") EXCEPT !.own = "lock"]

incr_svsem1 == Bench(TRUE, "value")

incr_svsem2 == Bench(TRUE, "undo")

incr_svsem5 == Bench(FALSE, "value")

incr_svsem6 == Bench(FALSE, "undo")

incr_fcntl1 == Bench(TRUE, "fcntl")

incr_fcntl5 == Bench(FALSE, "fcntl")

bench_test1 == Bench(TRUE, "value")

incr1 == [Loop("value") EXCEPT !.own = "counter"]

incr2 == Loop("value")

incr2private == [Loop("value") EXCEPT !.own = "counter"]

incr3 == Loop("value")

incr_dev_zero == Loop("value")

incr_map_anon == Loop("value")

client1 == Loop("value")

\* With each my_lock, and with the semaphores of my_pxsem_svsem for lockpxsem.c
loopmain == {Loop(l) : l \in {"none", "fcntl", "file", "open2", "value", "svsem", "mysem"}}

lockmain == loopmain

loopmainnonb == loopmain

lockmainubuf == {[p EXCEPT !.empty = TRUE] : p \in loopmain}

NoProgram == [Loop("idle") EXCEPT !.threads = TRUE]

Programs ==
  {incr_pxmutex0, incr_pxmutex1, incr_pxmutex5, incr_rwlock1, incr_rwlock2, incr_rwlock5,
   my_incr_rwlock1, cancel_incr_rwlock1, incr_pxsem1, incr_pxsem2, incr_pxsem5, incr_pxsem6, incr_pxsem7,
   incr_pxsem8, incr_pxsem9, incr_svsem1, incr_svsem2, incr_svsem5, incr_svsem6,
   incr_fcntl1, incr_fcntl5, bench_test1, incr1, incr2, incr2private, incr3, incr_dev_zero,
   incr_map_anon, client1} \union loopmain \union lockmain \union loopmainnonb
  \union lockmainubuf
=============================================================================
