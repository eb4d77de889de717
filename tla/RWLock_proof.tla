---------------------------- MODULE RWLock_proof ----------------------------
(***************************************************************************)
(* Proofs about RWLock, for any finite set of threads: whatever threads are *)
(* cancelled and whatever waits fail, as long as destroy is not called in   *)
(* the middle of another thread's lock call (DestroyAlone).                 *)
(***************************************************************************)
EXTENDS RWLock, FiniteSetTheorems, TLAPS

WaitingReaders == {"rdwait", "rdwoken", "rdcancel"}

WaitingWriters == {"wrwait", "wrwoken", "wrcancel"}

\* How a step changes the set of threads that are at a label of S.
Keeps(S) == \A u \in Threads : (pc[u] \in S) <=> (pc'[u] \in S)

Enters(t, S) == /\ pc[t] \notin S /\ pc'[t] \in S
                /\ \A u \in Threads \ {t} : (pc[u] \in S) <=> (pc'[u] \in S)

Leaves(t, S) == /\ pc[t] \in S /\ pc'[t] \notin S
                /\ \A u \in Threads \ {t} : (pc[u] \in S) <=> (pc'[u] \in S)

-----------------------------------------------------------------------------
\* There are finitely many threads at any set of labels of the lock code.
LEMMA AtFinite ==
  ASSUME NEW S
  PROVE  /\ IsFiniteSet(At(S)) /\ Cardinality(At(S)) \in Nat
         /\ (Cardinality(At(S)) = 0) <=> (At(S) = {})
<1>1. At(S) \subseteq Threads
  BY DEF At
<1>2. IsFiniteSet(At(S))
  BY <1>1, FS_Subset, RWLockAssumption
<1> QED
  BY <1>2, FS_CardinalityType, FS_EmptySet

\* A step that moves no thread into or out of S leaves the count alone.
LEMMA KeepsCount ==
  ASSUME NEW S, Keeps(S)
  PROVE  At(S)' = At(S) /\ Cardinality(At(S))' = Cardinality(At(S))
<1>1. At(S)' = At(S)
  BY DEF Keeps, At
<1> QED
  BY <1>1

\* A step that moves one thread into S adds one to the count.
LEMMA EntersCount ==
  ASSUME NEW S, NEW t \in Threads, Enters(t, S)
  PROVE  /\ At(S)' = At(S) \cup {t} /\ t \notin At(S)
         /\ Cardinality(At(S))' = Cardinality(At(S)) + 1
<1>1. At(S)' = At(S) \cup {t} /\ t \notin At(S)
  BY DEF Enters, At
<1>2. Cardinality(At(S) \cup {t}) = Cardinality(At(S)) + 1
  BY <1>1, AtFinite, FS_AddElement
<1> QED
  BY <1>1, <1>2

\* A step that moves one thread out of S takes one from the count.
LEMMA LeavesCount ==
  ASSUME NEW S, NEW t \in Threads, Leaves(t, S)
  PROVE  /\ At(S)' = At(S) \ {t} /\ t \in At(S)
         /\ Cardinality(At(S))' = Cardinality(At(S)) - 1
<1>1. At(S)' = At(S) \ {t} /\ t \in At(S)
  BY DEF Leaves, At
<1>2. Cardinality(At(S) \ {t}) = Cardinality(At(S)) - 1
  BY <1>1, AtFinite, FS_RemoveElement
<1> QED
  BY <1>1, <1>2

-----------------------------------------------------------------------------
Labels == Outside \cup InRdLock \cup InWrLock

\* The mutex is owned by the thread that is about to evaluate a while
\* condition, and by nobody when there is none.
MutexOwned ==
  \A t \in Threads : (pc[t] \in {"rdtest", "wrtest"}) <=> (rw_mutex = t)

\* No thread holds, waits for or is locking a destroyed lock.
DestroyedUnused ==
  ~rw_magic => \A t \in Threads : pc[t] \in {"idle", "dead"}

\* The inductive invariant of the lock.
IInv ==
  /\ TypeOK
  /\ MutualExclusion
  /\ LocksCounted
  /\ WaitersCounted
  /\ MutexOwned
  /\ DestroyedUnused

\* The counts have their types because they count threads.
LEMMA CountsTyped ==
  ASSUME pc' \in [Threads -> Labels], rw_mutex' \in Threads \cup {None},
         rw_magic' \in BOOLEAN, LocksCounted', WaitersCounted'
  PROVE  TypeOK'
<1>1. ASSUME NEW CONSTANT S PROVE Cardinality(At(S))' \in Nat
  <2>1. At(S)' \subseteq Threads
    BY DEF At
  <2> QED
    BY <2>1, FS_Subset, FS_CardinalityType, RWLockAssumption
<1>2. /\ Cardinality(At({"reading"}))' \in Nat
      /\ Cardinality(At({"rdwait", "rdwoken", "rdcancel"}))' \in Nat
      /\ Cardinality(At({"wrwait", "wrwoken", "wrcancel"}))' \in Nat
  BY <1>1
<1> QED
  BY <1>2 DEF TypeOK, Labels, LocksCounted, WaitersCounted

\* A step that changes no lock keeps the facts about the locks.
LEMMA LocksKept ==
  ASSUME IInv, Keeps({"reading"}), Keeps({"writing"}), rw_refcount' = rw_refcount
  PROVE  MutualExclusion' /\ LocksCounted'
<1>1. LocksCounted'
  BY KeepsCount DEF IInv, LocksCounted
<1>2. MutualExclusion'
  BY DEF IInv, MutualExclusion, Keeps
<1> QED
  BY <1>1, <1>2

\* A step that changes no waiting thread keeps the facts about them.
LEMMA WaitersKept ==
  ASSUME IInv, Keeps(WaitingReaders), Keeps(WaitingWriters),
         rw_nwaitreaders' = rw_nwaitreaders, rw_nwaitwriters' = rw_nwaitwriters
  PROVE  WaitersCounted'
BY KeepsCount DEF IInv, WaitersCounted, WaitingReaders, WaitingWriters

\* The initial state of MY_PTHREAD_RWLOCK_INITIALIZER satisfies the invariant.
LEMMA InitIInv == Init => IInv
<1> SUFFICES ASSUME Init PROVE IInv
  OBVIOUS
<1>1. \A S : "idle" \notin S => At(S) = {}
  BY DEF Init, At
<1>2. At({"reading"}) = {} /\ At({"writing"}) = {}
  BY <1>1
<1>3. At({"rdwait", "rdwoken", "rdcancel"}) = {} /\ At({"wrwait", "wrwoken", "wrcancel"}) = {}
  BY <1>1
<1>4. Cardinality({}) = 0
  BY FS_EmptySet
<1>5. LocksCounted /\ WaitersCounted
  BY <1>2, <1>3, <1>4 DEF Init, LocksCounted, WaitersCounted
<1>6. TypeOK /\ MutualExclusion /\ MutexOwned /\ DestroyedUnused
  BY RWLockAssumption DEF Init, TypeOK, Outside, MutualExclusion, MutexOwned, DestroyedUnused
<1> QED
  BY <1>5, <1>6 DEF IInv

-----------------------------------------------------------------------------
\* Every step of a call to rdlock preserves the invariant.
LEMMA RdLockIInv ==
  ASSUME IInv, NEW t \in Threads, RdLock(t)
  PROVE  IInv'
<1>1. CASE RdCall(t)
  <2> USE <1>1 DEF RdCall, Goto
  <2>1. /\ pc' \in [Threads -> Labels] /\ rw_mutex' \in Threads \cup {None} /\ rw_magic' \in BOOLEAN
        /\ MutexOwned' /\ DestroyedUnused'
    BY RWLockAssumption DEF IInv, TypeOK, Labels, Outside, InRdLock, InWrLock, MutexOwned, DestroyedUnused
  <2>2. Keeps({"reading"}) /\ Keeps({"writing"})
    BY DEF IInv, TypeOK, Keeps
  <2>3. MutualExclusion' /\ LocksCounted'
    BY <2>2, LocksKept
  <2>4. Keeps(WaitingReaders) /\ Keeps(WaitingWriters)
    BY DEF IInv, TypeOK, Keeps, WaitingReaders, WaitingWriters
  <2>5. WaitersCounted'
    BY <2>4, WaitersKept
  <2> QED
    BY <2>1, <2>3, <2>5, CountsTyped DEF IInv
<1>2. CASE RdLockMutex(t)
  <2> USE <1>2 DEF RdLockMutex, Goto
  <2>1. /\ pc' \in [Threads -> Labels] /\ rw_mutex' \in Threads \cup {None} /\ rw_magic' \in BOOLEAN
        /\ MutexOwned' /\ DestroyedUnused'
    BY RWLockAssumption DEF IInv, TypeOK, Labels, Outside, InRdLock, InWrLock, MutexOwned, DestroyedUnused
  <2>2. Keeps({"reading"}) /\ Keeps({"writing"})
    BY DEF IInv, TypeOK, Keeps
  <2>3. MutualExclusion' /\ LocksCounted'
    BY <2>2, LocksKept
  <2>4. Keeps(WaitingReaders) /\ Keeps(WaitingWriters)
    BY DEF IInv, TypeOK, Keeps, WaitingReaders, WaitingWriters
  <2>5. WaitersCounted'
    BY <2>4, WaitersKept
  <2> QED
    BY <2>1, <2>3, <2>5, CountsTyped DEF IInv
<1>3. CASE RdBlock(t)
  <2> USE <1>3 DEF RdBlock, Goto
  <2>1. /\ pc' \in [Threads -> Labels] /\ rw_mutex' \in Threads \cup {None} /\ rw_magic' \in BOOLEAN
        /\ MutexOwned' /\ DestroyedUnused'
    BY RWLockAssumption DEF IInv, TypeOK, Labels, Outside, InRdLock, InWrLock, MutexOwned, DestroyedUnused
  <2>2. Keeps({"reading"}) /\ Keeps({"writing"})
    BY DEF IInv, TypeOK, Keeps
  <2>3. MutualExclusion' /\ LocksCounted'
    BY <2>2, LocksKept
  <2>4. Enters(t, WaitingReaders) /\ Keeps(WaitingWriters)
    BY DEF IInv, TypeOK, Keeps, Enters, WaitingReaders, WaitingWriters
  <2>5. WaitersCounted'
    BY <2>4, EntersCount, KeepsCount DEF IInv, WaitersCounted, WaitingReaders, WaitingWriters
  <2> QED
    BY <2>1, <2>3, <2>5, CountsTyped DEF IInv
<1>4. CASE RdAcquire(t)
  <2> USE <1>4 DEF RdAcquire, Goto
  <2>1. /\ pc' \in [Threads -> Labels] /\ rw_mutex' \in Threads \cup {None} /\ rw_magic' \in BOOLEAN
        /\ MutexOwned' /\ DestroyedUnused'
    BY RWLockAssumption DEF IInv, TypeOK, Labels, Outside, InRdLock, InWrLock, MutexOwned, DestroyedUnused
  <2>2. Enters(t, {"reading"}) /\ Keeps({"writing"})
    BY DEF IInv, TypeOK, Keeps, Enters
  <2>3. MutualExclusion' /\ LocksCounted'
    <3>1. At({"writing"}) = {} /\ rw_refcount = Cardinality(At({"reading"}))
      BY AtFinite DEF IInv, TypeOK, LocksCounted, ReaderBlocked
    <3>2. At({"writing"})' = {} /\ rw_refcount' = Cardinality(At({"reading"}))'
      BY <2>2, <3>1, KeepsCount, EntersCount
    <3> QED
      BY <3>2 DEF MutualExclusion, LocksCounted, At
  <2>4. Keeps(WaitingReaders) /\ Keeps(WaitingWriters)
    BY DEF IInv, TypeOK, Keeps, WaitingReaders, WaitingWriters
  <2>5. WaitersCounted'
    BY <2>4, WaitersKept
  <2> QED
    BY <2>1, <2>3, <2>5, CountsTyped DEF IInv
<1>5. CASE RdReturn(t)
  <2> USE <1>5 DEF RdReturn, Goto
  <2>1. /\ pc' \in [Threads -> Labels] /\ rw_mutex' \in Threads \cup {None} /\ rw_magic' \in BOOLEAN
        /\ MutexOwned' /\ DestroyedUnused'
    BY RWLockAssumption DEF IInv, TypeOK, Labels, Outside, InRdLock, InWrLock, MutexOwned, DestroyedUnused
  <2>2. Keeps({"reading"}) /\ Keeps({"writing"})
    BY DEF IInv, TypeOK, Keeps
  <2>3. MutualExclusion' /\ LocksCounted'
    BY <2>2, LocksKept
  <2>4. Leaves(t, WaitingReaders) /\ Keeps(WaitingWriters)
    BY DEF IInv, TypeOK, Keeps, Leaves, WaitingReaders, WaitingWriters
  <2>5. WaitersCounted'
    BY <2>4, LeavesCount, KeepsCount DEF IInv, WaitersCounted, WaitingReaders, WaitingWriters
  <2> QED
    BY <2>1, <2>3, <2>5, CountsTyped DEF IInv
<1>6. CASE RdWaitError(t)
  <2> USE <1>6 DEF RdWaitError, Goto
  <2>1. /\ pc' \in [Threads -> Labels] /\ rw_mutex' \in Threads \cup {None} /\ rw_magic' \in BOOLEAN
        /\ MutexOwned' /\ DestroyedUnused'
    BY RWLockAssumption DEF IInv, TypeOK, Labels, Outside, InRdLock, InWrLock, MutexOwned, DestroyedUnused
  <2>2. Keeps({"reading"}) /\ Keeps({"writing"})
    BY DEF IInv, TypeOK, Keeps
  <2>3. MutualExclusion' /\ LocksCounted'
    BY <2>2, LocksKept
  <2>4. Leaves(t, WaitingReaders) /\ Keeps(WaitingWriters)
    BY DEF IInv, TypeOK, Keeps, Leaves, WaitingReaders, WaitingWriters
  <2>5. WaitersCounted'
    BY <2>4, LeavesCount, KeepsCount DEF IInv, WaitersCounted, WaitingReaders, WaitingWriters
  <2> QED
    BY <2>1, <2>3, <2>5, CountsTyped DEF IInv
<1>7. CASE RdCleanup(t)
  <2> USE <1>7 DEF RdCleanup, Goto
  <2>1. /\ pc' \in [Threads -> Labels] /\ rw_mutex' \in Threads \cup {None} /\ rw_magic' \in BOOLEAN
        /\ MutexOwned' /\ DestroyedUnused'
    BY RWLockAssumption DEF IInv, TypeOK, Labels, Outside, InRdLock, InWrLock, MutexOwned, DestroyedUnused
  <2>2. Keeps({"reading"}) /\ Keeps({"writing"})
    BY DEF IInv, TypeOK, Keeps
  <2>3. MutualExclusion' /\ LocksCounted'
    BY <2>2, LocksKept
  <2>4. Leaves(t, WaitingReaders) /\ Keeps(WaitingWriters)
    BY DEF IInv, TypeOK, Keeps, Leaves, WaitingReaders, WaitingWriters
  <2>5. WaitersCounted'
    BY <2>4, LeavesCount, KeepsCount DEF IInv, WaitersCounted, WaitingReaders, WaitingWriters
  <2> QED
    BY <2>1, <2>3, <2>5, CountsTyped DEF IInv
<1> QED
  BY <1>1, <1>2, <1>3, <1>4, <1>5, <1>6, <1>7 DEF RdLock

\* Every step of a call to wrlock preserves the invariant.
LEMMA WrLockIInv ==
  ASSUME IInv, NEW t \in Threads, WrLock(t)
  PROVE  IInv'
<1>1. CASE WrCall(t)
  <2> USE <1>1 DEF WrCall, Goto
  <2>1. /\ pc' \in [Threads -> Labels] /\ rw_mutex' \in Threads \cup {None} /\ rw_magic' \in BOOLEAN
        /\ MutexOwned' /\ DestroyedUnused'
    BY RWLockAssumption DEF IInv, TypeOK, Labels, Outside, InRdLock, InWrLock, MutexOwned, DestroyedUnused
  <2>2. Keeps({"reading"}) /\ Keeps({"writing"})
    BY DEF IInv, TypeOK, Keeps
  <2>3. MutualExclusion' /\ LocksCounted'
    BY <2>2, LocksKept
  <2>4. Keeps(WaitingReaders) /\ Keeps(WaitingWriters)
    BY DEF IInv, TypeOK, Keeps, WaitingReaders, WaitingWriters
  <2>5. WaitersCounted'
    BY <2>4, WaitersKept
  <2> QED
    BY <2>1, <2>3, <2>5, CountsTyped DEF IInv
<1>2. CASE WrLockMutex(t)
  <2> USE <1>2 DEF WrLockMutex, Goto
  <2>1. /\ pc' \in [Threads -> Labels] /\ rw_mutex' \in Threads \cup {None} /\ rw_magic' \in BOOLEAN
        /\ MutexOwned' /\ DestroyedUnused'
    BY RWLockAssumption DEF IInv, TypeOK, Labels, Outside, InRdLock, InWrLock, MutexOwned, DestroyedUnused
  <2>2. Keeps({"reading"}) /\ Keeps({"writing"})
    BY DEF IInv, TypeOK, Keeps
  <2>3. MutualExclusion' /\ LocksCounted'
    BY <2>2, LocksKept
  <2>4. Keeps(WaitingReaders) /\ Keeps(WaitingWriters)
    BY DEF IInv, TypeOK, Keeps, WaitingReaders, WaitingWriters
  <2>5. WaitersCounted'
    BY <2>4, WaitersKept
  <2> QED
    BY <2>1, <2>3, <2>5, CountsTyped DEF IInv
<1>3. CASE WrBlock(t)
  <2> USE <1>3 DEF WrBlock, Goto
  <2>1. /\ pc' \in [Threads -> Labels] /\ rw_mutex' \in Threads \cup {None} /\ rw_magic' \in BOOLEAN
        /\ MutexOwned' /\ DestroyedUnused'
    BY RWLockAssumption DEF IInv, TypeOK, Labels, Outside, InRdLock, InWrLock, MutexOwned, DestroyedUnused
  <2>2. Keeps({"reading"}) /\ Keeps({"writing"})
    BY DEF IInv, TypeOK, Keeps
  <2>3. MutualExclusion' /\ LocksCounted'
    BY <2>2, LocksKept
  <2>4. Enters(t, WaitingWriters) /\ Keeps(WaitingReaders)
    BY DEF IInv, TypeOK, Keeps, Enters, WaitingReaders, WaitingWriters
  <2>5. WaitersCounted'
    BY <2>4, EntersCount, KeepsCount DEF IInv, WaitersCounted, WaitingReaders, WaitingWriters
  <2> QED
    BY <2>1, <2>3, <2>5, CountsTyped DEF IInv
<1>4. CASE WrAcquire(t)
  <2> USE <1>4 DEF WrAcquire, Goto
  <2>1. /\ pc' \in [Threads -> Labels] /\ rw_mutex' \in Threads \cup {None} /\ rw_magic' \in BOOLEAN
        /\ MutexOwned' /\ DestroyedUnused'
    BY RWLockAssumption DEF IInv, TypeOK, Labels, Outside, InRdLock, InWrLock, MutexOwned, DestroyedUnused
  <2>2. Enters(t, {"writing"}) /\ Keeps({"reading"})
    BY DEF IInv, TypeOK, Keeps, Enters
  <2>3. MutualExclusion' /\ LocksCounted'
    <3>1. At({"writing"}) = {} /\ At({"reading"}) = {}
      BY AtFinite DEF IInv, LocksCounted, WriterBlocked
    <3>2. At({"writing"})' = {t} /\ At({"reading"})' = {}
      BY <2>2, <3>1, KeepsCount, EntersCount
    <3> QED
      BY <3>2 DEF MutualExclusion, LocksCounted, At
  <2>4. Keeps(WaitingReaders) /\ Keeps(WaitingWriters)
    BY DEF IInv, TypeOK, Keeps, WaitingReaders, WaitingWriters
  <2>5. WaitersCounted'
    BY <2>4, WaitersKept
  <2> QED
    BY <2>1, <2>3, <2>5, CountsTyped DEF IInv
<1>5. CASE WrReturn(t)
  <2> USE <1>5 DEF WrReturn, Goto
  <2>1. /\ pc' \in [Threads -> Labels] /\ rw_mutex' \in Threads \cup {None} /\ rw_magic' \in BOOLEAN
        /\ MutexOwned' /\ DestroyedUnused'
    BY RWLockAssumption DEF IInv, TypeOK, Labels, Outside, InRdLock, InWrLock, MutexOwned, DestroyedUnused
  <2>2. Keeps({"reading"}) /\ Keeps({"writing"})
    BY DEF IInv, TypeOK, Keeps
  <2>3. MutualExclusion' /\ LocksCounted'
    BY <2>2, LocksKept
  <2>4. Leaves(t, WaitingWriters) /\ Keeps(WaitingReaders)
    BY DEF IInv, TypeOK, Keeps, Leaves, WaitingReaders, WaitingWriters
  <2>5. WaitersCounted'
    BY <2>4, LeavesCount, KeepsCount DEF IInv, WaitersCounted, WaitingReaders, WaitingWriters
  <2> QED
    BY <2>1, <2>3, <2>5, CountsTyped DEF IInv
<1>6. CASE WrWaitError(t)
  <2> USE <1>6 DEF WrWaitError, Goto
  <2>1. /\ pc' \in [Threads -> Labels] /\ rw_mutex' \in Threads \cup {None} /\ rw_magic' \in BOOLEAN
        /\ MutexOwned' /\ DestroyedUnused'
    BY RWLockAssumption DEF IInv, TypeOK, Labels, Outside, InRdLock, InWrLock, MutexOwned, DestroyedUnused
  <2>2. Keeps({"reading"}) /\ Keeps({"writing"})
    BY DEF IInv, TypeOK, Keeps
  <2>3. MutualExclusion' /\ LocksCounted'
    BY <2>2, LocksKept
  <2>4. Leaves(t, WaitingWriters) /\ Keeps(WaitingReaders)
    BY DEF IInv, TypeOK, Keeps, Leaves, WaitingReaders, WaitingWriters
  <2>5. WaitersCounted'
    BY <2>4, LeavesCount, KeepsCount DEF IInv, WaitersCounted, WaitingReaders, WaitingWriters
  <2> QED
    BY <2>1, <2>3, <2>5, CountsTyped DEF IInv
<1>7. CASE WrCleanup(t)
  <2> USE <1>7 DEF WrCleanup, Goto
  <2>1. /\ pc' \in [Threads -> Labels] /\ rw_mutex' \in Threads \cup {None} /\ rw_magic' \in BOOLEAN
        /\ MutexOwned' /\ DestroyedUnused'
    BY RWLockAssumption DEF IInv, TypeOK, Labels, Outside, InRdLock, InWrLock, MutexOwned, DestroyedUnused
  <2>2. Keeps({"reading"}) /\ Keeps({"writing"})
    BY DEF IInv, TypeOK, Keeps
  <2>3. MutualExclusion' /\ LocksCounted'
    BY <2>2, LocksKept
  <2>4. Leaves(t, WaitingWriters) /\ Keeps(WaitingReaders)
    BY DEF IInv, TypeOK, Keeps, Leaves, WaitingReaders, WaitingWriters
  <2>5. WaitersCounted'
    BY <2>4, LeavesCount, KeepsCount DEF IInv, WaitersCounted, WaitingReaders, WaitingWriters
  <2> QED
    BY <2>1, <2>3, <2>5, CountsTyped DEF IInv
<1> QED
  BY <1>1, <1>2, <1>3, <1>4, <1>5, <1>6, <1>7 DEF WrLock

\* A granted try call preserves the invariant.
LEMMA TryLockIInv ==
  ASSUME IInv, NEW t \in Threads, TryRdLock(t) \/ TryWrLock(t)
  PROVE  IInv'
<1>1. /\ pc' \in [Threads -> Labels] /\ rw_mutex' \in Threads \cup {None} /\ rw_magic' \in BOOLEAN
      /\ MutexOwned' /\ DestroyedUnused'
  BY RWLockAssumption DEF IInv, TypeOK, Labels, Outside, InRdLock, InWrLock, MutexOwned,
                          DestroyedUnused, TryRdLock, TryWrLock, Goto
<1>2. Keeps(WaitingReaders) /\ Keeps(WaitingWriters)
  BY DEF IInv, TypeOK, Keeps, WaitingReaders, WaitingWriters, TryRdLock, TryWrLock, Goto
<1>3. WaitersCounted'
  BY <1>2, WaitersKept DEF TryRdLock, TryWrLock
<1>4. MutualExclusion' /\ LocksCounted'
  <2>1. CASE TryRdLock(t)
    <3>1. Enters(t, {"reading"}) /\ Keeps({"writing"})
      BY <2>1 DEF IInv, TypeOK, Keeps, Enters, TryRdLock, Goto
    <3>2. At({"writing"}) = {} /\ rw_refcount = Cardinality(At({"reading"}))
      BY <2>1, AtFinite DEF IInv, TypeOK, LocksCounted, ReaderBlocked, TryRdLock
    <3>3. At({"writing"})' = {} /\ rw_refcount' = Cardinality(At({"reading"}))'
      BY <2>1, <3>1, <3>2, KeepsCount, EntersCount DEF TryRdLock
    <3> QED
      BY <3>3 DEF MutualExclusion, LocksCounted, At
  <2>2. CASE TryWrLock(t)
    <3>1. Enters(t, {"writing"}) /\ Keeps({"reading"})
      BY <2>2 DEF IInv, TypeOK, Keeps, Enters, TryWrLock, Goto
    <3>2. At({"writing"}) = {} /\ At({"reading"}) = {}
      BY <2>2, AtFinite DEF IInv, LocksCounted, WriterBlocked, TryWrLock
    <3>3. At({"writing"})' = {t} /\ At({"reading"})' = {}
      BY <3>1, <3>2, KeepsCount, EntersCount
    <3> QED
      BY <2>2, <3>3 DEF MutualExclusion, LocksCounted, At, TryWrLock
  <2> QED
    BY <2>1, <2>2
<1> QED
  BY <1>1, <1>3, <1>4, CountsTyped DEF IInv

-----------------------------------------------------------------------------
\* What unlock does to the threads: the caller becomes idle, and the others
\* stay where they are or are woken up.
LEMMA UnlockMoves ==
  ASSUME TypeOK, NEW t \in Threads, Unlock(t)
  PROVE  /\ pc' \in [Threads -> Labels]
         /\ pc'[t] = "idle"
         /\ \A u \in Threads \ {t} : \/ pc'[u] = pc[u]
                                     \/ pc[u] = "wrwait" /\ pc'[u] = "wrwoken"
                                     \/ pc[u] = "rdwait" /\ pc'[u] = "rdwoken"
<1> USE DEF TypeOK, Labels, Outside, InRdLock, InWrLock
<1>1. CASE Goto(t, "idle")
  BY <1>1 DEF Goto
<1>2. CASE BroadcastReaders(t)
  BY <1>2 DEF BroadcastReaders
<1>3. CASE SignalWriter(t)
  <2>1. CASE pc' = [pc EXCEPT ![t] = "idle"]
    BY <2>1
  <2>2. ASSUME NEW w \in At({"wrwait"}), pc' = [[pc EXCEPT ![t] = "idle"] EXCEPT ![w] = "wrwoken"]
        PROVE  /\ pc' \in [Threads -> Labels] /\ pc'[t] = "idle"
               /\ \A u \in Threads \ {t} : \/ pc'[u] = pc[u]
                                           \/ pc[u] = "wrwait" /\ pc'[u] = "wrwoken"
    <3>1. w \in Threads /\ pc[w] = "wrwait" /\ pc[t] # "wrwait"
      BY DEF At, Unlock
    <3> QED
      BY <2>2, <3>1
  <2> QED
    BY <1>3, <2>1, <2>2 DEF SignalWriter
<1> QED
  BY <1>1, <1>2, <1>3 DEF Unlock, Wakeups

\* unlock preserves the invariant.
LEMMA UnlockIInv ==
  ASSUME IInv, NEW t \in Threads, Unlock(t)
  PROVE  IInv'
<1>1. TypeOK /\ pc[t] \in {"reading", "writing"}
  BY DEF IInv, Unlock
<1>2. /\ pc' \in [Threads -> Labels] /\ rw_mutex' \in Threads \cup {None} /\ rw_magic' \in BOOLEAN
      /\ MutexOwned' /\ DestroyedUnused'
  BY <1>1, UnlockMoves, RWLockAssumption DEF IInv, TypeOK, MutexOwned, DestroyedUnused, Unlock
<1>3. Keeps(WaitingReaders) /\ Keeps(WaitingWriters)
  BY <1>1, UnlockMoves DEF Keeps, WaitingReaders, WaitingWriters
<1>4. WaitersCounted'
  BY <1>3, WaitersKept DEF Unlock
<1>5. MutualExclusion' /\ LocksCounted'
  <2>1. CASE pc[t] = "reading"
    <3>1. Leaves(t, {"reading"}) /\ Keeps({"writing"})
      BY <1>1, <2>1, UnlockMoves DEF Keeps, Leaves
    <3>2. At({"writing"}) = {}
      BY <2>1 DEF IInv, MutualExclusion, At
    <3>3. rw_refcount = Cardinality(At({"reading"})) /\ rw_refcount > 0
      BY <2>1, <3>2, AtFinite DEF IInv, LocksCounted, Unlock
    <3>4. At({"writing"})' = {} /\ rw_refcount' = Cardinality(At({"reading"}))'
      BY <3>1, <3>2, <3>3, KeepsCount, LeavesCount DEF Unlock, Released
    <3> QED
      BY <3>4 DEF MutualExclusion, LocksCounted, At
  <2>2. CASE pc[t] = "writing"
    <3>1. Leaves(t, {"writing"}) /\ Keeps({"reading"})
      BY <1>1, <2>2, UnlockMoves DEF Keeps, Leaves
    <3>2. At({"writing"}) = {t} /\ At({"reading"}) = {}
      BY <2>2 DEF IInv, MutualExclusion, At
    <3>3. rw_refcount' = 0
      BY <3>2 DEF IInv, LocksCounted, Unlock, Released
    <3>4. At({"writing"})' = {} /\ At({"reading"})' = {}
      BY <3>1, <3>2, KeepsCount, LeavesCount
    <3> QED
      BY <3>3, <3>4, FS_EmptySet DEF MutualExclusion, LocksCounted, At
  <2> QED
    BY <1>1, <2>1, <2>2
<1> QED
  BY <1>2, <1>4, <1>5, CountsTyped DEF IInv

\* destroy, init, a spurious wakeup and a cancellation preserve the invariant.
\* destroy finds all the counts 0, so nobody holds or waits for the lock.
LEMMA OtherIInv ==
  ASSUME DestroyAlone, IInv, NEW t \in Threads,
         Destroy(t) \/ RWInit(t) \/ SpuriousWakeup(t) \/ Cancel(t)
  PROVE  IInv'
<1>1. CASE Destroy(t)
  <2> USE <1>1 DEF Destroy
  <2>1. At({"writing"}) = {} /\ At({"reading"}) = {}
    BY AtFinite DEF IInv, LocksCounted
  <2>2. At({"rdwait", "rdwoken", "rdcancel"}) = {} /\ At({"wrwait", "wrwoken", "wrcancel"}) = {}
    BY AtFinite DEF IInv, WaitersCounted
  <2>3. DestroyedUnused'
    BY <2>1, <2>2 DEF DestroyedUnused, At, Outside
  <2> QED
    BY <2>3 DEF IInv, TypeOK, MutualExclusion, LocksCounted, WaitersCounted, MutexOwned, At
<1>2. CASE RWInit(t)
  <2> USE <1>2 DEF RWInit
  <2>1. \A u \in Threads : pc[u] \in {"idle", "dead"}
    BY DEF IInv, DestroyedUnused
  <2>2. At({"writing"}) = {} /\ At({"reading"}) = {}
    BY <2>1 DEF At
  <2>3. At({"rdwait", "rdwoken", "rdcancel"}) = {} /\ At({"wrwait", "wrwoken", "wrcancel"}) = {}
    BY <2>1 DEF At
  <2>4. LocksCounted' /\ WaitersCounted'
    BY <2>2, <2>3, FS_EmptySet DEF LocksCounted, WaitersCounted, At
  <2>5. MutualExclusion' /\ MutexOwned' /\ DestroyedUnused'
    BY <2>1, RWLockAssumption DEF MutualExclusion, MutexOwned, DestroyedUnused
  <2> QED
    BY <2>4, <2>5 DEF IInv, TypeOK
<1>3. CASE SpuriousWakeup(t) \/ Cancel(t)
  <2> USE <1>3 DEF SpuriousWakeup, Cancel, Goto
  <2>1. /\ pc' \in [Threads -> Labels] /\ rw_mutex' \in Threads \cup {None} /\ rw_magic' \in BOOLEAN
        /\ MutexOwned' /\ DestroyedUnused'
    BY DEF IInv, TypeOK, Labels, Outside, InRdLock, InWrLock, MutexOwned, DestroyedUnused
  <2>2. /\ Keeps({"reading"}) /\ Keeps({"writing"})
        /\ Keeps(WaitingReaders) /\ Keeps(WaitingWriters)
    BY DEF IInv, TypeOK, Keeps, WaitingReaders, WaitingWriters
  <2>3. MutualExclusion' /\ LocksCounted' /\ WaitersCounted'
    BY <2>2, LocksKept, WaitersKept
  <2> QED
    BY <2>1, <2>3, CountsTyped DEF IInv
<1> QED
  BY <1>1, <1>2, <1>3

\* Every step of the specification preserves the invariant.
LEMMA NextIInv ==
  ASSUME DestroyAlone, IInv, [Next]_vars
  PROVE  IInv'
<1>1. ASSUME NEW t \in Threads, RdLock(t) PROVE IInv'
  BY <1>1, RdLockIInv
<1>2. ASSUME NEW t \in Threads, WrLock(t) PROVE IInv'
  BY <1>2, WrLockIInv
<1>3. ASSUME NEW t \in Threads, TryRdLock(t) \/ TryWrLock(t) PROVE IInv'
  BY <1>3, TryLockIInv
<1>4. ASSUME NEW t \in Threads, Unlock(t) PROVE IInv'
  BY <1>4, UnlockIInv
<1>5. ASSUME NEW t \in Threads, Destroy(t) \/ RWInit(t) \/ SpuriousWakeup(t) \/ Cancel(t) PROVE IInv'
  BY <1>5, OtherIInv
<1>6. CASE UNCHANGED vars
  BY <1>6 DEF vars, IInv, TypeOK, MutualExclusion, LocksCounted, WaitersCounted,
              MutexOwned, DestroyedUnused, At
<1> QED
  BY <1>1, <1>2, <1>3, <1>4, <1>5, <1>6 DEF Next

\* The inductive invariant holds of every behaviour of the lock functions.
THEOREM Invariance == ASSUME DestroyAlone PROVE Spec => []IInv
<1>1. Init => IInv
  BY InitIInv
<1>2. IInv /\ [Next]_vars => IInv'
  BY NextIInv
<1> QED
  BY <1>1, <1>2, PTL DEF Spec

\* The fields of my_pthread_rwlock_t keep their types; in particular no count
\* is ever decremented below 0.
THEOREM TypeCorrectness == ASSUME DestroyAlone PROVE Spec => []TypeOK
BY Invariance, PTL DEF IInv

\* A thread holding a write lock from wrlock or trywrlock is alone.
THEOREM Exclusion == ASSUME DestroyAlone PROVE Spec => []MutualExclusion
BY Invariance, PTL DEF IInv

\* rw_refcount counts the locks that rdlock, wrlock and the try functions gave
\* out and unlock has not taken back.
THEOREM LocksExact == ASSUME DestroyAlone PROVE Spec => []LocksCounted
BY Invariance, PTL DEF IInv

\* The waiting counts are exact through wakeups, failed waits and the cleanup
\* handlers of cancelled threads.
THEOREM WaitersExact == ASSUME DestroyAlone PROVE Spec => []WaitersCounted
BY Invariance, PTL DEF IInv

\* destroy does not destroy a lock that a thread holds or waits for.
THEOREM DestroySafe == ASSUME DestroyAlone PROVE Spec => DestroyRefusesLockInUse
<1>1. ASSUME IInv, IInv', [Next]_vars
      PROVE  [rw_magic /\ ~rw_magic' => \A t \in Threads : pc[t] \in {"idle", "dead"}]_vars
  <2>1. SUFFICES ASSUME rw_magic, ~rw_magic' PROVE \A t \in Threads : pc[t] \in {"idle", "dead"}
    OBVIOUS
  <2>2. \A t \in Threads : pc'[t] \in {"idle", "dead"}
    BY <1>1, <2>1 DEF IInv, DestroyedUnused
  <2>3. pc' = pc
    BY <1>1, <2>1 DEF vars, Next, RdLock, RdCall, RdLockMutex, RdBlock, RdAcquire, RdReturn,
         RdWaitError, RdCleanup, WrLock, WrCall, WrLockMutex, WrBlock, WrAcquire, WrReturn,
         WrWaitError, WrCleanup, TryRdLock, TryWrLock, Unlock, Destroy, RWInit,
         SpuriousWakeup, Cancel
  <2> QED
    BY <2>2, <2>3
<1> QED
  BY <1>1, Invariance, PTL DEF Spec, DestroyRefusesLockInUse

-----------------------------------------------------------------------------
\* Whenever the lock is free and threads sleep on a condition variable, some
\* writer has been woken up and has not given up yet; nobody is cancelled.
WakeupPending ==
  /\ At({"rdcancel", "wrcancel"}) = {}
  /\ rw_refcount = 0 /\ At({"rdwait", "wrwait"}) # {} => At({"wrwoken", "wrtest"}) # {}

\* Without cancellations and failed waits no step of rdlock or wrlock loses
\* the last wakeup: a reader only goes to sleep on a free lock if a writer
\* waits, and that writer is awake.
LEMMA LockPending ==
  ASSUME ~WaitErrors, IInv, WakeupPending, NEW t \in Threads, RdLock(t) \/ WrLock(t)
  PROVE  WakeupPending'
<1>0. pc[t] \notin {"rdcancel", "wrcancel"}
  BY DEF WakeupPending, At
<1>1. At({"rdcancel", "wrcancel"})' = {}
  BY <1>0 DEF IInv, TypeOK, WakeupPending, At, Goto, RdLock, RdCall, RdLockMutex, RdBlock, RdAcquire,
         RdReturn, RdWaitError, RdCleanup, WrLock, WrCall, WrLockMutex, WrBlock, WrAcquire,
         WrReturn, WrWaitError, WrCleanup
<1>2. CASE RdBlock(t)
  <2>1. SUFFICES ASSUME rw_refcount = 0 PROVE At({"wrwoken"})' # {}
    BY <1>1, <1>2 DEF WakeupPending, RdBlock, At
  <2>2. At({"wrwait", "wrwoken", "wrcancel"}) # {}
    BY <1>2, <2>1, AtFinite DEF IInv, WaitersCounted, RdBlock, ReaderBlocked
  <2>3. At({"wrwoken", "wrtest"}) # {}
    BY <2>1, <2>2 DEF WakeupPending, At
  <2>4. At({"wrtest"}) = {}
    BY <1>2 DEF IInv, MutexOwned, At, RdBlock
  <2>5. PICK w \in Threads : pc[w] = "wrwoken"
    BY <2>3, <2>4 DEF At
  <2> QED
    BY <1>2, <2>5 DEF IInv, TypeOK, RdBlock, Goto, At
<1>3. CASE WrBlock(t)
  BY <1>1, <1>3 DEF WakeupPending, WrBlock, WriterBlocked
<1>4. CASE RdAcquire(t)
  BY <1>1, <1>4 DEF WakeupPending, RdAcquire, ReaderBlocked, IInv, TypeOK
<1>5. CASE WrAcquire(t)
  BY <1>1, <1>5 DEF WakeupPending, WrAcquire
<1>6. CASE RdCall(t) \/ RdLockMutex(t) \/ RdReturn(t) \/ WrCall(t) \/ WrLockMutex(t) \/ WrReturn(t)
  <2>1. SUFFICES ASSUME rw_refcount = 0, At({"rdwait", "wrwait"})' # {}
                 PROVE  At({"wrwoken", "wrtest"})' # {}
    BY <1>1, <1>6 DEF WakeupPending, RdCall, RdLockMutex, RdReturn, WrCall, WrLockMutex, WrReturn
  <2>2. At({"rdwait", "wrwait"}) # {}
    BY <1>6, <2>1 DEF IInv, TypeOK, At, Goto, RdCall, RdLockMutex, RdReturn, WrCall, WrLockMutex, WrReturn
  <2>3. PICK w \in Threads : pc[w] \in {"wrwoken", "wrtest"}
    BY <2>1, <2>2 DEF WakeupPending, At
  <2>4. pc'[w] \in {"wrwoken", "wrtest"}
    BY <1>6, <2>3 DEF IInv, TypeOK, At, Goto, RdCall, RdLockMutex, RdReturn, WrCall, WrLockMutex, WrReturn
  <2> QED
    BY <2>4 DEF At
<1>7. ~RdWaitError(t) /\ ~WrWaitError(t) /\ ~RdCleanup(t) /\ ~WrCleanup(t)
  BY <1>0 DEF RdWaitError, WrWaitError, RdCleanup, WrCleanup
<1> QED
  BY <1>2, <1>3, <1>4, <1>5, <1>6, <1>7 DEF RdLock, WrLock

\* The unlock that frees the lock wakes up a writer if one waits, and else
\* all the readers.
LEMMA UnlockPending ==
  ASSUME IInv, WakeupPending, NEW t \in Threads, Unlock(t)
  PROVE  WakeupPending'
<1>0. TypeOK
  BY DEF IInv
<1>1. At({"rdcancel", "wrcancel"})' = {}
  BY <1>0, UnlockMoves DEF WakeupPending, At
<1>2. SUFFICES ASSUME rw_refcount' = 0, At({"rdwait", "wrwait"})' # {}
               PROVE  At({"wrwoken"})' # {}
  BY <1>1 DEF WakeupPending, At
<1>3. Released = 0 /\ t \notin At({"wrwait", "wrwoken"})
  BY <1>2 DEF Unlock, At
<1>4. CASE rw_nwaitwriters > 0
  <2>1. SignalWriter(t)
    BY <1>3, <1>4 DEF Unlock, Wakeups
  <2>2. CASE At({"wrwait"}) = {}
    <3>1. At({"wrwait", "wrwoken", "wrcancel"}) # {}
      BY <1>4, AtFinite DEF IInv, WaitersCounted
    <3>2. PICK w \in Threads : pc[w] = "wrwoken"
      BY <2>2, <3>1 DEF WakeupPending, At
    <3>3. pc'[w] = "wrwoken"
      BY <1>0, <1>3, <3>2, UnlockMoves DEF At
    <3> QED
      BY <3>2, <3>3 DEF At
  <2>3. CASE At({"wrwait"}) # {}
    <3>1. PICK w \in At({"wrwait"}) : pc' = [[pc EXCEPT ![t] = "idle"] EXCEPT ![w] = "wrwoken"]
      BY <2>1, <2>3 DEF SignalWriter
    <3>2. w \in Threads /\ pc'[w] = "wrwoken"
      BY <1>0, <3>1 DEF TypeOK, At
    <3> QED
      BY <3>2 DEF At
  <2> QED
    BY <2>2, <2>3
<1>5. CASE ~(rw_nwaitwriters > 0)
  <2>1. At({"wrwait", "wrwoken", "wrcancel"}) = {}
    BY <1>5, AtFinite DEF IInv, WaitersCounted
  <2>2. CASE rw_nwaitreaders > 0
    <3>1. BroadcastReaders(t)
      BY <1>5, <2>2 DEF Unlock, Wakeups
    <3> QED
      BY <1>2, <2>1, <3>1 DEF BroadcastReaders, At
  <2>3. CASE ~(rw_nwaitreaders > 0)
    <3>1. At({"rdwait", "rdwoken", "rdcancel"}) = {}
      BY <2>3, AtFinite DEF IInv, WaitersCounted
    <3> QED
      BY <1>0, <1>2, <2>1, <3>1, UnlockMoves DEF At
  <2> QED
    BY <2>2, <2>3
<1> QED
  BY <1>4, <1>5

\* The other operations do not strand a thread either.
LEMMA OtherPending ==
  ASSUME DestroyAlone, Cancellable = {}, IInv, WakeupPending, NEW t \in Threads,
         TryRdLock(t) \/ TryWrLock(t) \/ Destroy(t) \/ RWInit(t) \/ SpuriousWakeup(t) \/ Cancel(t)
  PROVE  WakeupPending'
<1>1. CASE TryRdLock(t) \/ TryWrLock(t)
  BY <1>1 DEF WakeupPending, IInv, TypeOK, TryRdLock, TryWrLock, ReaderBlocked, Goto, At
<1>2. CASE Destroy(t)
  BY <1>2 DEF WakeupPending, Destroy, At
<1>3. CASE RWInit(t)
  BY <1>3 DEF WakeupPending, RWInit, At, IInv, DestroyedUnused
<1>4. CASE SpuriousWakeup(t)
  <2>1. CASE pc[t] = "rdwait"
    BY <1>4, <2>1 DEF WakeupPending, IInv, TypeOK, SpuriousWakeup, Goto, At
  <2>2. CASE pc[t] = "wrwait"
    BY <1>4, <2>2 DEF WakeupPending, IInv, TypeOK, SpuriousWakeup, Goto, At
  <2> QED
    BY <1>4, <2>1, <2>2 DEF SpuriousWakeup
<1> QED
  BY <1>1, <1>2, <1>3, <1>4 DEF Cancel

\* When no thread is cancelled and no wait fails, a thread asleep on a free
\* lock is never forgotten: a woken writer is on its way to the lock.
THEOREM NobodyStranded ==
  ASSUME DestroyAlone, Cancellable = {}, ~WaitErrors
  PROVE  Spec => []NoStrandedThread
<1>1. Init => WakeupPending
  BY DEF Init, WakeupPending, At
<1>2. IInv /\ WakeupPending /\ [Next]_vars => WakeupPending'
  <2> SUFFICES ASSUME IInv, WakeupPending, [Next]_vars PROVE WakeupPending'
    OBVIOUS
  <2>1. ASSUME NEW t \in Threads, RdLock(t) \/ WrLock(t) PROVE WakeupPending'
    BY <2>1, LockPending
  <2>2. ASSUME NEW t \in Threads, Unlock(t) PROVE WakeupPending'
    BY <2>2, UnlockPending
  <2>3. ASSUME NEW t \in Threads, TryRdLock(t) \/ TryWrLock(t) \/ Destroy(t) \/ RWInit(t)
                                  \/ SpuriousWakeup(t) \/ Cancel(t)
        PROVE  WakeupPending'
    BY <2>3, OtherPending
  <2>4. CASE UNCHANGED vars
    BY <2>4 DEF vars, WakeupPending, At
  <2> QED
    BY <2>1, <2>2, <2>3, <2>4 DEF Next
<1>3. IInv /\ WakeupPending => NoStrandedThread
  BY RWLockAssumption DEF IInv, WakeupPending, NoStrandedThread, MutexOwned, At
<1> QED
  BY <1>1, <1>2, <1>3, Invariance, PTL DEF Spec

-----------------------------------------------------------------------------
\* Steps inside rdlock: only the one that grants the lock is visible to the
\* specification of a read-write lock.
LEMMA RdLockRefines ==
  ASSUME IInv, NEW t \in Threads, RdLock(t)
  PROVE  [RW!RWNext]_(RW!rwvars)
<1> USE DEF RW!rwvars
<1>1. CASE RdAcquire(t)
  <2>1. Enters(t, {"reading"}) /\ Keeps({"writing"}) /\ Keeps({"wrwait", "wrwoken", "wrcancel"})
    BY <1>1 DEF IInv, TypeOK, Keeps, Enters, RdAcquire, Goto
  <2>2. At({"writing"}) = {} /\ At({"wrwait", "wrwoken", "wrcancel"}) = {}
    BY <1>1, AtFinite DEF IInv, TypeOK, LocksCounted, WaitersCounted, ReaderBlocked, RdAcquire
  <2>3. RW!GrantRead(t)
    BY <2>1, <2>2, KeepsCount, EntersCount DEF RW!GrantRead
  <2> QED
    BY <2>3 DEF RW!RWNext
<1>2. CASE RdCall(t) \/ RdLockMutex(t) \/ RdBlock(t) \/ RdReturn(t) \/ RdWaitError(t) \/ RdCleanup(t)
  <2>1. Keeps({"reading"}) /\ Keeps({"writing"}) /\ Keeps({"wrwait", "wrwoken", "wrcancel"})
    BY <1>2 DEF IInv, TypeOK, Keeps, Goto, RdCall, RdLockMutex, RdBlock, RdReturn, RdWaitError, RdCleanup
  <2> QED
    BY <2>1, KeepsCount
<1> QED
  BY <1>1, <1>2 DEF RdLock

\* Steps inside wrlock: beginning and ending to wait, and the grant.
LEMMA WrLockRefines ==
  ASSUME IInv, NEW t \in Threads, WrLock(t)
  PROVE  [RW!RWNext]_(RW!rwvars)
<1> USE DEF RW!rwvars
<1>1. CASE WrAcquire(t)
  <2>1. Enters(t, {"writing"}) /\ Keeps({"reading"}) /\ Keeps({"wrwait", "wrwoken", "wrcancel"})
    BY <1>1 DEF IInv, TypeOK, Keeps, Enters, WrAcquire, Goto
  <2>2. At({"writing"}) = {} /\ At({"reading"}) = {}
    BY <1>1, AtFinite DEF IInv, LocksCounted, WriterBlocked, WrAcquire
  <2>3. RW!GrantWrite(t)
    BY <2>1, <2>2, KeepsCount, EntersCount DEF RW!GrantWrite
  <2> QED
    BY <2>3 DEF RW!RWNext
<1>2. CASE WrBlock(t)
  <2>1. Enters(t, {"wrwait", "wrwoken", "wrcancel"}) /\ Keeps({"reading"}) /\ Keeps({"writing"})
    BY <1>2 DEF IInv, TypeOK, Keeps, Enters, WrBlock, Goto
  <2>2. At({"reading"}) \cup At({"writing"}) # {} /\ t \notin At({"reading"}) \cup At({"writing"})
    BY <1>2, AtFinite DEF IInv, LocksCounted, WriterBlocked, WrBlock, At
  <2>3. RW!BeginWait(t)
    BY <2>1, <2>2, KeepsCount, EntersCount DEF RW!BeginWait
  <2> QED
    BY <2>3 DEF RW!RWNext
<1>3. CASE WrReturn(t) \/ WrWaitError(t) \/ WrCleanup(t)
  <2>1. Leaves(t, {"wrwait", "wrwoken", "wrcancel"}) /\ Keeps({"reading"}) /\ Keeps({"writing"})
    BY <1>3 DEF IInv, TypeOK, Keeps, Leaves, WrReturn, WrWaitError, WrCleanup, Goto
  <2>2. RW!EndWait(t)
    BY <2>1, KeepsCount, LeavesCount DEF RW!EndWait
  <2> QED
    BY <2>2 DEF RW!RWNext
<1>4. CASE WrCall(t) \/ WrLockMutex(t)
  <2>1. Keeps({"reading"}) /\ Keeps({"writing"}) /\ Keeps({"wrwait", "wrwoken", "wrcancel"})
    BY <1>4 DEF IInv, TypeOK, Keeps, Goto, WrCall, WrLockMutex
  <2> QED
    BY <2>1, KeepsCount
<1> QED
  BY <1>1, <1>2, <1>3, <1>4 DEF WrLock

\* The other operations: a granted try call, the release in unlock, and steps
\* that change nothing a caller can see.
LEMMA OtherRefines ==
  ASSUME IInv, NEW t \in Threads,
         TryRdLock(t) \/ TryWrLock(t) \/ Unlock(t) \/ Destroy(t) \/ RWInit(t)
         \/ SpuriousWakeup(t) \/ Cancel(t)
  PROVE  [RW!RWNext]_(RW!rwvars)
<1> USE DEF RW!rwvars
<1>1. CASE TryRdLock(t)
  <2>1. Enters(t, {"reading"}) /\ Keeps({"writing"}) /\ Keeps({"wrwait", "wrwoken", "wrcancel"})
    BY <1>1 DEF IInv, TypeOK, Keeps, Enters, TryRdLock, Goto
  <2>2. At({"writing"}) = {} /\ At({"wrwait", "wrwoken", "wrcancel"}) = {}
    BY <1>1, AtFinite DEF IInv, TypeOK, LocksCounted, WaitersCounted, ReaderBlocked, TryRdLock
  <2>3. RW!GrantRead(t)
    BY <2>1, <2>2, KeepsCount, EntersCount DEF RW!GrantRead
  <2> QED
    BY <2>3 DEF RW!RWNext
<1>2. CASE TryWrLock(t)
  <2>1. Enters(t, {"writing"}) /\ Keeps({"reading"}) /\ Keeps({"wrwait", "wrwoken", "wrcancel"})
    BY <1>2 DEF IInv, TypeOK, Keeps, Enters, TryWrLock, Goto
  <2>2. At({"writing"}) = {} /\ At({"reading"}) = {}
    BY <1>2, AtFinite DEF IInv, LocksCounted, WriterBlocked, TryWrLock
  <2>3. RW!GrantWrite(t)
    BY <2>1, <2>2, KeepsCount, EntersCount DEF RW!GrantWrite
  <2> QED
    BY <2>3 DEF RW!RWNext
<1>3. CASE Unlock(t)
  <2>0. TypeOK /\ pc[t] \in {"reading", "writing"}
    BY <1>3 DEF IInv, Unlock
  <2>1. Keeps({"wrwait", "wrwoken", "wrcancel"})
    BY <1>3, <2>0, UnlockMoves DEF Keeps
  <2>2. CASE pc[t] = "reading"
    <3>1. Leaves(t, {"reading"}) /\ Keeps({"writing"})
      BY <1>3, <2>0, <2>2, UnlockMoves DEF Keeps, Leaves
    <3>2. RW!ReleaseRead(t)
      BY <2>1, <3>1, KeepsCount, LeavesCount DEF RW!ReleaseRead
    <3> QED
      BY <3>2 DEF RW!RWNext
  <2>3. CASE pc[t] = "writing"
    <3>1. Leaves(t, {"writing"}) /\ Keeps({"reading"})
      BY <1>3, <2>0, <2>3, UnlockMoves DEF Keeps, Leaves
    <3>2. At({"writing"}) = {t}
      BY <2>3 DEF IInv, MutualExclusion, At
    <3>3. RW!ReleaseWrite(t)
      BY <2>1, <3>1, <3>2, KeepsCount, LeavesCount DEF RW!ReleaseWrite
    <3> QED
      BY <3>3 DEF RW!RWNext
  <2> QED
    BY <2>0, <2>2, <2>3
<1>4. CASE Destroy(t) \/ RWInit(t) \/ SpuriousWakeup(t) \/ Cancel(t)
  <2>1. Keeps({"reading"}) /\ Keeps({"writing"}) /\ Keeps({"wrwait", "wrwoken", "wrcancel"})
    BY <1>4 DEF IInv, TypeOK, Keeps, Goto, Destroy, RWInit, SpuriousWakeup, Cancel
  <2> QED
    BY <2>1, KeepsCount
<1> QED
  BY <1>1, <1>2, <1>3, <1>4

\* The functions of my_rwlock implement a read-write lock that prefers
\* writers.
THEOREM Refinement == ASSUME DestroyAlone PROVE Spec => ImplementsReadersWriter
<1>1. Init => RW!RWInitial
  BY DEF Init, At, RW!RWInitial
<1>2. IInv /\ [Next]_vars => [RW!RWNext]_(RW!rwvars)
  <2> SUFFICES ASSUME IInv, [Next]_vars PROVE [RW!RWNext]_(RW!rwvars)
    OBVIOUS
  <2>1. ASSUME NEW t \in Threads, RdLock(t) PROVE [RW!RWNext]_(RW!rwvars)
    BY <2>1, RdLockRefines
  <2>2. ASSUME NEW t \in Threads, WrLock(t) PROVE [RW!RWNext]_(RW!rwvars)
    BY <2>2, WrLockRefines
  <2>3. ASSUME NEW t \in Threads,
               TryRdLock(t) \/ TryWrLock(t) \/ Unlock(t) \/ Destroy(t) \/ RWInit(t)
               \/ SpuriousWakeup(t) \/ Cancel(t)
        PROVE  [RW!RWNext]_(RW!rwvars)
    BY <2>3, OtherRefines
  <2>4. CASE UNCHANGED vars
    BY <2>4 DEF vars, At, RW!rwvars
  <2> QED
    BY <2>1, <2>2, <2>3, <2>4 DEF Next
<1> QED
  BY <1>1, <1>2, Invariance, PTL DEF Spec, ImplementsReadersWriter, RW!RWSpec
=============================================================================
