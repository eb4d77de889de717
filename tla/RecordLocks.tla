---------------------------- MODULE RecordLocks ----------------------------
(***************************************************************************)
(* Programs around the locks of a whole file: test1 to test4 of lock, which *)
(* take record locks in a parent and its children; onedaemon, which keeps a *)
(* second copy of itself from running; and locksvsemrace1, which counts how *)
(* often a process finds a System V semaphore that is created but not yet   *)
(* initialized.  A process may be killed wherever a daemon or a holder of   *)
(* the semaphore can be.                                                    *)
(***************************************************************************)
EXTENDS Integers, Sequences, FiniteSets

CONSTANTS Kids,        \* children, or copies of the daemon
          Par,         \* the parent
          RaceTries, Rounds, MaxKills, MaxRestarts

ASSUME RecordLocksAssumption ==
  /\ Par \notin Kids /\ Cardinality(Kids) >= 2
  /\ {RaceTries, Rounds, MaxKills, MaxRestarts} \subseteq Nat

VARIABLES rprog,
          rlock,       \* the lock each process has: "none", "read" or "write"
          rpc,         \* "new", "run", "exit", "killed" and the steps of the programs
          rstep,       \* the next call of the script, or the rounds done
          rfailed,     \* who was refused a lock it did not want to wait for
          rfile,       \* the content of the pid file: a process, or "empty"
          rsem,        \* the semaphore: exists, val, otime, and who has it down
          rtries, rpipe, rconf,
          rkills, rrestarts

rlVars == <<rprog, rlock, rpc, rstep, rfailed, rfile, rsem, rtries, rpipe, rconf, rkills, rrestarts>>
fileVars == <<rlock, rfailed, rfile>>
semVars == <<rsem, rtries, rpipe, rconf>>

Lockers == Kids \cup {Par}

Ended == {"exit", "killed"}

\* The macros: a command, a type and what it does when it cannot be granted
Read_lock == [type |-> "read", wait |-> FALSE]
Readw_lock == [type |-> "read", wait |-> TRUE]
Write_lock == [type |-> "write", wait |-> FALSE]
Writew_lock == [type |-> "write", wait |-> TRUE]
Un_lock == [type |-> "none", wait |-> FALSE]
Fork == [type |-> "fork", wait |-> FALSE]

\* Mutant: the first child of test1 wants to write.
locktest1Write ==
  [par |-> <<Read_lock, Fork, Un_lock>>, kids |-> <<<<Write_lock, Un_lock, Read_lock>>, <<>>>>]

\* What the parent does, and each child
locktest1 ==
  [par |-> <<Read_lock, Fork, Un_lock>>, kids |-> <<<<Read_lock, Un_lock, Read_lock>>, <<>>>>]

locktest2 ==
  [par |-> <<Read_lock, Fork, Fork, Un_lock>>, kids |-> <<<<Writew_lock, Un_lock>>, <<Readw_lock, Un_lock>>>>]

locktest3 ==
  [par |-> <<Write_lock, Fork, Fork, Un_lock>>, kids |-> <<<<Writew_lock, Un_lock>>, <<Readw_lock, Un_lock>>>>]

\* test3 with the sleeps of the children exchanged
locktest4 ==
  [par |-> <<Write_lock, Fork, Fork, Un_lock>>, kids |-> <<<<Writew_lock, Un_lock>>, <<Readw_lock, Un_lock>>>>]

LockTests == {locktest1, locktest2, locktest3, locktest4}

NoScript == [par |-> <<>>, kids |-> <<>>]
daemon == [par |-> <<>>, kids |-> <<<<>>>>]
race1 == [par |-> <<>>, kids |-> <<<<>>, <<>>>>]

\* The order in which the children are forked
KidNo == CHOOSE f \in [Kids -> 1..Cardinality(Kids)] : \A a, b \in Kids : a # b => f[a] # f[b]

Script(p) ==
  IF p = Par THEN rprog.par
  ELSE IF KidNo[p] <= Len(rprog.kids) THEN rprog.kids[KidNo[p]] ELSE <<>>

RlInit ==
  /\ rprog \in LockTests \cup {NoScript, daemon, race1}
  /\ rlock = [p \in Lockers |-> "none"]
  /\ rpc = [p \in Lockers |-> IF rprog \in LockTests \cup {race1} /\ p = Par THEN "run"
                              ELSE IF rprog \in {daemon, race1} /\ p \in Kids THEN "run"
                              ELSE IF rprog = NoScript \/ p = Par THEN "exit" ELSE "new"]
  /\ rstep = [p \in Lockers |-> 0]
  /\ rfailed = {}
  /\ rfile = "empty"
  /\ rsem = [exists |-> FALSE, val |-> 0, otime |-> FALSE, holder |-> "nobody"]
  /\ rtries = [p \in Lockers |-> 0]
  /\ rpipe = 0 /\ rconf = 0 /\ rkills = 0 /\ rrestarts = 0

-----------------------------------------------------------------------------
(***************************************************************************)
(* Record locks                                                             *)
(***************************************************************************)
\* Mutant: a read lock is compatible with everything.
GrantableRead(p, type) ==
  \/ type \in {"none", "read"}
  \/ \A q \in Lockers \ {p} : rlock[q] = "none"

\* What the kernel grants: one writer, or any number of readers
Grantable(p, type) ==
  \/ type = "none"
  \/ \A q \in Lockers \ {p} : rlock[q] = "none" \/ (type = "read" /\ rlock[q] = "read")

\* lock_reg: fcntl with F_SETLK or F_SETLKW
lock_reg(p, l) ==
  /\ Grantable(p, l.type)
  /\ rlock' = [rlock EXCEPT ![p] = l.type]

\* Lock_reg with F_SETLK that is refused: err_sys
Refused(p, l) == ~l.wait /\ ~Grantable(p, l.type)

Ends(p, how) ==
  /\ rpc' = [rpc EXCEPT ![p] = how]
  /\ rlock' = [rlock EXCEPT ![p] = "none"]

\* The next lock call of a test, or its end
LockCall(p) ==
  /\ rprog \in LockTests /\ rpc[p] = "run"
  /\ IF rstep[p] = Len(Script(p))
     THEN Ends(p, "exit") /\ UNCHANGED <<rstep, rfailed>>
     ELSE LET l == Script(p)[rstep[p] + 1] IN
          /\ l.type # "fork"
          /\ \/ lock_reg(p, l) /\ rstep' = [rstep EXCEPT ![p] = @ + 1] /\ UNCHANGED <<rpc, rfailed>>
             \/ Refused(p, l) /\ Ends(p, "exit") /\ rfailed' = rfailed \cup {p} /\ UNCHANGED rstep
  /\ UNCHANGED <<rprog, rfile, semVars, rkills, rrestarts>>

\* fork: the child has none of the locks of the parent
LockFork ==
  /\ rprog \in LockTests /\ rpc[Par] = "run" /\ rstep[Par] < Len(rprog.par)
  /\ rprog.par[rstep[Par] + 1].type = "fork"
  /\ LET k == CHOOSE c \in Kids : KidNo[c] = rstep[Par] IN rpc' = [rpc EXCEPT ![k] = "run"]
  /\ rstep' = [rstep EXCEPT ![Par] = @ + 1]
  /\ UNCHANGED <<rprog, fileVars, semVars, rkills, rrestarts>>

-----------------------------------------------------------------------------
(***************************************************************************)
(* onedaemon                                                                *)
(***************************************************************************)
\* Mutant: the pid is written before the lock is tried.
DaemonLockLate(p) ==
  /\ rprog = daemon /\ rpc[p] = "run"
  /\ IF Grantable(p, "write")
     THEN lock_reg(p, Write_lock) /\ rpc' = [rpc EXCEPT ![p] = "truncate"] /\ UNCHANGED rfailed
     ELSE Ends(p, "exit") /\ rfailed' = rfailed \cup {p}
  /\ rfile' = p
  /\ UNCHANGED <<rprog, rstep, semVars, rkills, rrestarts>>

\* Open and write_lock, which quits when another has the lock
DaemonLock(p) ==
  /\ rprog = daemon /\ rpc[p] = "run"
  /\ IF Grantable(p, "write")
     THEN lock_reg(p, Write_lock) /\ rpc' = [rpc EXCEPT ![p] = "truncate"] /\ UNCHANGED rfailed
     ELSE Ends(p, "exit") /\ rfailed' = rfailed \cup {p}
  /\ UNCHANGED <<rprog, rstep, rfile, semVars, rkills, rrestarts>>

\* Ftruncate, and then Write of the pid; the daemon pauses with the file open
DaemonWrites(p) ==
  /\ rprog = daemon /\ rpc[p] \in {"truncate", "write"}
  /\ IF rpc[p] = "truncate"
     THEN rfile' = "empty" /\ rpc' = [rpc EXCEPT ![p] = "write"]
     ELSE rfile' = p /\ rpc' = [rpc EXCEPT ![p] = "pause"]
  /\ UNCHANGED <<rprog, rlock, rstep, rfailed, semVars, rkills, rrestarts>>

\* A daemon is killed, or a copy that ended is started again.
DaemonKilled(p) ==
  /\ rprog = daemon /\ rpc[p] \notin Ended /\ p \in Kids /\ rkills < MaxKills
  /\ rkills' = rkills + 1
  /\ Ends(p, "killed")
  /\ UNCHANGED <<rprog, rstep, rfailed, rfile, semVars, rrestarts>>

DaemonStarts(p) ==
  /\ rprog = daemon /\ rpc[p] \in Ended /\ p \in Kids /\ rrestarts < MaxRestarts
  /\ rrestarts' = rrestarts + 1
  /\ rpc' = [rpc EXCEPT ![p] = "run"]
  /\ rfailed' = rfailed \ {p}
  /\ UNCHANGED <<rprog, rlock, rstep, rfile, semVars, rkills>>

-----------------------------------------------------------------------------
(***************************************************************************)
(* locksvsemrace1                                                           *)
(***************************************************************************)
\* semget with IPC_CREAT and IPC_EXCL: the first makes the semaphore, with the value 0
RaceSemget(p) ==
  /\ rprog = race1 /\ p \in Kids /\ rpc[p] = "run"
  /\ rpc' = [rpc EXCEPT ![p] = IF rsem.exists THEN "stat" ELSE "setval"]
  /\ rsem' = [rsem EXCEPT !.exists = TRUE]
  /\ UNCHANGED <<rprog, rstep, fileVars, rtries, rpipe, rconf, rkills, rrestarts>>

RaceSetval(p) ==
  /\ rpc[p] = "setval"
  /\ rsem' = [rsem EXCEPT !.val = 1]
  /\ rpc' = [rpc EXCEPT ![p] = "wait"]
  /\ UNCHANGED <<rprog, rstep, fileVars, rtries, rpipe, rconf, rkills, rrestarts>>

\* Mutant: the test of sem_otime is turned round.
RaceStatAnyway(p) ==
  /\ rpc[p] = "stat"
  /\ rpc' = [rpc EXCEPT ![p] = "wait"]
  /\ rpipe' = rpipe + 1
  /\ UNCHANGED <<rprog, rsem, rstep, rtries, rconf, fileVars, rkills, rrestarts>>

\* IPC_STAT until sem_otime is set: a byte to the parent each time, MAX_TRIES times
RaceStat(p) ==
  /\ rpc[p] = "stat"
  /\ IF rtries[p] = RaceTries
     THEN rpc' = [rpc EXCEPT ![p] = "exit"] /\ UNCHANGED <<rtries, rpipe>>
     ELSE IF rsem.otime
     THEN rpc' = [rpc EXCEPT ![p] = "wait"] /\ UNCHANGED <<rtries, rpipe>>
     ELSE rtries' = [rtries EXCEPT ![p] = @ + 1] /\ rpipe' = rpipe + 1 /\ UNCHANGED rpc
  /\ UNCHANGED <<rprog, rsem, rstep, rconf, fileVars, rkills, rrestarts>>

\* Semop of waitop, and of postop: Rounds times each
RaceSemop(p) ==
  /\ rpc[p] \in {"wait", "post"}
  /\ IF rpc[p] = "wait"
     THEN /\ rsem.val > 0
          /\ rsem' = [rsem EXCEPT !.val = @ - 1, !.otime = TRUE, !.holder = p]
          /\ rpc' = [rpc EXCEPT ![p] = "post"]
          /\ UNCHANGED rstep
     ELSE /\ rsem' = [rsem EXCEPT !.val = @ + 1, !.holder = "nobody"]
          /\ rstep' = [rstep EXCEPT ![p] = @ + 1]
          /\ rpc' = [rpc EXCEPT ![p] = IF rstep'[p] = Rounds THEN "exit" ELSE "wait"]
  /\ UNCHANGED <<rprog, rtries, rpipe, rconf, fileVars, rkills, rrestarts>>

\* A child is killed: SEM_UNDO gives back what it has of the semaphore.
RaceKilled(p) ==
  /\ rprog = race1 /\ p \in Kids /\ rpc[p] \notin Ended /\ rkills < MaxKills
  /\ rkills' = rkills + 1
  /\ rpc' = [rpc EXCEPT ![p] = "killed"]
  /\ rsem' = IF rpc[p] = "post" THEN [rsem EXCEPT !.val = @ + 1, !.holder = "nobody"] ELSE rsem
  /\ UNCHANGED <<rprog, rstep, rtries, rpipe, rconf, fileVars, rrestarts>>

\* Mutant: the parent stops when the pipe is empty.
RaceParentShort ==
  /\ rprog = race1 /\ rpc[Par] = "run"
  /\ IF rpipe > 0
     THEN rpipe' = rpipe - 1 /\ rconf' = rconf + 1 /\ UNCHANGED rpc
     ELSE rpc' = [rpc EXCEPT ![Par] = "exit"] /\ UNCHANGED <<rpipe, rconf>>
  /\ UNCHANGED <<rprog, rstep, rsem, rtries, fileVars, rkills, rrestarts>>

\* The parent counts the bytes up to the end of file: the children have the other end.
RaceParent ==
  /\ rprog = race1 /\ rpc[Par] = "run"
  /\ IF rpipe > 0
     THEN rpipe' = rpipe - 1 /\ rconf' = rconf + 1 /\ UNCHANGED rpc
     ELSE (\A k \in Kids : rpc[k] \in Ended) /\ rpc' = [rpc EXCEPT ![Par] = "exit"] /\ UNCHANGED <<rpipe, rconf>>
  /\ UNCHANGED <<rprog, rstep, rsem, rtries, fileVars, rkills, rrestarts>>

-----------------------------------------------------------------------------
RlStep(p) ==
  \/ LockCall(p) \/ DaemonLock(p) \/ DaemonWrites(p)
  \/ RaceSemget(p) \/ RaceSetval(p) \/ RaceStat(p) \/ RaceSemop(p)

RlNext ==
  \/ \E p \in Lockers : RlStep(p) \/ DaemonKilled(p) \/ DaemonStarts(p) \/ RaceKilled(p)
  \/ LockFork \/ RaceParent

RlFairness ==
  /\ \A p \in Lockers : WF_rlVars(RlStep(p))
  /\ WF_rlVars(LockFork) /\ WF_rlVars(RaceParent)

-----------------------------------------------------------------------------
RlTypeOK ==
  /\ rlock \in [Lockers -> {"none", "read", "write"}]
  /\ rstep \in [Lockers -> 0..(4 + Rounds)]
  /\ rsem.val \in 0..1
  /\ rfile \in Kids \cup {"empty"}

\* The tests' "this should work": no lock asked for without waiting is refused in test1 to
\* test4.  Of onedaemon at most one copy gets past the lock, and the pid in the file is that
\* of the copy that pauses, however often copies are killed and started again.
LocksHonoured ==
  /\ RlTypeOK
  /\ rprog \in LockTests => rfailed = {}
  /\ rprog = daemon =>
       /\ Cardinality({p \in Kids : rpc[p] \in {"truncate", "write", "pause"}}) <= 1
       /\ \A p \in Kids : rpc[p] = "pause" => rfile = p

\* locksvsemrace1: a process gets past the check only once the semaphore has its first value
\* and at most one is between the two semops; when the parent prints, every conflict is counted.
ConflictsCounted ==
  rprog = race1 =>
    /\ \A p \in Kids : rpc[p] = "post" <=> rsem.holder = p
    /\ rsem.otime => rsem.val + Cardinality({p \in Kids : rpc[p] = "post"}) = 1
    /\ \A p \in Kids : rpc[p] = "wait" => rsem.val + Cardinality({q \in Kids : rpc[q] = "post"}) = 1
    /\ rpc[Par] = "exit" => /\ rpipe = 0
                            /\ \A k \in Kids : rpc[k] \in Ended
    /\ rconf + rpipe <= RaceTries * (Cardinality(Kids) - 1)

\* Every process of the lock tests and of locksvsemrace1 ended, also when the creator of the
\* semaphore was killed before it set the value; a copy of the daemon ended or pauses.
LockersEnded == \A p \in Lockers : rpc[p] \in Ended \cup {"pause", "new"}
=============================================================================
