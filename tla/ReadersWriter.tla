---------------------------- MODULE ReadersWriter ----------------------------
(***************************************************************************)
(* What a read-write lock that prefers writers promises: who may hold the   *)
(* lock together, and that no read lock is granted while a writer waits.    *)
(* A writer may stop waiting at any time: because it was granted the lock,  *)
(* or gives up, or to look at the lock again.                               *)
(***************************************************************************)
CONSTANT Threads

VARIABLES readers, writers, waiting

rwvars == <<readers, writers, waiting>>

RWInitial == readers = {} /\ writers = {} /\ waiting = {}

GrantRead(t) ==
  /\ t \notin readers
  /\ writers = {} /\ waiting = {}
  /\ readers' = readers \cup {t}
  /\ UNCHANGED <<writers, waiting>>

GrantWrite(t) ==
  /\ readers = {} /\ writers = {}
  /\ writers' = {t}
  /\ UNCHANGED <<readers, waiting>>

ReleaseRead(t) ==
  /\ t \in readers
  /\ readers' = readers \ {t}
  /\ UNCHANGED <<writers, waiting>>

ReleaseWrite(t) ==
  /\ writers = {t}
  /\ writers' = {}
  /\ UNCHANGED <<readers, waiting>>

\* A writer only waits when there is something to wait for.
BeginWait(t) ==
  /\ readers \cup writers # {}
  /\ t \notin readers \cup writers \cup waiting
  /\ waiting' = waiting \cup {t}
  /\ UNCHANGED <<readers, writers>>

EndWait(t) ==
  /\ t \in waiting
  /\ waiting' = waiting \ {t}
  /\ UNCHANGED <<readers, writers>>

RWNext == \E t \in Threads : \/ GrantRead(t) \/ GrantWrite(t)
                             \/ ReleaseRead(t) \/ ReleaseWrite(t)
                             \/ BeginWait(t) \/ EndWait(t)

RWSpec == RWInitial /\ [][RWNext]_rwvars
=============================================================================
