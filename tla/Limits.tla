------------------------------- MODULE Limits -------------------------------
(***************************************************************************)
(* The programs that find out the limits of the system by trying: limits of *)
(* svmsg, svsem and svshm.  The system has identifiers for KIds objects, of *)
(* which other processes may take one or two; a message has at most KMesg   *)
(* bytes and a queue KQueue, a segment from KMin to KMax bytes, and a       *)
(* process attaches at most KSeg segments.  The sizes are in units of 128   *)
(* bytes for messages and 4096 for segments, doubled or incremented as the  *)
(* programs do.                                                             *)
(***************************************************************************)
EXTENDS Integers, FiniteSets, FiniteSetsExt

CONSTANTS MAX_DATA, MAX_NMESG, MAX_NIDS,   \* of the programs
          MaxKMesg, MaxKQueue, MaxKIds     \* bounds of the limits of the system

ASSUME LimitsAssumption ==
  {MAX_DATA, MAX_NMESG, MAX_NIDS, MaxKMesg, MaxKQueue, MaxKIds} \subseteq Nat \ {0}

VARIABLES mprog,
          KMesg, KQueue, KIds, KSeg, KMin, KMax,
          mothers,     \* identifiers that others have
          mids,        \* how many identifiers the program has
          matts,       \* how many segments it has attached
          mpc, mi, mj,
          mmax,        \* max_mesg
          mout,        \* what was printed: of each limit, or None
          mover        \* an element past the end of the array was written

limVars == <<mprog, KMesg, KQueue, KIds, KSeg, KMin, KMax, mothers, mids, matts, mpc, mi, mj, mmax, mout, mover>>
sysVars == <<mprog, KMesg, KQueue, KIds, KSeg, KMin, KMax>>

NotPrinted == -1

Outputs == {"data", "nmesg", "ids", "attached", "min", "max"}

LimInit ==
  /\ mprog \in {"svmsg", "svsem", "svshm", "none"}
  /\ KMesg \in (IF mprog = "svmsg" THEN 0..MaxKMesg ELSE {1})
  /\ KQueue \in (IF mprog = "svmsg" THEN 1..MaxKQueue ELSE {1})
  /\ KIds \in (IF mprog = "none" THEN {0} ELSE 1..MaxKIds)
  /\ KSeg \in (IF mprog = "svshm" THEN 1..MaxKIds ELSE {1})
  /\ KMin \in (IF mprog = "svshm" THEN 1..2 ELSE {1})
  /\ KMax \in (IF mprog = "svshm" THEN 3..4 ELSE {1})
  /\ mothers = 0 /\ mids = 0 /\ matts = 0
  /\ mpc = (CASE mprog = "svmsg" -> "get" [] mprog = "none" -> "exit" [] OTHER -> "open")
  /\ mi = 0 /\ mj = 0 /\ mmax = 0
  /\ mout = [o \in Outputs |-> NotPrinted]
  /\ mover = FALSE

LimFree == KIds - mothers - mids

\* Another process creates or removes an object.
OthersTake ==
  /\ mprog # "none" /\ mpc \notin {"exit", "failed"}
  /\ \/ LimFree > 0 /\ mothers = 0 /\ mothers' = 1
     \/ mothers = 1 /\ mothers' = 0
  /\ UNCHANGED <<sysVars, mids, matts, mpc, mi, mj, mmax, mout, mover>>

LimFails == mpc' = "failed" /\ UNCHANGED <<mids, mi, mj>>

Says(o, v) == mout' = [mout EXCEPT ![o] = v]

-----------------------------------------------------------------------------
(***************************************************************************)
(* svmsg/limits.c: the size of messages and of queues                       *)
(***************************************************************************)
\* Msgget, for the loop over the sizes and for each turn of the second loop
LimMsgget ==
  /\ mpc \in {"get", "queue"}
  /\ IF mpc = "queue" /\ mi > mmax
     THEN mpc' = "open" /\ mi' = 0 /\ UNCHANGED <<mids, mj>>
     ELSE IF LimFree > 0
     THEN /\ mids' = mids + 1
          /\ mpc' = (IF mpc = "get" THEN "size" ELSE "fill")
          /\ mi' = (IF mpc = "get" THEN MAX_DATA ELSE mi)
          /\ mj' = 0
     ELSE LimFails
  /\ UNCHANGED <<sysVars, mothers, matts, mmax, mout, mover>>

\* The loop of decreasing sizes; i == 0 quits, with the queue left behind.  The msgsnd has no
\* IPC_NOWAIT: a message that is legal but larger than the queue makes it wait for ever.
LimSize ==
  /\ mpc = "size" /\ (mi <= KMesg => mi <= KQueue)
  /\ IF mi = 0
     THEN mpc' = "failed" /\ UNCHANGED <<mids, mi, mmax, mout>>
     ELSE IF mi <= KMesg
     THEN mmax' = mi /\ Says("data", mi) /\ mids' = mids - 1 /\ mi' = 1 /\ mpc' = "queue"
     ELSE mi' = mi - 1 /\ UNCHANGED <<mids, mmax, mout, mpc>>
  /\ UNCHANGED <<sysVars, mothers, matts, mj, mover>>

\* msgsnd of messages of size mi until EAGAIN, and IPC_RMID
LimFill ==
  /\ mpc = "fill"
  /\ IF mj < MAX_NMESG /\ (mj + 1) * mi <= KQueue
     THEN mj' = mj + 1 /\ UNCHANGED <<mids, mi, mpc, mout>>
     ELSE Says("nmesg", mj) /\ mids' = mids - 1 /\ mi' = 2 * mi /\ mj' = 0 /\ mpc' = "queue"
  /\ UNCHANGED <<sysVars, mothers, matts, mmax, mover>>

-----------------------------------------------------------------------------
(***************************************************************************)
(* The identifiers, in all three                                            *)
(***************************************************************************)
\* Mutant: the loop is left without printing when the array is full.
LimOpenStrict ==
  /\ mpc = "open"
  /\ IF mi < MAX_NIDS
     THEN /\ mover' = (mover \/ mi >= MAX_NIDS)
          /\ IF LimFree > 0
             THEN mids' = mids + 1 /\ mi' = mi + 1 /\ UNCHANGED <<mpc, mj, mout>>
             ELSE Says("ids", mi) /\ mpc' = "remove" /\ UNCHANGED <<mids, mi, mj>>
     ELSE mpc' = "remove" /\ UNCHANGED <<mids, mi, mj, mout, mover>>
  /\ UNCHANGED <<sysVars, mothers, matts, mmax>>

\* for (i = 0; i <= MAX_NIDS; i++) of an array with MAX_NIDS elements
LimOpen ==
  /\ mpc = "open"
  /\ IF mi <= MAX_NIDS
     THEN /\ mover' = (mover \/ mi >= MAX_NIDS)
          /\ IF LimFree > 0
             THEN mids' = mids + 1 /\ mi' = mi + 1 /\ UNCHANGED <<mpc, mj, mout>>
             ELSE Says("ids", mi) /\ mpc' = "remove" /\ UNCHANGED <<mids, mi, mj>>
     ELSE mpc' = "remove" /\ UNCHANGED <<mids, mi, mj, mout, mover>>
  /\ UNCHANGED <<sysVars, mothers, matts, mmax>>

\* Mutant: the last one is not removed.
LimRemoveLess ==
  /\ mpc = "remove"
  /\ IF mj < mi - 1
     THEN mids' = mids - 1 /\ mj' = mj + 1 /\ UNCHANGED mpc
     ELSE mj' = 0 /\ mpc' = (IF mprog = "svshm" THEN "attach" ELSE "exit") /\ UNCHANGED mids
  /\ UNCHANGED <<sysVars, mothers, matts, mi, mmax, mout, mover>>

\* for (j = 0; j < i; j++) IPC_RMID
LimRemove ==
  /\ mpc = "remove"
  /\ IF mj < mi
     THEN mids' = mids - 1 /\ mj' = mj + 1 /\ UNCHANGED mpc
     ELSE mj' = 0 /\ mpc' = (IF mprog = "svshm" THEN "attach" ELSE "exit") /\ UNCHANGED mids
  /\ UNCHANGED <<sysVars, mothers, matts, mi, mmax, mout, mover>>

-----------------------------------------------------------------------------
(***************************************************************************)
(* svshm/limits.c: attached segments, and their size                        *)
(***************************************************************************)
\* Shmget and shmat; if shmat fails, the segment is removed.  What is printed then is i.
LimAttach ==
  /\ mpc = "attach"
  /\ IF mj >= mi
     THEN mpc' = "detach" /\ UNCHANGED <<mids, matts, mj, mout>>
     ELSE IF LimFree = 0
     THEN mpc' = "failed" /\ UNCHANGED <<mids, matts, mj, mout>>
     ELSE IF matts < KSeg
     THEN mids' = mids + 1 /\ matts' = matts + 1 /\ mj' = mj + 1 /\ UNCHANGED <<mpc, mout>>
     ELSE Says("attached", mi) /\ mpc' = "detach" /\ UNCHANGED <<mids, matts, mj>>
  /\ UNCHANGED <<sysVars, mothers, mi, mmax, mover>>

\* Shmdt and IPC_RMID of the first j, in a loop over i
LimDetach ==
  /\ mpc = "detach"
  /\ IF matts > 0
     THEN mids' = mids - 1 /\ matts' = matts - 1 /\ UNCHANGED <<mi, mpc>>
     ELSE mi' = 1 /\ mpc' = "min" /\ UNCHANGED <<mids, matts>>
  /\ UNCHANGED <<sysVars, mothers, mj, mmax, mout, mover>>

\* The smallest segment.  A failure because no identifier is left is taken for one because
\* of the size.
LimMin ==
  /\ mpc = "min"
  /\ IF mi >= KMin /\ mi <= KMax /\ LimFree > 0
     THEN Says("min", mi) /\ mi' = 1 /\ mpc' = "max"
     ELSE mi <= KMax /\ mi' = mi + 1 /\ UNCHANGED <<mpc, mout>>
  /\ UNCHANGED <<sysVars, mothers, mids, matts, mj, mmax, mover>>

\* The largest, from 65536 on
LimMax ==
  /\ mpc = "max"
  /\ IF mi <= KMax /\ LimFree > 0
     THEN mi' = mi + 1 /\ UNCHANGED <<mpc, mout>>
     ELSE Says("max", mi - 1) /\ mpc' = "exit" /\ UNCHANGED mi
  /\ UNCHANGED <<sysVars, mothers, mids, matts, mj, mmax, mover>>

LimStep == LimMsgget \/ LimSize \/ LimFill \/ LimOpen \/ LimRemove \/ LimAttach \/ LimDetach \/ LimMin \/ LimMax

LimNext == LimStep \/ OthersTake

LimFairness == WF_limVars(mprog # "none" /\ LimStep)

-----------------------------------------------------------------------------
LimTypeOK ==
  /\ mothers \in 0..1 /\ mids \in 0..(MaxKIds + 1) /\ matts \in 0..MaxKIds
  /\ mout \in [Outputs -> Int] /\ mover \in BOOLEAN
  /\ LimFree >= 0

\* A program that comes to its end has removed every object it created; and the array is
\* overrun only if the system has as many identifiers as it has elements.
LimitsCleanUp ==
  /\ mpc = "exit" => mids = 0 /\ matts = 0
  /\ mover => KIds >= MAX_NIDS

\* What is printed is the limit, to within the identifiers others have and the sizes tried:
\* the largest message tried that fits, the identifiers, the smallest segment.  The exception
\* is the number of segments attached at once: the program prints i, which is too large, where
\* j has the number.
LimitsFound ==
  /\ mout["data"] # NotPrinted => mout["data"] = Min({KMesg, MAX_DATA})
  /\ mout["ids"] # NotPrinted => mout["ids"] \in {KIds - 1, KIds}
  /\ mout["ids"] = NotPrinted /\ mpc \in {"remove", "attach"} => KIds > MAX_NIDS
  /\ mout["min"] # NotPrinted => mout["min"] >= KMin
  /\ mout["max"] # NotPrinted => mout["max"] <= KMax
  /\ mout["attached"] # NotPrinted => mout["attached"] > KSeg

\* The program ended, unless no segment can be created at all or a message is legal that the
\* queue never has room for.
LimitsEnded == mpc \in {"exit", "failed"} \/ (mpc = "min" /\ KIds = 1) \/ KQueue < KMesg
=============================================================================
