--------------------------- MODULE MsgQueue_proof ---------------------------
(***************************************************************************)
(* Proofs about MsgQueue, for any finite set of processes, any size of the  *)
(* queue and any bounds: mqh_nwait counts the processes in mq_receive, and  *)
(* therefore mq_send notifies only when no process waits for the message.   *)
(* The lists of messages play no part in this.                              *)
(***************************************************************************)
EXTENDS MsgQueue, FiniteSetTheorems, TLAPS

Labels ==
  {"idle", "sendwait", "sendwoken", "recvwait", "recvwoken", "dead", "recvdead"}

\* The labels that mqh_nwait counts
InReceive == {"recvwait", "recvwoken", "recvdead"}

\* What the theorems need of the types: the registered process is one of the processes.
Typed ==
  /\ pc \in [Procs -> Labels]
  /\ mqh_nwait \in Nat
  /\ mqh_pid \in Procs \cup {None}
  /\ sigs \in [Procs -> Nat]

\* The inductive invariant
IInv == Typed /\ NwaitCountsReceivers

\* The processes go to the labels of l, but for one that may have been woken up.
Moves(l) ==
  /\ pc' \in [Procs -> Labels]
  /\ \A p \in Procs : (pc'[p] \in InReceive) <=> (l[p] \in InReceive)

-----------------------------------------------------------------------------
\* pthread_cond_signal takes no process out of mq_receive and brings none into it.
LEMMA SignalMoves ==
  ASSUME NEW l \in [Procs -> Labels], Signal(l)
  PROVE  Moves(l)
<1> DEFINE waiting == {p \in Procs : l[p] \in {"sendwait", "recvwait"}}
<1>1. CASE waiting = {}
  BY <1>1 DEF Signal, Moves
<1>2. CASE waiting # {}
  <2>1. PICK w \in waiting :
          pc' = [l EXCEPT ![w] = IF @ = "sendwait" THEN "sendwoken" ELSE "recvwoken"]
    BY <1>2 DEF Signal
  <2>2. w \in Procs /\ l[w] \in {"sendwait", "recvwait"}
    OBVIOUS
  <2> QED
    BY <2>1, <2>2 DEF Moves, Labels, InReceive
<1> QED
  BY <1>1, <1>2

\* The set that is counted is finite.
LEMMA InReceiveFinite ==
  IsFiniteSet(Waiting(InReceive)) /\ Cardinality(Waiting(InReceive)) \in Nat
<1>1. Waiting(InReceive) \subseteq Procs
  BY DEF Waiting
<1> QED
  BY <1>1, FS_Subset, FS_CardinalityType, MsgQueueAssumption

\* Nobody enters or leaves mq_receive.
LEMMA NobodyEnters ==
  ASSUME NwaitCountsReceivers, Moves(pc), mqh_nwait' = mqh_nwait
  PROVE  NwaitCountsReceivers'
<1>1. Waiting(InReceive)' = Waiting(InReceive)
  BY DEF Moves, Waiting
<1> QED
  BY <1>1 DEF NwaitCountsReceivers, InReceive

\* One process enters mq_receive and is counted.
LEMMA OneEnters ==
  ASSUME NwaitCountsReceivers, NEW p \in Procs, pc[p] \notin InReceive,
         pc \in [Procs -> Labels], pc' = [pc EXCEPT ![p] = "recvwait"],
         mqh_nwait' = mqh_nwait + 1
  PROVE  NwaitCountsReceivers'
<1>1. /\ Waiting(InReceive)' = Waiting(InReceive) \cup {p}
      /\ p \notin Waiting(InReceive)
  BY DEF Waiting, InReceive
<1>2. Cardinality(Waiting(InReceive) \cup {p}) = Cardinality(Waiting(InReceive)) + 1
  BY <1>1, InReceiveFinite, FS_AddElement
<1> QED
  BY <1>1, <1>2 DEF NwaitCountsReceivers, InReceive

\* One process leaves mq_receive, and others may be woken up.
LEMMA OneLeaves ==
  ASSUME NwaitCountsReceivers, NEW p \in Procs, pc[p] \in InReceive,
         pc \in [Procs -> Labels], Moves([pc EXCEPT ![p] = "idle"]),
         mqh_nwait' = mqh_nwait - 1
  PROVE  NwaitCountsReceivers' /\ mqh_nwait' \in Nat
<1>1. /\ Waiting(InReceive)' = Waiting(InReceive) \ {p}
      /\ p \in Waiting(InReceive)
  BY DEF Waiting, InReceive, Moves
<1>2. Cardinality(Waiting(InReceive) \ {p}) = Cardinality(Waiting(InReceive)) - 1
  BY <1>1, InReceiveFinite, FS_RemoveElement
<1>3. NwaitCountsReceivers'
  BY <1>1, <1>2 DEF NwaitCountsReceivers, InReceive
<1>4. Cardinality(Waiting(InReceive) \ {p}) \in Nat
  BY InReceiveFinite, FS_RemoveElement, FS_CardinalityType
<1> QED
  BY <1>1, <1>3, <1>4 DEF NwaitCountsReceivers, InReceive

\* A process that ends its call, and the one it may wake up.
LEMMA PutMoves ==
  ASSUME NEW p \in Procs, NEW prio, pc \in [Procs -> Labels], Put(p, prio)
  PROVE  Moves([pc EXCEPT ![p] = "idle"])
<1>1. [pc EXCEPT ![p] = "idle"] \in [Procs -> Labels]
  BY DEF Labels
<1>2. CASE WasEmpty
  BY <1>1, <1>2, SignalMoves DEF Put
<1>3. CASE ~WasEmpty
  BY <1>1, <1>3 DEF Put, Moves
<1> QED
  BY <1>2, <1>3

LEMMA TakeMoves ==
  ASSUME NEW p \in Procs, pc \in [Procs -> Labels], Take(p)
  PROVE  Moves([pc EXCEPT ![p] = "idle"])
<1>1. [pc EXCEPT ![p] = "idle"] \in [Procs -> Labels]
  BY DEF Labels
<1>2. CASE WasFull
  BY <1>1, <1>2, SignalMoves DEF Take
<1>3. CASE ~WasFull
  BY <1>1, <1>3 DEF Take, Moves
<1> QED
  BY <1>2, <1>3

\* A process outside mq_receive that ends its call leaves the others where they were.
LEMMA IdleMoves ==
  ASSUME NEW p \in Procs, pc \in [Procs -> Labels], pc[p] \notin InReceive,
         Moves([pc EXCEPT ![p] = "idle"])
  PROVE  Moves(pc)
BY DEF Moves, InReceive

-----------------------------------------------------------------------------
LEMMA InitIInv == Init => IInv
<1> SUFFICES ASSUME Init PROVE IInv
  OBVIOUS
<1>1. Typed
  BY DEF Init, Typed, Labels
<1>2. Waiting(InReceive) = {}
  BY DEF Init, Waiting, InReceive
<1>3. NwaitCountsReceivers
  BY <1>2, FS_EmptySet DEF Init, NwaitCountsReceivers, InReceive
<1> QED
  BY <1>1, <1>3 DEF IInv

\* The notification of mq_send signals a process that is registered.
LEMMA NotifyTyped ==
  ASSUME Typed, NotifyRegistered
  PROVE  sigs' \in [Procs -> Nat] /\ mqh_pid' \in Procs \cup {None}
<1>1. CASE mq_curmsgs = 0 /\ mqh_pid # None /\ mqh_nwait = 0
  BY <1>1 DEF NotifyRegistered, Typed
<1>2. CASE ~(mq_curmsgs = 0 /\ mqh_pid # None /\ mqh_nwait = 0)
  BY <1>2 DEF NotifyRegistered, Typed, registration
<1> QED
  BY <1>1, <1>2

\* Every step of a process keeps the invariant.
LEMMA StepIInv ==
  ASSUME IInv, NEW p \in Procs,
         \/ \E prio \in Prios : Send(p, prio) \/ SendBlock(p, prio)
         \/ SendWaitAgain(p) \/ SendResume(p)
         \/ Receive(p) \/ RecvBlock(p) \/ RecvWaitAgain(p) \/ RecvResume(p)
         \/ \E event \in BOOLEAN : Notify(p, event)
         \/ NotifyNull(p) \/ Close(p)
         \/ \E flag \in BOOLEAN : Open(p, flag) \/ SetAttr(p, flag)
         \/ SpuriousWakeup(p) \/ Catch(p) \/ Die(p)
  PROVE  IInv'
<1> USE DEF IInv
<1>0. Typed /\ NwaitCountsReceivers /\ pc \in [Procs -> Labels]
  BY DEF Typed
<1>1. ASSUME NEW prio \in Prios, Send(p, prio) PROVE IInv'
  <2>1. Moves(pc) /\ mqh_nwait' = mqh_nwait
    BY <1>0, <1>1, PutMoves, IdleMoves DEF Send, Ready, InReceive
  <2>2. Typed'
    BY <1>0, <1>1, <2>1, NotifyTyped DEF Send, Typed, Moves
  <2> QED
    BY <1>0, <2>1, <2>2, NobodyEnters
<1>2. ASSUME NEW prio \in Prios, SendBlock(p, prio) PROVE IInv'
  <2>1. Moves(pc) /\ mqh_nwait' = mqh_nwait
    BY <1>0, <1>2 DEF SendBlock, Ready, Moves, Labels, InReceive
  <2>2. Typed'
    BY <1>0, <1>2, <2>1 DEF SendBlock, registration, Typed, Moves
  <2> QED
    BY <1>0, <2>1, <2>2, NobodyEnters
<1>3. CASE SendWaitAgain(p)
  <2>1. Moves(pc) /\ mqh_nwait' = mqh_nwait
    BY <1>0, <1>3 DEF SendWaitAgain, Moves, Labels, InReceive
  <2>2. Typed'
    BY <1>0, <1>3, <2>1 DEF SendWaitAgain, registration, Typed, Moves
  <2> QED
    BY <1>0, <2>1, <2>2, NobodyEnters
<1>4. CASE SendResume(p)
  <2>1. Moves(pc) /\ mqh_nwait' = mqh_nwait
    BY <1>0, <1>4, PutMoves, IdleMoves DEF SendResume, InReceive
  <2>2. Typed'
    BY <1>0, <1>4, <2>1 DEF SendResume, registration, Typed, Moves
  <2> QED
    BY <1>0, <2>1, <2>2, NobodyEnters
<1>5. CASE Receive(p)
  <2>1. Moves(pc) /\ mqh_nwait' = mqh_nwait
    BY <1>0, <1>5, TakeMoves, IdleMoves DEF Receive, Ready, InReceive
  <2>2. Typed'
    BY <1>0, <1>5, <2>1 DEF Receive, registration, Typed, Moves
  <2> QED
    BY <1>0, <2>1, <2>2, NobodyEnters
<1>6. CASE RecvBlock(p)
  <2>1. NwaitCountsReceivers'
    BY <1>0, <1>6, OneEnters DEF RecvBlock, Ready, InReceive
  <2>2. Typed'
    BY <1>0, <1>6 DEF RecvBlock, registration, Typed, Labels
  <2> QED
    BY <2>1, <2>2
<1>7. CASE RecvWaitAgain(p)
  <2>1. Moves(pc) /\ mqh_nwait' = mqh_nwait
    BY <1>0, <1>7 DEF RecvWaitAgain, Moves, Labels, InReceive
  <2>2. Typed'
    BY <1>0, <1>7, <2>1 DEF RecvWaitAgain, registration, Typed, Moves
  <2> QED
    BY <1>0, <2>1, <2>2, NobodyEnters
<1>8. CASE RecvResume(p)
  <2>1. Moves([pc EXCEPT ![p] = "idle"]) /\ mqh_nwait' = mqh_nwait - 1
    BY <1>0, <1>8, TakeMoves DEF RecvResume
  <2>2. NwaitCountsReceivers' /\ mqh_nwait' \in Nat
    BY <1>0, <1>8, <2>1, OneLeaves DEF RecvResume, InReceive
  <2>3. Typed'
    BY <1>0, <1>8, <2>1, <2>2 DEF RecvResume, registration, Typed, Moves
  <2> QED
    BY <2>2, <2>3
<1>9. ASSUME NEW event \in BOOLEAN, Notify(p, event) PROVE IInv'
  <2>1. Moves(pc) /\ mqh_nwait' = mqh_nwait
    BY <1>0, <1>9 DEF Notify, Moves
  <2>2. Typed'
    BY <1>0, <1>9, <2>1 DEF Notify, Typed, Moves
  <2> QED
    BY <1>0, <2>1, <2>2, NobodyEnters
<1>10. CASE NotifyNull(p) \/ Close(p)
  <2>1. Moves(pc) /\ mqh_nwait' = mqh_nwait
    BY <1>0, <1>10 DEF NotifyNull, Close, Moves
  <2>2. Typed'
    BY <1>0, <1>10, <2>1 DEF NotifyNull, Close, Unregister, Typed, Moves
  <2> QED
    BY <1>0, <2>1, <2>2, NobodyEnters
<1>11. ASSUME NEW flag \in BOOLEAN, Open(p, flag) \/ SetAttr(p, flag) PROVE IInv'
  <2>1. Moves(pc) /\ mqh_nwait' = mqh_nwait
    BY <1>0, <1>11 DEF Open, SetAttr, Moves
  <2>2. Typed'
    BY <1>0, <1>11, <2>1 DEF Open, SetAttr, registration, Typed, Moves
  <2> QED
    BY <1>0, <2>1, <2>2, NobodyEnters
<1>12. CASE SpuriousWakeup(p)
  <2>1. Moves(pc) /\ mqh_nwait' = mqh_nwait
    BY <1>0, <1>12 DEF SpuriousWakeup, Moves, Labels, InReceive
  <2>2. Typed'
    BY <1>0, <1>12, <2>1 DEF SpuriousWakeup, registration, Typed, Moves
  <2> QED
    BY <1>0, <2>1, <2>2, NobodyEnters
<1>13. CASE Catch(p)
  <2>1. Moves(pc) /\ mqh_nwait' = mqh_nwait
    BY <1>0, <1>13 DEF Catch, Moves
  <2>2. sigs' \in [Procs -> Nat]
    BY <1>0, <1>13 DEF Catch, Typed
  <2>3. Typed'
    BY <1>0, <1>13, <2>1, <2>2 DEF Catch, Typed, Moves
  <2> QED
    BY <1>0, <2>1, <2>3, NobodyEnters
<1>14. CASE Die(p)
  <2>1. Moves(pc) /\ mqh_nwait' = mqh_nwait
    BY <1>0, <1>14 DEF Die, Moves, Labels, InReceive
  <2>2. Typed'
    BY <1>0, <1>14, <2>1 DEF Die, Typed, Moves
  <2> QED
    BY <1>0, <2>1, <2>2, NobodyEnters
<1> QED
  BY <1>1, <1>2, <1>3, <1>4, <1>5, <1>6, <1>7, <1>8, <1>9, <1>10, <1>11, <1>12, <1>13, <1>14

\* Next keeps the invariant, and so does a step that changes nothing.
LEMMA NextIInv == IInv /\ [Next]_vars => IInv'
<1> SUFFICES ASSUME IInv, [Next]_vars PROVE IInv'
  OBVIOUS
<1>1. CASE Next
  BY <1>1, StepIInv DEF Next
<1>2. CASE UNCHANGED vars
  BY <1>2 DEF vars, registration, IInv, Typed, NwaitCountsReceivers, Waiting
<1> QED
  BY <1>1, <1>2

-----------------------------------------------------------------------------
\* mqh_nwait of the file is always the number of processes that are blocked, or
\* were killed, in mq_receive, for every number of processes and size of the queue.
THEOREM NwaitExact == Spec => []NwaitCountsReceivers
<1>1. Spec => []IInv
  BY InitIInv, NextIInv, PTL DEF Spec
<1>2. IInv => NwaitCountsReceivers
  BY DEF IInv
<1> QED
  BY <1>1, <1>2, PTL

\* A process is signalled by mq_send only when a message arrives at an empty queue
\* that no process is blocked in mq_receive on, and this uses up its registration,
\* for every number of processes and size of the queue.
THEOREM NotificationsSound == Spec => SignalsOnArrivalOnly
<1>1. ASSUME IInv, [Next]_vars
      PROVE  [\A p \in Procs : sigs'[p] > sigs[p] =>
                /\ mq_curmsgs = 0 /\ mq_curmsgs' = 1
                /\ mqh_pid = p /\ mqh_pid' = None
                /\ Waiting({"recvwait", "recvwoken"}) = {}]_vars
  <2> SUFFICES ASSUME NEW q \in Procs, sigs'[q] > sigs[q]
               PROVE  /\ mq_curmsgs = 0 /\ mq_curmsgs' = 1
                      /\ mqh_pid = q /\ mqh_pid' = None
                      /\ Waiting({"recvwait", "recvwoken"}) = {}
    OBVIOUS
  <2>1. sigs \in [Procs -> Nat] /\ sigs[q] \in Nat
    BY <1>1 DEF IInv, Typed
  <2>2. sigs' # sigs
    BY <2>1
  <2>3. PICK p \in Procs : \/ \E prio \in Prios : Send(p, prio)
                           \/ Catch(p) \/ Die(p)
    BY <1>1, <2>2 DEF Next, vars, registration, SendBlock, SendWaitAgain, SendResume, Receive,
         RecvBlock, RecvWaitAgain, RecvResume, Notify, NotifyNull, Close, Open, SetAttr,
         SpuriousWakeup
  <2>4. ~Catch(p)
    <3>1. ASSUME Catch(p) PROVE sigs'[q] \in Nat /\ sigs'[q] <= sigs[q]
      BY <2>1, <3>1 DEF Catch
    <3> QED
      BY <2>1, <3>1
  <2>5. ~Die(p)
    <3>1. ASSUME Die(p) PROVE sigs'[q] = sigs[q] \/ sigs'[q] = 0
      BY <2>1, <3>1 DEF Die
    <3> QED
      BY <2>1, <3>1
  <2>6. PICK prio \in Prios : Send(p, prio)
    BY <2>3, <2>4, <2>5
  <2>7. NotifyRegistered /\ mq_curmsgs' = mq_curmsgs + 1
    BY <2>6 DEF Send, Put
  <2>8. /\ mq_curmsgs = 0 /\ mqh_pid # None /\ mqh_nwait = 0
        /\ mqh_pid' = None /\ sigs' = [sigs EXCEPT ![mqh_pid] = @ + 1]
    BY <2>2, <2>7 DEF NotifyRegistered, registration
  <2>9. mqh_pid = q
    BY <2>1, <2>8
  <2>10. Waiting(InReceive) = {}
    BY <1>1, <2>8, InReceiveFinite, FS_EmptySet DEF IInv, NwaitCountsReceivers, InReceive
  <2>11. Waiting({"recvwait", "recvwoken"}) = {}
    BY <2>10 DEF Waiting, InReceive
  <2> QED
    BY <2>7, <2>8, <2>9, <2>11
<1>2. Spec => []IInv
  BY InitIInv, NextIInv, PTL DEF Spec
<1> QED
  BY <1>1, <1>2, PTL DEF Spec, SignalsOnArrivalOnly
=============================================================================
