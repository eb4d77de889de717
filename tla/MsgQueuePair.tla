---------------------------- MODULE MsgQueuePair ----------------------------
(***************************************************************************)
(* Two processes that use the queue.  Either they call the functions as     *)
(* they like, or (paired) one of them sends MaxSends messages and the other *)
(* receives as many, as writer and reader of bench/bw_pxmsg.c do.  (It      *)
(* names the functions of the platform, which have the interface of         *)
(* my_pxmsg_mmap, and sends with one priority.)                             *)
(***************************************************************************)
EXTENDS MsgQueue

CONSTANTS Sender, Receiver

ASSUME PairAssumption == Procs = {Sender, Receiver} /\ Sender # Receiver

VARIABLES paired,    \* which use of the queue this is
          nreceived  \* how many messages the receiver has, when they are paired

pairVars == <<vars, paired, nreceived>>

PairInit == Init /\ paired \in BOOLEAN /\ nreceived = 0

SenderStep ==
  /\ paired
  /\ \/ \E prio \in Prios : Send(Sender, prio) \/ SendBlock(Sender, prio)
     \/ SendWaitAgain(Sender) \/ SendResume(Sender)
  /\ UNCHANGED <<paired, nreceived>>

ReceiverStep ==
  /\ paired
  /\ nreceived < MaxSends
  /\ \/ (Receive(Receiver) \/ RecvResume(Receiver)) /\ nreceived' = nreceived + 1
     \/ (RecvBlock(Receiver) \/ RecvWaitAgain(Receiver)) /\ UNCHANGED nreceived
  /\ UNCHANGED paired

PairNext ==
  \/ SenderStep
  \/ ReceiverStep
  \/ /\ IF paired THEN \E p \in Procs : SpuriousWakeup(p) ELSE Next
     /\ UNCHANGED <<paired, nreceived>>

\* A paired process runs as long as it can: neither waits for the other inside
\* mqh_lock, so each is able to run until it waits on mqh_wait.
PairSpec ==
  /\ PairInit /\ [][PairNext]_pairVars
  /\ WF_pairVars(SenderStep) /\ WF_pairVars(ReceiverStep)

\* All messages are received: with one sender and one receiver no wakeup of
\* mq_send or mq_receive is lost.
AllReceived == [](paired => <>(nreceived = MaxSends))
=============================================================================
