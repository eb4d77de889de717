---------------------------- MODULE ClientServers ----------------------------
(***************************************************************************)
(* The client-server programs: System V message queues, pipes and FIFOs with*)
(* one client, a FIFO server with many, and the ring in shared memory.  A   *)
(* behaviour is one of a single family of programs; the others are idle.    *)
(***************************************************************************)
EXTENDS MsgServers, PipeServer, FifoServer, MesgRing

CONSTANTS cli1, cli2, cli3

Three == {cli1, cli2, cli3}

\* One client asks for a file that is not there, one for two lines, one for an empty file.
LinesOf == [x \in Three |-> CASE x = cli1 -> NoFile [] x = cli2 -> 2 [] x = cli3 -> 0]

BlocksOf == [x \in Three |-> CASE x = cli1 -> 1 [] x = cli2 -> 2 [] x = cli3 -> 0]

serverVars == <<msgVars, pipeVars, fifoVars, ringVars>>

Served == (IF mvariant = "idle" THEN 0 ELSE 1) + (IF pvariant = "idle" THEN 0 ELSE 1)
            + (IF fvariant = "idle" THEN 0 ELSE 1) + (IF rvariant = "idle" THEN 0 ELSE 1)

ServersInit ==
  /\ MsgInit /\ PipeInit /\ (mvariant = "idle" \/ pvariant = "idle")
  /\ FifoInit /\ RingInit /\ Served <= 1

ServersNext ==
  \/ MsgNext /\ UNCHANGED <<pipeVars, fifoVars, ringVars>>
  \/ PipeNext /\ UNCHANGED <<msgVars, fifoVars, ringVars>>
  \/ FifoNext /\ UNCHANGED <<msgVars, pipeVars, ringVars>>
  \/ RingNext /\ UNCHANGED <<msgVars, pipeVars, fifoVars>>

ServersFairness ==
  MsgFairness /\ PipeFairness /\ FifoFairness /\ RingFairness

ServersTypeOK == MsgTypeOK /\ PipeTypeOK /\ FifoTypeOK /\ RingTypeOK

\* Whatever the transport, a client writes out a part of the answer to its own
\* request, in order, and nothing of another client's; the iterative FIFO server
\* never finds the end of its FIFO; and the variables have their types.
AnswersOwn == ServersTypeOK /\ OwnAnswer /\ PipeAnswer /\ FifoOwnAnswer /\ NeverEof

\* A queue is not removed while there is an answer to send to it, no child that ended is
\* forgotten, and the places of the ring are accounted for and filled in order.
ServersSound == QueueOutlivesReply /\ ZombiesNoticed /\ SlotsAccounted /\ RingOrder

\* Every client got its answer to the end, or stopped for a reason that its module
\* names, and the ring is empty.
ServersEnded == ClientsAnswered /\ PipeEnded /\ FifoClientsEnded /\ RingDrained
=============================================================================
