----------------------------- MODULE MsgServers -----------------------------
(***************************************************************************)
(* The file servers on System V message queues: svmsgcliserv (one client,   *)
(* a queue for each direction), svmsgmpx1q (one queue for everything, the   *)
(* answers are typed with the client's process ID) and svmsgmpxnq (a queue  *)
(* per client, a child of the server per request).  A client sends a        *)
(* pathname and gets the lines of the file, or one line with the error, and *)
(* a message of length 0.  Clients may be killed.  Message queues are       *)
(* external: a list, from which a message of a given type is taken, and in  *)
(* which messages of length 0 take no room.                                 *)
(***************************************************************************)
EXTENDS Integers, Sequences, FiniteSets, SequencesExt

CONSTANTS Clients, server,
          Lines,            \* of the file each client asks for
          NoFile,           \* the file cannot be opened
          MaxCapacity,      \* bound: the messages with data that a queue holds
          MaxDeaths         \* bound: the clients killed

ASSUME MsgServersAssumption ==
  /\ IsFiniteSet(Clients) /\ server \notin Clients
  /\ NoFile \notin Nat /\ Lines \in [Clients -> Nat \union {NoFile}]
  /\ MaxCapacity \in Nat \ {0} /\ MaxDeaths \in Nat

VARIABLES mvariant, capacity,
          queue, exists,     \* the messages of each queue, and the queues there are
          mpc,               \* of the clients and of the server
          got,               \* what a client has written to its standard output
          reply,             \* of the server, or of its child, to each client
          sent,              \* the messages of that reply so far
          sigchld, zombies,  \* pending SIGCHLD, children that nobody has waited for
          mdeaths

msgVars == <<mvariant, capacity, queue, exists, mpc, got, reply, sent, sigchld, zombies, mdeaths>>

MsgVariants == {"svmsgcliserv", "svmsgmpx1q", "svmsgmpxnq"}

Request == -1
End == 0
Error == 100

\* The messages with data that answer a client
Answer(c) == IF Lines[c] = NoFile THEN <<Error>> ELSE [i \in 1..Lines[c] |-> i]

\* MQ_KEY1 is the queue of the server.
MQ_KEY1 == server
MQ_KEY2 == "MQ_KEY2"

\* Where a client gets its answer
ReadQueue(c) ==
  CASE mvariant = "svmsgcliserv" -> MQ_KEY2
    [] mvariant = "svmsgmpx1q" -> MQ_KEY1
    [] OTHER -> c

\* Mutant: the answers of svmsgmpx1q all have type 1.
AnswerTypeOne(c) == server

\* The type of an answer; server stands for type 1.
AnswerType(c) == IF mvariant = "svmsgmpx1q" THEN c ELSE server

MsgInit ==
  /\ mvariant \in MsgVariants \union {"idle"}
  /\ capacity \in (IF mvariant = "idle" THEN {1} ELSE 1..MaxCapacity)
  /\ queue = [q \in Clients \union {MQ_KEY1, MQ_KEY2} |-> <<>>] /\ exists = {}
  /\ \E present \in SUBSET Clients :
       /\ mvariant = "idle" => present = {}
       /\ mvariant = "svmsgcliserv" => Cardinality(present) = 1
       /\ mvariant \in {"svmsgmpx1q", "svmsgmpxnq"} => present = Clients
       /\ mpc = [p \in Clients \union {server} |->
                  IF p \in present \/ (p = server /\ mvariant # "idle") THEN "start" ELSE "absent"]
  /\ got = [c \in Clients |-> <<>>]
  /\ reply = [c \in Clients |-> "none"] /\ sent = [c \in Clients |-> 0]
  /\ sigchld = FALSE /\ zombies = {} /\ mdeaths = 0

MsgGoto(p, label) == mpc' = [mpc EXCEPT ![p] = label]

HasRoom(q, body) ==
  body = End \/ Len(SelectSeq(queue[q], LAMBDA m : m.body # End)) < capacity

\* msgsnd, when there is room
Mesg_send(q, type, c, body) ==
  /\ HasRoom(q, body)
  /\ queue' = [queue EXCEPT ![q] = Append(@, [type |-> type, client |-> c, body |-> body])]

FirstOf(q, type) == SelectInSeq(queue[q], LAMBDA m : m.type = type)

\* msgrcv takes the first message of a type.
Mesg_recv(q, type) ==
  /\ FirstOf(q, type) # 0
  /\ queue' = [queue EXCEPT ![q] = RemoveAt(@, FirstOf(q, type))]

-----------------------------------------------------------------------------
\* The server creates MQ_KEY1, and MQ_KEY2 next in svmsgcliserv.
ServerCreate ==
  /\ \/ /\ mpc[server] = "start" /\ exists' = exists \union {MQ_KEY1}
        /\ MsgGoto(server, IF mvariant = "svmsgcliserv" THEN "create2" ELSE "recv")
     \/ /\ mpc[server] = "create2" /\ exists' = exists \union {MQ_KEY2}
        /\ MsgGoto(server, "recv")
  /\ UNCHANGED <<mvariant, capacity, queue, got, reply, sent, sigchld, zombies, mdeaths>>

Busy == mvariant # "svmsgmpxnq" /\ \E c \in Clients : reply[c] = "lines"

\* The server gets a request, and answers it itself or forks.
ServerRecv ==
  /\ mpc[server] = "recv" /\ ~Busy
  /\ Mesg_recv(MQ_KEY1, server)
  /\ reply' = [reply EXCEPT ![queue[MQ_KEY1][FirstOf(MQ_KEY1, server)].client] = "lines"]
  /\ UNCHANGED <<mvariant, capacity, exists, mpc, got, sent, sigchld, zombies, mdeaths>>

\* Mutant: no message of length 0 ends the answer.
ReplyNoEnd(c) ==
  /\ reply[c] = "lines" /\ ReadQueue(c) \in exists
  /\ IF sent[c] < Len(Answer(c))
     THEN /\ Mesg_send(ReadQueue(c), AnswerType(c), c, Answer(c)[sent[c] + 1])
          /\ sent' = [sent EXCEPT ![c] = @ + 1] /\ UNCHANGED <<reply, mpc, sigchld, zombies>>
     ELSE /\ reply' = [reply EXCEPT ![c] = "done"] /\ UNCHANGED <<queue, sent, mpc, sigchld, zombies>>
  /\ UNCHANGED <<mvariant, capacity, exists, got, mdeaths>>

\* The next message of an answer.  After the last one the server of svmsgcliserv and the
\* children of svmsgmpxnq exit.  A queue that is gone is an error; QueueOutlivesReply
\* says that it is there.
Reply(c) ==
  /\ reply[c] = "lines" /\ ReadQueue(c) \in exists
  /\ IF sent[c] < Len(Answer(c))
     THEN /\ Mesg_send(ReadQueue(c), AnswerType(c), c, Answer(c)[sent[c] + 1])
          /\ sent' = [sent EXCEPT ![c] = @ + 1] /\ UNCHANGED <<reply, mpc, sigchld, zombies>>
     ELSE /\ Mesg_send(ReadQueue(c), AnswerType(c), c, End)
          /\ reply' = [reply EXCEPT ![c] = "done"]
          /\ mpc' = IF mvariant = "svmsgcliserv" THEN [mpc EXCEPT ![server] = "done"] ELSE mpc
          /\ sigchld' = (sigchld \/ mvariant = "svmsgmpxnq")
          /\ zombies' = IF mvariant = "svmsgmpxnq" THEN zombies \union {c} ELSE zombies
          /\ UNCHANGED sent
  /\ UNCHANGED <<mvariant, capacity, exists, got, mdeaths>>

\* Mutant: the handler waits for one child.
sig_chldOne ==
  /\ sigchld /\ sigchld' = FALSE
  /\ \E z \in zombies : zombies' = zombies \ {z}
  /\ UNCHANGED <<mvariant, capacity, queue, exists, mpc, got, reply, sent, mdeaths>>

\* SIGCHLD is not queued: the handler waits for all children that have ended.  The
\* msgrcv that it interrupts is called again.
sig_chld ==
  /\ sigchld /\ sigchld' = FALSE /\ zombies' = {}
  /\ UNCHANGED <<mvariant, capacity, queue, exists, mpc, got, reply, sent, mdeaths>>

-----------------------------------------------------------------------------
\* Msgget fails if the server has not created the queues; the client of svmsgmpxnq
\* creates its own.
ClientStart(c) ==
  /\ mpc[c] = "start"
  /\ IF MQ_KEY1 \in exists /\ (mvariant = "svmsgcliserv" => MQ_KEY2 \in exists)
     THEN /\ MsgGoto(c, "send")
          /\ exists' = IF mvariant = "svmsgmpxnq" THEN exists \union {c} ELSE exists
     ELSE MsgGoto(c, "quit") /\ UNCHANGED exists
  /\ UNCHANGED <<mvariant, capacity, queue, got, reply, sent, sigchld, zombies, mdeaths>>

\* Mutant: the client does not wait for the answer.
ClientSendOnly(c) ==
  /\ mpc[c] = "send"
  /\ Mesg_send(MQ_KEY1, server, c, Request)
  /\ MsgGoto(c, "remove")
  /\ UNCHANGED <<mvariant, capacity, exists, got, reply, sent, sigchld, zombies, mdeaths>>

ClientSend(c) ==
  /\ mpc[c] = "send"
  /\ Mesg_send(MQ_KEY1, server, c, Request)
  /\ MsgGoto(c, "recv")
  /\ UNCHANGED <<mvariant, capacity, exists, got, reply, sent, sigchld, zombies, mdeaths>>

\* A line is written to standard output; a message of length 0 ends the loop.
ClientRecv(c) ==
  /\ mpc[c] = "recv"
  /\ Mesg_recv(ReadQueue(c), AnswerType(c))
  /\ LET m == queue[ReadQueue(c)][FirstOf(ReadQueue(c), AnswerType(c))]
     IN IF m.body = End THEN MsgGoto(c, "remove") /\ UNCHANGED got
        ELSE got' = [got EXCEPT ![c] = Append(@, <<m.client, m.body>>)] /\ UNCHANGED mpc
  /\ UNCHANGED <<mvariant, capacity, exists, reply, sent, sigchld, zombies, mdeaths>>

\* The client removes the queues that no one else will use.
ClientRemove(c) ==
  /\ mpc[c] = "remove"
  /\ exists' = CASE mvariant = "svmsgcliserv" -> exists \ {MQ_KEY1, MQ_KEY2}
                 [] mvariant = "svmsgmpxnq" -> exists \ {c}
                 [] OTHER -> exists
  /\ MsgGoto(c, "done")
  /\ UNCHANGED <<mvariant, capacity, queue, got, reply, sent, sigchld, zombies, mdeaths>>

\* A client is killed; its queue and its messages stay.
ClientDies(c) ==
  /\ mpc[c] \in {"send", "recv", "remove"} /\ mdeaths < MaxDeaths
  /\ mdeaths' = mdeaths + 1 /\ MsgGoto(c, "dead")
  /\ UNCHANGED <<mvariant, capacity, queue, exists, got, reply, sent, sigchld, zombies>>

MsgClient(c) == ClientStart(c) \/ ClientSend(c) \/ ClientRecv(c) \/ ClientRemove(c)

MsgServer == ServerCreate \/ ServerRecv \/ sig_chld

MsgNext ==
  \/ MsgServer
  \/ \E c \in Clients : MsgClient(c) \/ Reply(c) \/ ClientDies(c)

MsgFairness ==
  WF_msgVars(MsgServer) /\ \A c \in Clients : WF_msgVars(MsgClient(c)) /\ WF_msgVars(Reply(c))

-----------------------------------------------------------------------------
MsgTypeOK ==
  /\ mvariant \in MsgVariants \union {"idle"} /\ capacity \in 1..MaxCapacity
  /\ \A q \in DOMAIN queue : \A k \in 1..Len(queue[q]) :
       queue[q][k].type \in Clients \union {server} /\ queue[q][k].client \in Clients
  /\ exists \subseteq DOMAIN queue /\ DOMAIN queue = Clients \union {MQ_KEY1, MQ_KEY2}
  /\ mpc \in [Clients \union {server} -> {"absent", "start", "create2", "send", "recv", "remove",
                                          "done", "quit", "dead"}]
  /\ reply \in [Clients -> {"none", "lines", "done"}] /\ sent \in [Clients -> Nat]
  /\ sigchld \in BOOLEAN /\ zombies \subseteq Clients /\ mdeaths \in 0..MaxDeaths

MsgStopped(c) == mpc[c] \in {"done", "quit", "dead", "absent"}

\* What a client prints is its own answer, in order, and all of it when the client ends,
\* also when all messages share one queue.
OwnAnswer ==
  \A c \in Clients :
    LET mine == [i \in 1..Len(Answer(c)) |-> <<c, Answer(c)[i]>>]
    IN /\ IsPrefix(got[c], mine)
       /\ mpc[c] \in {"remove", "done"} => got[c] = mine

\* A queue is there as long as the server, or its child, has something to send to it.
QueueOutlivesReply == \A c \in Clients : reply[c] = "lines" => ReadQueue(c) \in exists

\* Children that have ended are never forgotten, although signals are not counted.
ZombiesNoticed == zombies # {} => sigchld

\* Every client comes to its end, with a queue per client even if other clients are
\* killed.  With one queue for both directions this takes a queue with room for a request
\* of each client: requests can otherwise fill the queue while the server waits for room
\* for an answer, and what is left for a killed client takes room for ever.
ClientsAnswered ==
  \/ \A c \in Clients : MsgStopped(c)
  \/ mvariant = "svmsgmpx1q" /\ (mdeaths > 0 \/ Cardinality(Clients) > capacity)
=============================================================================
