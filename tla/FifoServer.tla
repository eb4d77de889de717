----------------------------- MODULE FifoServer -----------------------------
(***************************************************************************)
(* fifocliserv: an iterative file server with a well-known FIFO, on which   *)
(* any number of clients write a line with their process ID and a pathname. *)
(* The server answers on a FIFO that each client has made for itself.  A    *)
(* client reads its pathname with fgets, which keeps the newline if there   *)
(* was one; the server finds the requests again with Readline.  Clients may *)
(* be killed.  FIFOs are external, as in PipeServer: the process whose open *)
(* meets the one that waits lets both go on.                                *)
(***************************************************************************)
EXTENDS Integers, Sequences, FiniteSetsExt

CONSTANTS FifoClients,
          Blocks,          \* the blocks of the answer to a client
          FifoCapacity,    \* the blocks that a FIFO holds
          MaxFifoDeaths    \* bound: the clients killed

ASSUME FifoAssumption ==
  /\ Blocks \in [FifoClients -> Nat]
  /\ FifoCapacity \in Nat \ {0} /\ MaxFifoDeaths \in Nat

VARIABLES fvariant,
          newline,   \* the clients whose pathname ends in a newline
          serv_fifo, \* the well-known FIFO exists
          requests,  \* the clients whose requests are in it, in order
          fwriters,  \* the processes that have it open for writing
          fserver,   \* the server's place in its program
          current,   \* the client that it answers, and the blocks still to write
          fpc, pipe_of, fgot,
          fdeaths

fifoVars == <<fvariant, newline, serv_fifo, requests, fwriters, fserver, current, fpc, pipe_of, fgot, fdeaths>>

FifoServerId == "server"

Idle == [client |-> FifoServerId, todo |-> <<>>]

FifoInit ==
  /\ fvariant \in {"fifocliserv", "idle"}
  /\ newline \in (IF fvariant = "idle" THEN {{}} ELSE SUBSET FifoClients)
  /\ serv_fifo \in (IF fvariant = "idle" THEN {FALSE} ELSE BOOLEAN)
  /\ requests = <<>> /\ fwriters = {}
  /\ fserver = IF fvariant = "idle" THEN "absent" ELSE "start"
  /\ current = Idle
  /\ fpc = [c \in FifoClients |-> IF fvariant = "idle" THEN "absent" ELSE "start"]
  /\ pipe_of = [c \in FifoClients |-> <<>>]
  /\ fgot = [c \in FifoClients |-> <<>>]
  /\ fdeaths = 0

FifoGoto(c, label) == fpc' = [fpc EXCEPT ![c] = label]

FifoStopped(c) == fpc[c] \in {"done", "quit", "sigpipe", "dead", "absent"}

ServerReads == fserver \notin {"absent", "start", "mkfifo", "sigpipe"}

-----------------------------------------------------------------------------
\* main of mainserver.c makes the FIFO,
ServerMakesFifo ==
  /\ fserver = "start"
  /\ serv_fifo' = TRUE /\ fserver' = "mkfifo"
  /\ UNCHANGED <<fvariant, newline, requests, fwriters, current, fpc, pipe_of, fgot, fdeaths>>

\* opens it for reading, which waits for a client and lets the waiting ones go on,
ServerOpensRead ==
  /\ fserver = "mkfifo"
  /\ fserver' = IF fwriters = {} THEN "opening" ELSE "opened"
  /\ fpc' = [c \in FifoClients |-> IF fpc[c] = "opening" THEN "write" ELSE fpc[c]]
  /\ UNCHANGED <<fvariant, newline, serv_fifo, requests, fwriters, current, pipe_of, fgot, fdeaths>>

\* Mutant: the server does not open its FIFO for writing.
ServerNoDummy ==
  /\ fserver = "opened"
  /\ fserver' = "readline"
  /\ UNCHANGED <<fvariant, newline, serv_fifo, requests, fwriters, current, fpc, pipe_of, fgot, fdeaths>>

\* and for writing, so that it never reads an end of file.
ServerOpensDummy ==
  /\ fserver = "opened"
  /\ fwriters' = fwriters \union {FifoServerId} /\ fserver' = "readline"
  /\ UNCHANGED <<fvariant, newline, serv_fifo, requests, current, fpc, pipe_of, fgot, fdeaths>>

\* The requests that Readline takes for one: up to the first that ends in a newline.
\* What two of them name together is no file, and the answer is the error message, 0.
LineEnds == {i \in 1..Len(requests) : requests[i] \in newline}

\* Mutant: the server takes all that one read returns for one request.
FirstLineRead == Max(LineEnds)

FirstLine == Min(LineEnds)

\* Readline, and the open of the FIFO of the client named first
ServerReadline ==
  /\ fserver = "readline" /\ LineEnds # {}
  /\ LET c == requests[1]
     IN /\ current' = [client |-> c,
                       todo |-> IF FirstLine = 1 THEN [i \in 1..Blocks[c] |-> <<c, i>>]
                                                 ELSE << <<c, 0>> >>]
        /\ requests' = SubSeq(requests, FirstLine + 1, Len(requests))
        /\ IF fpc[c] = "opening own" THEN fserver' = "answer" /\ FifoGoto(c, "read")
           ELSE fserver' = "opening own" /\ UNCHANGED fpc
  /\ UNCHANGED <<fvariant, newline, serv_fifo, fwriters, pipe_of, fgot, fdeaths>>

\* The copy of the file to the client's FIFO; a client that is gone is a SIGPIPE.
ServerAnswers ==
  /\ fserver = "answer" /\ current.todo # <<>>
  /\ LET c == current.client
     IN IF FifoStopped(c)
        THEN /\ fserver' = "sigpipe" /\ current' = Idle /\ fwriters' = fwriters \ {FifoServerId}
             /\ UNCHANGED pipe_of
        ELSE /\ Len(pipe_of[c]) < FifoCapacity
             /\ pipe_of' = [pipe_of EXCEPT ![c] = Append(@, Head(current.todo))]
             /\ current' = [current EXCEPT !.todo = Tail(@)]
             /\ UNCHANGED <<fserver, fwriters>>
  /\ UNCHANGED <<fvariant, newline, serv_fifo, requests, fpc, fgot, fdeaths>>

\* Mutant: the server does not close the FIFO of a client it has answered.
ServerKeepsOpen ==
  /\ fserver = "answer" /\ current.todo = <<>>
  /\ fserver' = "readline"
  /\ UNCHANGED <<fvariant, newline, serv_fifo, requests, fwriters, current, fpc, pipe_of, fgot, fdeaths>>

\* Close of the client's FIFO
ServerCloses ==
  /\ fserver = "answer" /\ current.todo = <<>>
  /\ current' = Idle /\ fserver' = "readline"
  /\ UNCHANGED <<fvariant, newline, serv_fifo, requests, fwriters, fpc, pipe_of, fgot, fdeaths>>

-----------------------------------------------------------------------------
\* main of mainclient.c makes its own FIFO and opens the server's, which waits for a
\* reader; the client quits if it is not there.
FifoClientOpens(c) ==
  /\ fpc[c] = "start"
  /\ IF ~serv_fifo THEN FifoGoto(c, "quit") /\ UNCHANGED <<fserver, fwriters>>
     ELSE /\ fwriters' = fwriters \union {c}
          /\ FifoGoto(c, IF ServerReads THEN "write" ELSE "opening")
          /\ fserver' = IF fserver = "opening" THEN "opened" ELSE fserver
  /\ UNCHANGED <<fvariant, newline, serv_fifo, requests, current, pipe_of, fgot, fdeaths>>

FifoClientWrites(c) ==
  /\ fpc[c] = "write"
  /\ IF ServerReads
     THEN requests' = Append(requests, c) /\ FifoGoto(c, "open own") /\ UNCHANGED fwriters
     ELSE FifoGoto(c, "sigpipe") /\ fwriters' = fwriters \ {c} /\ UNCHANGED requests
  /\ UNCHANGED <<fvariant, newline, serv_fifo, fserver, current, pipe_of, fgot, fdeaths>>

\* The open of its own FIFO waits for the server.
FifoClientOpensOwn(c) ==
  /\ fpc[c] = "open own"
  /\ LET meets == fserver = "opening own" /\ current.client = c
     IN /\ FifoGoto(c, IF meets THEN "read" ELSE "opening own")
        /\ fserver' = IF meets THEN "answer" ELSE fserver
  /\ UNCHANGED <<fvariant, newline, serv_fifo, requests, fwriters, current, pipe_of, fgot, fdeaths>>

FifoClientReads(c) ==
  /\ fpc[c] = "read" /\ pipe_of[c] # <<>>
  /\ fgot' = [fgot EXCEPT ![c] = Append(@, Head(pipe_of[c]))]
  /\ pipe_of' = [pipe_of EXCEPT ![c] = Tail(@)]
  /\ UNCHANGED <<fvariant, newline, serv_fifo, requests, fwriters, fserver, current, fpc, fdeaths>>

\* At the end of file the client removes its FIFO and exits.
FifoClientEof(c) ==
  /\ fpc[c] = "read" /\ pipe_of[c] = <<>> /\ current.client # c
  /\ FifoGoto(c, "done") /\ fwriters' = fwriters \ {c}
  /\ UNCHANGED <<fvariant, newline, serv_fifo, requests, fserver, current, pipe_of, fgot, fdeaths>>

\* A client is killed; its request and its FIFO stay.
FifoClientDies(c) ==
  /\ ~FifoStopped(c) /\ fdeaths < MaxFifoDeaths
  /\ fdeaths' = fdeaths + 1
  /\ FifoGoto(c, "dead") /\ fwriters' = fwriters \ {c}
  /\ pipe_of' = [pipe_of EXCEPT ![c] = <<>>]
  /\ UNCHANGED <<fvariant, newline, serv_fifo, requests, fserver, current, fgot>>

FifoServerNext ==
  \/ ServerMakesFifo \/ ServerOpensRead \/ ServerOpensDummy \/ ServerReadline
  \/ ServerAnswers \/ ServerCloses

FifoClient(c) ==
  \/ FifoClientOpens(c) \/ FifoClientWrites(c) \/ FifoClientOpensOwn(c)
  \/ FifoClientReads(c) \/ FifoClientEof(c)

FifoNext == FifoServerNext \/ \E c \in FifoClients : FifoClient(c) \/ FifoClientDies(c)

FifoFairness ==
  WF_fifoVars(FifoServerNext) /\ \A c \in FifoClients : WF_fifoVars(FifoClient(c))

-----------------------------------------------------------------------------
FifoTypeOK ==
  /\ fvariant \in {"fifocliserv", "idle"} /\ newline \subseteq FifoClients
  /\ serv_fifo \in BOOLEAN /\ fdeaths \in 0..MaxFifoDeaths
  /\ requests \in Seq(FifoClients) /\ fwriters \subseteq FifoClients \union {FifoServerId}
  /\ fserver \in {"absent", "start", "mkfifo", "opening", "opened", "readline", "opening own",
                  "answer", "sigpipe"}
  /\ current.client \in FifoClients \union {FifoServerId}
  /\ fpc \in [FifoClients -> {"absent", "start", "opening", "write", "open own", "opening own",
                              "read", "done", "quit", "sigpipe", "dead"}]
  /\ \A c \in FifoClients : Len(pipe_of[c]) <= FifoCapacity

\* Every block that a client reads is one of the answer to its own request, in order and
\* once, whatever the order of the requests, and a client that comes to the end of file
\* with nobody killed has all of it: its file, or one error message when its pathname ran
\* into the next client's request.
FifoOwnAnswer ==
  \A c \in FifoClients :
    /\ \/ fgot[c] = << <<c, 0>> >> /\ c \notin newline
       \/ fgot[c] = [i \in 1..Len(fgot[c]) |-> <<c, i>>]
    /\ fpc[c] = "done" /\ fdeaths = 0 /\ c \in newline => Len(fgot[c]) = Blocks[c]

\* "if we always have a descriptor for the FIFO that was opened for writing, read will
\* never return 0 to indicate an end-of-file when no clients exist" (mainserver.c): the
\* clients may come and go, and be killed.
NeverEof == ~(fserver = "readline" /\ LineEnds = {} /\ fwriters = {})

\* Every client ends, however slow the others are, when nobody is killed and every
\* pathname ends in a newline.  A client killed between its request and its answer leaves
\* the server in the open of its FIFO, or kills it with SIGPIPE; a request without a
\* newline swallows the next one.
FifoClientsEnded ==
  newline = FifoClients => fdeaths > 0 \/ \A c \in FifoClients : FifoStopped(c)
=============================================================================
