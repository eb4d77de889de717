----------------------------- MODULE PipeServer -----------------------------
(***************************************************************************)
(* The file server with one client, over two pipes or two FIFOs: the        *)
(* programs mainpipe, mainfifo, client_main with server_main of pipe, and   *)
(* the programs of pipemesg, which put a header before the data.  The       *)
(* client writes a pathname to channel 1 and reads channel 2 to its end of  *)
(* file; the server answers and exits.  Either process may be killed.       *)
(* Pipes are external: a read returns 0 when nothing is left and no process *)
(* has the other end open, a write with no reader kills the writer, and an  *)
(* open of a FIFO waits for the other end.                                  *)
(***************************************************************************)
EXTENDS Integers, Sequences, FiniteSets

CONSTANTS parent, child,    \* the client and the server
          MaxBlocks,        \* bound: the blocks of the file
          PipeCapacity,     \* the blocks that a pipe holds
          MaxPipeDeaths     \* bound: the processes killed

ASSUME PipeAssumption ==
  /\ parent # child /\ MaxBlocks \in Nat
  /\ PipeCapacity \in Nat \ {0} /\ MaxPipeDeaths \in Nat

PipeProcs == {parent, child}

VARIABLES pvariant,
          blocks,            \* the blocks of the answer; an error message is one
          blank,             \* the line with the pathname is empty
          step,              \* how much of its Setup a process has done
          readers, writers,  \* the processes with an end of a channel open
          data,              \* what a channel holds
          ppc, pgot, psent, pdeaths

pipeVars == <<pvariant, blocks, blank, step, readers, writers, data, ppc, pgot, psent, pdeaths>>

PipeVariants == {"mainpipe", "mainfifo", "client_main", "pipemesg_mainpipe", "pipemesg_mainfifo"}

Fifo == pvariant \in {"mainfifo", "client_main", "pipemesg_mainfifo"}

Pipemesg == pvariant \in {"pipemesg_mainpipe", "pipemesg_mainfifo"}

\* The message of length 0 of pipemesg, and the pathname
NoData == 0

Peer(p) == IF p = parent THEN child ELSE parent

Opposite(end) == IF end = "r" THEN "w" ELSE "r"

\* Mutant: the client opens the FIFO that it reads first.
SetupSwapped(p) ==
  CASE p = parent /\ ~Fifo -> << <<1, "r">>, <<2, "w">> >>
    [] p = child /\ ~Fifo -> << <<1, "w">>, <<2, "r">> >>
    [] p = parent /\ Fifo -> << <<2, "r">>, <<1, "w">> >>
    [] p = child /\ Fifo -> << <<1, "r">>, <<2, "w">> >>

\* The ends that a process closes after the fork, or opens, in this order
Setup(p) ==
  CASE p = parent /\ ~Fifo -> << <<1, "r">>, <<2, "w">> >>
    [] p = child /\ ~Fifo -> << <<1, "w">>, <<2, "r">> >>
    [] p = parent /\ Fifo -> << <<1, "w">>, <<2, "r">> >>
    [] p = child /\ Fifo -> << <<1, "r">>, <<2, "w">> >>

PipeInit ==
  /\ pvariant \in PipeVariants \union {"idle"}
  /\ blocks \in (IF pvariant = "idle" THEN {0} ELSE 0..MaxBlocks)
  /\ blank \in (IF pvariant = "idle" THEN {FALSE} ELSE BOOLEAN)
  /\ step = [p \in PipeProcs |-> 1]
  /\ readers = [i \in 1..2 |-> IF Fifo THEN {} ELSE PipeProcs] /\ writers = readers
  /\ data = [i \in 1..2 |-> <<>>]
  /\ ppc \in [PipeProcs -> {"absent", "mkfifo", "setup"}]
  /\ \A p \in PipeProcs : ppc[p] = "absent" <=> pvariant = "idle"
  /\ \A p \in PipeProcs : ppc[p] = "mkfifo" => p = child /\ pvariant = "client_main"
  /\ pgot = <<>> /\ psent = 0 /\ pdeaths = 0

PipeGoto(p, label) == ppc' = [ppc EXCEPT ![p] = label]

\* A process ends, and with it its descriptors.
PipeExit(p, label) ==
  /\ PipeGoto(p, label)
  /\ readers' = [i \in 1..2 |-> readers[i] \ {p}]
  /\ writers' = [i \in 1..2 |-> writers[i] \ {p}]

PipeStopped(p) == ppc[p] \in {"done", "quit", "sigpipe", "dead", "absent"}

-----------------------------------------------------------------------------
\* Close of an end that the process does not use
SetupClose(p) ==
  /\ ppc[p] = "setup" /\ ~Fifo /\ step[p] <= Len(Setup(p))
  /\ LET i == Setup(p)[step[p]][1]
         end == Setup(p)[step[p]][2]
     IN /\ readers' = IF end = "r" THEN [readers EXCEPT ![i] = @ \ {p}] ELSE readers
        /\ writers' = IF end = "w" THEN [writers EXCEPT ![i] = @ \ {p}] ELSE writers
  /\ step' = [step EXCEPT ![p] = @ + 1]
  /\ UNCHANGED <<pvariant, blocks, blank, data, ppc, pgot, psent, pdeaths>>

\* server_main creates the FIFOs, unless they are there from an earlier run.
ServerMkfifo ==
  /\ ppc[child] = "mkfifo"
  /\ PipeGoto(child, "setup")
  /\ UNCHANGED <<pvariant, blocks, blank, step, readers, writers, data, pgot, psent, pdeaths>>

\* Open of an end of a FIFO: it waits until the other end is open as well.
SetupOpen(p) ==
  /\ ppc[p] = "setup" /\ Fifo /\ step[p] <= Len(Setup(p)) /\ ppc[child] # "mkfifo"
  /\ LET i == Setup(p)[step[p]][1]
         end == Setup(p)[step[p]][2]
         meets == ppc[Peer(p)] = "opening" /\ Setup(Peer(p))[step[Peer(p)]] = <<i, Opposite(end)>>
         there == (IF end = "r" THEN writers[i] ELSE readers[i]) # {}
     IN /\ readers' = IF end = "r" THEN [readers EXCEPT ![i] = @ \union {p}] ELSE readers
        /\ writers' = IF end = "w" THEN [writers EXCEPT ![i] = @ \union {p}] ELSE writers
        /\ step' = [q \in PipeProcs |-> step[q] +
                     IF (q = p /\ there) \/ (q = Peer(p) /\ meets) THEN 1 ELSE 0]
        /\ ppc' = [ppc EXCEPT ![p] = IF there THEN "setup" ELSE "opening",
                              ![Peer(p)] = IF meets THEN "setup" ELSE @]
  /\ UNCHANGED <<pvariant, blocks, blank, data, pgot, psent, pdeaths>>

\* client_main before the FIFOs are there
OpenFails ==
  /\ ppc[parent] = "setup" /\ ppc[child] = "mkfifo"
  /\ PipeExit(parent, "quit")
  /\ UNCHANGED <<pvariant, blocks, blank, step, data, pgot, psent, pdeaths>>

SetupDone(p) ==
  /\ ppc[p] = "setup" /\ step[p] > Len(Setup(p))
  /\ PipeGoto(p, IF p = parent THEN "write" ELSE "path")
  /\ UNCHANGED <<pvariant, blocks, blank, step, readers, writers, data, pgot, psent, pdeaths>>

\* Write of a block; a writer without readers gets SIGPIPE.  Mesg_send of pipemesg
\* compares what it wrote, the header included, with the length of the data: the test
\* always fails, and the process quits after its first message.
PipeWrite(p, i, b, label) ==
  /\ Len(data[i]) < PipeCapacity \/ readers[i] = {}
  /\ IF readers[i] = {}
     THEN PipeExit(p, "sigpipe") /\ UNCHANGED data
     ELSE /\ data' = [data EXCEPT ![i] = Append(@, b)]
          /\ PipeGoto(p, IF Pipemesg THEN "err_quit" ELSE label)
          /\ UNCHANGED <<readers, writers>>

MesgSendQuits(p) ==
  /\ ppc[p] = "err_quit"
  /\ PipeExit(p, "quit")
  /\ UNCHANGED <<pvariant, blocks, blank, step, data, pgot, psent, pdeaths>>

-----------------------------------------------------------------------------
\* client writes the pathname; a write of no bytes to a pipe does nothing.
ClientWritePath ==
  /\ ppc[parent] = "write"
  /\ IF blank /\ ~Pipemesg
     THEN PipeGoto(parent, "read") /\ UNCHANGED <<readers, writers, data>>
     ELSE PipeWrite(parent, 1, IF blank THEN NoData ELSE 1, "read")
  /\ UNCHANGED <<pvariant, blocks, blank, step, pgot, psent, pdeaths>>

\* client copies the answer to its standard output (the one of pipemesg has quit before).
ClientReadBlock ==
  /\ ppc[parent] = "read" /\ data[2] # <<>>
  /\ pgot' = Append(pgot, Head(data[2])) /\ data' = [data EXCEPT ![2] = Tail(@)]
  /\ UNCHANGED <<pvariant, blocks, blank, step, readers, writers, ppc, psent, pdeaths>>

ClientReadEof ==
  /\ ppc[parent] = "read" /\ data[2] = <<>> /\ writers[2] = {}
  /\ PipeGoto(parent, "waitpid")
  /\ UNCHANGED <<pvariant, blocks, blank, step, readers, writers, data, pgot, psent, pdeaths>>

ClientWaitpid ==
  /\ ppc[parent] = "waitpid" /\ (PipeStopped(child) \/ pvariant = "client_main")
  /\ PipeExit(parent, "done")
  /\ UNCHANGED <<pvariant, blocks, blank, step, data, pgot, psent, pdeaths>>

\* server reads the pathname; it quits at an end of file and when the pathname is missing.
ServerReadPath ==
  /\ ppc[child] = "path"
  /\ IF data[1] # <<>> /\ Head(data[1]) # NoData
     THEN PipeGoto(child, "answer") /\ UNCHANGED <<readers, writers>>
     ELSE (data[1] # <<>> \/ writers[1] = {}) /\ PipeExit(child, "quit")
  /\ data' = IF data[1] # <<>> THEN [data EXCEPT ![1] = Tail(@)] ELSE data
  /\ UNCHANGED <<pvariant, blocks, blank, step, pgot, psent, pdeaths>>

ServerWriteBlock ==
  /\ ppc[child] = "answer" /\ psent < blocks
  /\ PipeWrite(child, 2, psent + 1, "answer")
  /\ psent' = psent + 1
  /\ UNCHANGED <<pvariant, blocks, blank, step, pgot, pdeaths>>

\* Mutant: the loop that copies the file ends before its last block.
ServerExitEarly ==
  /\ ppc[child] = "answer" /\ psent + 1 >= blocks
  /\ IF Pipemesg THEN PipeWrite(child, 2, NoData, "done")
                 ELSE PipeExit(child, "done") /\ UNCHANGED data
  /\ UNCHANGED <<pvariant, blocks, blank, step, pgot, psent, pdeaths>>

\* The file is copied; server returns and exits.  pipemesg sends a message of length 0.
ServerExit ==
  /\ ppc[child] = "answer" /\ psent = blocks
  /\ IF Pipemesg THEN PipeWrite(child, 2, NoData, "done")
                 ELSE PipeExit(child, "done") /\ UNCHANGED data
  /\ UNCHANGED <<pvariant, blocks, blank, step, pgot, psent, pdeaths>>

PipeDies(p) ==
  /\ ~PipeStopped(p) /\ pdeaths < MaxPipeDeaths
  /\ pdeaths' = pdeaths + 1 /\ PipeExit(p, "dead")
  /\ UNCHANGED <<pvariant, blocks, blank, step, data, pgot, psent>>

PipeSetup(p) == SetupClose(p) \/ SetupOpen(p) \/ SetupDone(p) \/ MesgSendQuits(p)

PipeClient ==
  OpenFails \/ PipeSetup(parent) \/ ClientWritePath \/ ClientReadBlock \/ ClientReadEof \/ ClientWaitpid

PipeChild ==
  ServerMkfifo \/ PipeSetup(child) \/ ServerReadPath \/ ServerWriteBlock \/ ServerExit

PipeNext == PipeClient \/ PipeChild \/ \E p \in PipeProcs : PipeDies(p)

PipeFairness == WF_pipeVars(PipeClient) /\ WF_pipeVars(PipeChild)

-----------------------------------------------------------------------------
PipeTypeOK ==
  /\ pvariant \in PipeVariants \union {"idle"} /\ blocks \in 0..MaxBlocks /\ blank \in BOOLEAN
  /\ step \in [PipeProcs -> 1..3]
  /\ readers \in [1..2 -> SUBSET PipeProcs] /\ writers \in [1..2 -> SUBSET PipeProcs]
  /\ \A i \in 1..2 : data[i] \in Seq(0..(MaxBlocks + 1)) /\ Len(data[i]) <= PipeCapacity
  /\ ppc \in [PipeProcs -> {"absent", "mkfifo", "setup", "opening", "write", "read", "waitpid",
                            "path", "answer", "err_quit", "done", "quit", "sigpipe", "dead"}]
  /\ pgot \in Seq(1..MaxBlocks) /\ psent \in 0..MaxBlocks /\ pdeaths \in 0..MaxPipeDeaths

\* The client of pipe copies the blocks of the file to its output in order.  It takes the
\* end of file of the channel for the end of the answer, and when nobody was killed it is:
\* the client then has the whole answer.
PipeAnswer ==
  /\ \A i \in 1..Len(pgot) : pgot[i] = i
  /\ ppc[parent] \in {"waitpid", "done"} /\ pdeaths = 0 => Len(pgot) = blocks

\* Both processes end, whoever is killed and when: each has closed the ends that it does
\* not use, so that the other one finds an end of file or gets SIGPIPE, and the two open
\* the FIFOs in the same order.  mainfifo.c says that "if we swap the order of the two
\* calls to open in the parent, the program does not work".  The exceptions are an empty
\* pathname (client.c writes nothing and both wait) and the open of a FIFO whose other
\* process was killed, or is a client_main that quit because it came first.
PipeEnded ==
  \A p \in PipeProcs :
      \/ PipeStopped(p)
      \/ blank /\ ~Pipemesg
      \/ ppc[p] = "opening" /\ PipeStopped(Peer(p))
=============================================================================
