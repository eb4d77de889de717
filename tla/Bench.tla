------------------------------- MODULE Bench -------------------------------
(***************************************************************************)
(* The bandwidth and latency programs of bench on pipes, message queues and *)
(* doors.  bw_*: the parent (the reader) writes a number of bytes to a      *)
(* control pipe, the child (the writer) sends as many in pieces of xfersize *)
(* until its count is no longer positive, and the parent reads until its    *)
(* own count is no longer positive; nloop times.  lat_*: the parent sends a *)
(* message and waits for the answer of the child, once and nloop times.     *)
(* A program is                                                            *)
(*   chan   "bytes" (a pipe), "messages" (a queue), "call" (a door),        *)
(*          "pingpong"                                                     *)
(*   head   the bytes of xfersize that are not data (the type of a System V *)
(*          message)                                                       *)
(*   stale  the queues may have messages of an earlier run: they are opened *)
(*          without being removed first                                    *)
(***************************************************************************)
EXTENDS Integers, Sequences, FiniteSets

CONSTANTS MaxTotal, MaxXfer,  \* bounds of totalnbytes and xfersize
          BRounds,            \* nloop
          BCapacity,          \* messages, or bytes, that fit into the channel
          SizeofLong          \* the size of the type of a System V message

ASSUME BenchAssumption ==
  /\ {MaxTotal, MaxXfer, BRounds, BCapacity, SizeofLong} \subseteq Nat \ {0} /\ SizeofLong < MaxXfer

Bandwidth(chan, head) == [chan |-> chan, head |-> head, stale |-> FALSE]
Latency(stale) == [chan |-> "pingpong", head |-> 0, stale |-> stale]

bw_pipe == Bandwidth("bytes", 0)
bw_pxmsg == Bandwidth("messages", 0)
bw_svmsg == Bandwidth("messages", SizeofLong)
bw_door == Bandwidth("call", 0)
lat_pipe == Latency(FALSE)
lat_svmsg == Latency(FALSE)
lat_pxmsg == Latency(TRUE)

VARIABLES bprog, totalnbytes, xfersize,
          bround,             \* rounds that the parent has finished
          bpc, bcpc,          \* of the parent and of the child
          bcont,              \* the control pipe: the numbers written to it
          bdata,              \* what is in the channel: sizes of pieces; of pingpong the
                              \* pings under way
          bback,              \* done bytes of bw_door, pongs under way
          nbytes, ntowrite,   \* the counts of the parent and of the child
          bpart,              \* bytes of the piece that the child is writing
          bgot                \* bytes that the parent has read in this round, or the pong

benchVars == <<bprog, totalnbytes, xfersize, bround, bpc, bcpc, bcont, bdata, bback, nbytes, ntowrite, bpart, bgot>>

BSum(q) == LET sum[i \in 0..Len(q)] == IF i = 0 THEN 0 ELSE sum[i - 1] + q[i] IN sum[Len(q)]

Lat == bprog.chan = "pingpong"

\* Stale messages have number 0, the ones of a round its number plus one.
BenchInit ==
  /\ bprog \in {bw_pipe, bw_pxmsg, bw_svmsg, bw_door, lat_pipe, lat_svmsg, lat_pxmsg, Bandwidth("idle", 0)}
  /\ totalnbytes \in (IF bprog.chan \in {"pingpong", "idle"} THEN {1} ELSE 1..MaxTotal)
  /\ xfersize \in (IF bprog.chan \in {"pingpong", "idle"} THEN {1} ELSE (bprog.head + 1)..MaxXfer)
  /\ bdata \in (IF bprog.stale THEN {<<>>, <<0>>} ELSE {<<>>})
  /\ bback \in (IF bprog.stale THEN {<<>>, <<0>>} ELSE {<<>>})
  /\ bround = 0 /\ bpc = (IF bprog.chan = "idle" THEN "done" ELSE "ask") /\ bcpc = "wait" /\ bcont = <<>>
  /\ nbytes = 0 /\ ntowrite = 0 /\ bpart = 0 /\ bgot = 0

Fixed == UNCHANGED <<bprog, totalnbytes, xfersize>>

-----------------------------------------------------------------------------
\* The parent asks for the bytes of a round; bw_door sets ntoread and nread first.
reader ==
  /\ bpc = "ask" /\ ~Lat /\ bround < BRounds
  /\ bcont' = Append(bcont, totalnbytes) /\ nbytes' = totalnbytes /\ bgot' = 0 /\ bpc' = "read"
  /\ Fixed /\ UNCHANGED <<bround, bcpc, bdata, bback, ntowrite, bpart>>

\* Mutant: the head of a System V message is not counted.
CountedData(n) == n

\* What the parent takes off its count for n bytes read
Counted(n) == n + bprog.head

\* What a read returns: a message, or a part of the bytes in the pipe
Piece ==
  IF bprog.chan = "messages" THEN {Head(bdata)}
  ELSE 1..(IF BSum(bdata) < xfersize THEN BSum(bdata) ELSE xfersize)

\* The parent reads a piece, while nbytes is positive.
ReaderReads ==
  /\ bpc = "read" /\ bprog.chan \in {"bytes", "messages"} /\ nbytes > 0 /\ bdata # <<>>
  /\ \E n \in Piece :
       /\ nbytes' = nbytes - Counted(n) /\ bgot' = bgot + Counted(n)
       /\ bdata' = IF bprog.chan = "messages" THEN Tail(bdata)
                   ELSE IF BSum(bdata) = n THEN <<>> ELSE <<BSum(bdata) - n>>
  /\ Fixed /\ UNCHANGED <<bround, bpc, bcpc, bcont, bback, ntowrite, bpart>>

\* The round ends: the count is used up, or, in bw_door, the procedure has said so.
ReaderReturns ==
  /\ bpc = "read"
  /\ \/ bprog.chan \in {"bytes", "messages"} /\ nbytes <= 0 /\ UNCHANGED bback
     \/ bprog.chan = "call" /\ bback # <<>> /\ bback' = Tail(bback)
  /\ bround' = bround + 1 /\ bpc' = "ask"
  /\ Fixed /\ UNCHANGED <<bcpc, bcont, bdata, nbytes, ntowrite, bgot, bpart>>

\* After the last round the parent kills the child and removes the queue.
BenchDone ==
  /\ bpc = "ask" /\ bround = (IF Lat THEN BRounds + 1 ELSE BRounds) /\ bpc' = "done" /\ bcpc' = "killed"
  /\ Fixed /\ UNCHANGED <<bround, bcont, bdata, bback, nbytes, ntowrite, bgot, bpart>>

-----------------------------------------------------------------------------
\* The child reads how much to write.
writer ==
  /\ ~Lat /\ bcpc = "wait" /\ bcont # <<>>
  /\ ntowrite' = Head(bcont) /\ bcont' = Tail(bcont) /\ bcpc' = "write"
  /\ Fixed /\ UNCHANGED <<bround, bpc, bdata, bback, nbytes, bgot, bpart>>

\* Mutant: the child writes only whole pieces.
MoreFloor(n) == n >= xfersize

\* Mutant: the child writes a piece too many.
MoreZero(n) == n >= 0

More(n) == n > 0

\* The child writes a message when there is room for it, or as many bytes of its piece as
\* the pipe takes.
WriterWrites ==
  /\ bcpc = "write" /\ More(ntowrite)
  /\ \/ /\ bprog.chan = "messages" /\ Len(bdata) < BCapacity
        /\ bdata' = Append(bdata, xfersize - bprog.head) /\ ntowrite' = ntowrite - xfersize /\ UNCHANGED bpart
     \/ /\ bprog.chan = "bytes"
        /\ \E n \in 1..(xfersize - bpart) :
             /\ BSum(bdata) + n <= BCapacity /\ bdata' = <<BSum(bdata) + n>>
             /\ bpart' = (bpart + n) % xfersize
             /\ ntowrite' = IF bpart + n = xfersize THEN ntowrite - xfersize ELSE ntowrite
  /\ Fixed /\ UNCHANGED <<bround, bpc, bcpc, bcont, bback, nbytes, bgot>>

\* The call of bw_door: the procedure adds to nread, here taken off nbytes, and tells the
\* parent when it has all; then it returns to the child.
WriterCalls ==
  /\ bprog.chan = "call"
  /\ \/ /\ bcpc = "write" /\ More(ntowrite) /\ bcpc' = "called"
        /\ nbytes' = nbytes - xfersize /\ bgot' = bgot + xfersize
        /\ bback' = IF nbytes' <= 0 THEN Append(bback, 1) ELSE bback
        /\ UNCHANGED ntowrite
     \/ bcpc = "called" /\ bcpc' = "write" /\ ntowrite' = ntowrite - xfersize /\ UNCHANGED <<nbytes, bgot, bback>>
  /\ Fixed /\ UNCHANGED <<bround, bpc, bcont, bdata, bpart>>

WriterWaits ==
  /\ ~Lat /\ bcpc = "write" /\ ~More(ntowrite) /\ bcpc' = "wait"
  /\ Fixed /\ UNCHANGED <<bround, bpc, bcont, bdata, bback, nbytes, ntowrite, bgot, bpart>>

-----------------------------------------------------------------------------
\* doit of the latency programs: a message to the child, and its answer
doit ==
  /\ Lat
  /\ \/ /\ bpc = "ask" /\ bround <= BRounds /\ bdata' = Append(bdata, bround + 1) /\ bpc' = "read"
        /\ UNCHANGED <<bback, bgot, bround>>
     \/ /\ bpc = "read" /\ bback # <<>> /\ bgot' = Head(bback) /\ bback' = Tail(bback)
        /\ bpc' = "ask" /\ bround' = bround + 1 /\ UNCHANGED bdata
  /\ Fixed /\ UNCHANGED <<bcpc, bcont, nbytes, ntowrite, bpart>>

\* The child takes a message and sends it back.
LatChild ==
  /\ Lat
  /\ \/ bcpc = "wait" /\ bdata # <<>> /\ ntowrite' = Head(bdata) /\ bdata' = Tail(bdata) /\ bcpc' = "write"
        /\ UNCHANGED bback
     \/ bcpc = "write" /\ bback' = Append(bback, ntowrite) /\ bcpc' = "wait" /\ UNCHANGED <<bdata, ntowrite>>
  /\ Fixed /\ UNCHANGED <<bround, bpc, bcont, nbytes, bgot, bpart>>

BenchParent == reader \/ ReaderReads \/ ReaderReturns \/ BenchDone \/ doit
BenchChild == writer \/ WriterWrites \/ WriterCalls \/ WriterWaits \/ LatChild

BenchNext == BenchParent \/ BenchChild
BenchFairness == WF_benchVars(BenchParent) /\ WF_benchVars(BenchChild)

-----------------------------------------------------------------------------
BenchTypeOK ==
  /\ bround \in 0..(BRounds + 1) /\ bpc \in {"ask", "read", "done"} /\ bcpc \in {"wait", "write", "called", "killed"}
  /\ nbytes \in Int /\ ntowrite \in Int /\ bgot \in Nat
  /\ \A i \in 1..Len(bdata) : bdata[i] \in Nat

\* A round of a bandwidth program ends with at least the bytes asked for and with less
\* than a piece more.  Then the child has sent all that was asked for, and nothing of it
\* is left for the next round, unless a pipe carries what exceeds the number of bytes
\* asked for.  A latency program gets the answer to its own message, unless the queues
\* had messages of an earlier run.
RoundsExact ==
  /\ bprog.chan \in {"bytes", "messages", "call"} /\ bpc = "ask" /\ bround > 0 =>
       /\ totalnbytes <= bgot /\ bgot < totalnbytes + xfersize
       /\ bprog.chan # "bytes" \/ totalnbytes % xfersize = 0 => bdata = <<>> /\ bback = <<>> /\ bpart = 0 /\ ntowrite <= IF bcpc = "called" THEN xfersize ELSE 0
  /\ Lat /\ bpc = "ask" /\ bround > 0 /\ ~bprog.stale => bgot = bround /\ bdata = <<>> /\ bback = <<>>

\* The benchmark ends: the parent never waits for bytes that the child will not write.
BenchEnded == bpc = "done"
=============================================================================
