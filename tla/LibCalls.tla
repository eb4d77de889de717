------------------------------ MODULE LibCalls ------------------------------
(***************************************************************************)
(* The functions of lib that repeat system calls: writen, readn, readline   *)
(* and sleep_us; and the handlers that signal and its relatives install,    *)
(* which decide whether a system call is restarted or fails with EINTR      *)
(* (testeintr of pxsem and of the three my_pxsem).                          *)
(*                                                                         *)
(* writen writes linput to a pipe and closes it; readn or readline reads    *)
(* it.  read and write move any number of bytes that are there or fit, and  *)
(* may be interrupted.  testeintr waits for a semaphore of value 0 until    *)
(* SIGALRM interrupts it.                                                   *)
(***************************************************************************)
EXTENDS Integers, Sequences, SequencesExt

CONSTANTS MaxInput,  \* bytes that writen writes at most
          PipeSize, BufSize,
          MaxLens,   \* values of n of readn and of maxlen of readline
          MaxSignals,
          Usecs      \* the argument of sleep_us

ASSUME LibAssumption ==
  /\ MaxInput \in Nat /\ PipeSize \in Nat \ {0} /\ BufSize \in Nat \ {0} /\ MaxSignals \in Nat /\ Usecs \in Nat
  /\ MaxLens \subseteq Nat \ {0}

\* Bytes are newlines or not.
Inputs == UNION {[1..n -> {"c", "nl"}] : n \in 0..MaxInput}

VARIABLES lprog, llen, linput,
          linstall,  \* the function that installed the handler, and its signal
          lpipe,     \* bytes in the pipe
          lwritten,  \* bytes that writen has written; lclosed once it returned
          lclosed,
          lread_buf, \* the static buffer of my_read
          lbytes,    \* what this call of the reader has stored
          lresults,  \* what its calls have returned: the bytes and the count
          leof,
          lsignals,  \* signals so far
          lpc, lleft, lslept, learly

libVars == <<lprog, llen, linput, linstall, lpipe, lwritten, lclosed, lread_buf, lbytes, lresults, leof,
             lsignals, lpc, lleft, lslept, learly>>

\* Which semaphore testeintr waits for: by what call, and how often
pxsem_testeintr == [call |-> "sem_wait", rounds |-> 2]
my_pxsem_fifo_testeintr == [call |-> "read", rounds |-> 1]
my_pxsem_svsem_testeintr == [call |-> "semop", rounds |-> 1]
my_pxsem_mmap_testeintr == [call |-> "pthread_cond_wait", rounds |-> 1]

Waits == {pxsem_testeintr, my_pxsem_fifo_testeintr, my_pxsem_svsem_testeintr, my_pxsem_mmap_testeintr}

NoCall == [call |-> "none", rounds |-> 0]
Streams == {[call |-> c, rounds |-> 0] : c \in {"readn", "readline"}}
Sleeper == [call |-> "sleep_us", rounds |-> 0]

Handler(by, signo) == [by |-> by, signo |-> signo]

\* Mutant: SIGALRM is no exception.
signalAlways(signo) == TRUE
\* Whether system calls are restarted after the handler
signal(signo) == signo # "SIGALRM"
signal_rt(signo) == signo # "SIGALRM"
signal_intr(signo) == FALSE
signal_rt_intr(signo) == FALSE

Restart ==
  LET signo == linstall.signo
  IN CASE linstall.by = "signal" -> signal(signo)
       [] linstall.by = "signal_rt" -> signal_rt(signo)
       [] linstall.by = "signal_intr" -> signal_intr(signo)
       [] linstall.by = "signal_rt_intr" -> signal_rt_intr(signo)

\* Whether a call fails with EINTR: semop and select always do, pthread_cond_wait never.
Eintr(call) == call \in {"semop", "select"} \/ (call # "pthread_cond_wait" /\ ~Restart)

LibInit ==
  /\ lprog \in Waits \cup Streams \cup {Sleeper, NoCall}
  /\ llen \in (IF lprog \in Streams THEN MaxLens ELSE {1})
  /\ linput \in (IF lprog \in Streams THEN Inputs ELSE {<<>>})
  /\ linstall \in (IF lprog \in Streams
                   THEN {Handler(by, s) : by \in {"signal_intr", "signal_rt", "signal_rt_intr"}, s \in {"SIGCHLD"}}
                   ELSE {Handler("signal", "SIGALRM")})
  /\ lpipe = <<>> /\ lwritten = 0 /\ lclosed = FALSE /\ lread_buf = <<>> /\ lbytes = <<>>
  /\ lresults = <<>> /\ leof = FALSE /\ lsignals = 0
  /\ lpc = (IF lprog = NoCall THEN "exit" ELSE "call")
  /\ lleft = (IF lprog = Sleeper THEN Usecs ELSE lprog.rounds)
  /\ lslept = 0 /\ learly = FALSE

writeVars == <<lwritten, lclosed>>
readVars == <<lread_buf, lbytes, lresults, leof>>
fixedVars == <<lprog, llen, linput, linstall>>
otherVars == <<lpc, lleft, lslept, learly>>

-----------------------------------------------------------------------------
(***************************************************************************)
(* writen, readn and readline                                               *)
(***************************************************************************)
\* write of k bytes
writen(k) ==
  /\ lprog \in Streams /\ ~lclosed
  /\ lwritten + k <= Len(linput) /\ Len(lpipe) + k <= PipeSize
  /\ lpipe' = lpipe \o SubSeq(linput, lwritten + 1, lwritten + k)
  /\ lwritten' = lwritten + k
  /\ UNCHANGED <<fixedVars, lclosed, readVars, lsignals, otherVars>>

\* writen returns, and the pipe is closed.
WritenReturns ==
  /\ lprog \in Streams /\ ~lclosed
  /\ lwritten = Len(linput)
  /\ lclosed' = TRUE
  /\ UNCHANGED <<fixedVars, lpipe, lwritten, readVars, lsignals, otherVars>>

AtEof == lpipe = <<>> /\ lclosed

\* read of k bytes in readn, up to its return if that was all
readn(k) ==
  /\ lprog.call = "readn" /\ ~leof
  /\ k <= Len(lpipe) /\ k <= llen - Len(lbytes)
  /\ lpipe' = SubSeq(lpipe, k + 1, Len(lpipe))
  /\ LET got == lbytes \o SubSeq(lpipe, 1, k)
     IN IF Len(got) = llen
        THEN /\ lbytes' = <<>> /\ UNCHANGED leof
             /\ lresults' = Append(lresults, [bytes |-> got, n |-> llen])
        ELSE lbytes' = got /\ UNCHANGED <<lresults, leof>>
  /\ UNCHANGED <<fixedVars, writeVars, lread_buf, lsignals, otherVars>>

ReadnEof ==
  /\ lprog.call = "readn" /\ ~leof
  /\ AtEof
  /\ lresults' = Append(lresults, [bytes |-> lbytes, n |-> Len(lbytes)])
  /\ leof' = TRUE /\ lbytes' = <<>>
  /\ UNCHANGED <<fixedVars, lpipe, writeVars, lread_buf, lsignals, otherVars>>

\* Mutant: an interrupted read counts as the end of the file.
ReadEintrEnds ==
  /\ lprog \in Streams /\ ~leof
  /\ lread_buf = <<>>
  /\ Eintr("read") /\ lsignals < MaxSignals
  /\ lsignals' = lsignals + 1
  /\ leof' = TRUE
  /\ UNCHANGED <<fixedVars, lpipe, writeVars, lread_buf, lbytes, lresults, otherVars>>

\* A signal interrupts read in readn or my_read, which call it again.
ReadEintr ==
  /\ lprog \in Streams /\ ~leof
  /\ lread_buf = <<>>
  /\ Eintr("read") /\ lsignals < MaxSignals
  /\ lsignals' = lsignals + 1
  /\ UNCHANGED <<fixedVars, lpipe, writeVars, readVars, otherVars>>

\* my_read fills its buffer with k bytes.
my_read(k) ==
  /\ lprog.call = "readline" /\ ~leof
  /\ lread_buf = <<>> /\ Len(lbytes) + 1 < llen
  /\ k <= Len(lpipe) /\ k <= BufSize
  /\ lread_buf' = SubSeq(lpipe, 1, k)
  /\ lpipe' = SubSeq(lpipe, k + 1, Len(lpipe))
  /\ UNCHANGED <<fixedVars, writeVars, lbytes, lresults, leof, lsignals, otherVars>>

\* Mutant: the bytes of the buffer after the newline are dropped.
readlineDrops ==
  /\ lprog.call = "readline" /\ ~leof
  /\ lread_buf # <<>> /\ Len(lbytes) + 1 < llen
  /\ LET c == Head(lread_buf)
     IN IF c = "nl"
        THEN /\ lresults' = Append(lresults, [bytes |-> Append(lbytes, c), n |-> Len(lbytes) + 1])
             /\ lbytes' = <<>> /\ lread_buf' = <<>>
        ELSE lbytes' = Append(lbytes, c) /\ lread_buf' = Tail(lread_buf) /\ UNCHANGED lresults
  /\ UNCHANGED <<fixedVars, lpipe, writeVars, leof, lsignals, otherVars>>

\* One turn of the loop of readline, with a byte of the buffer
readline ==
  /\ lprog.call = "readline" /\ ~leof
  /\ lread_buf # <<>> /\ Len(lbytes) + 1 < llen
  /\ LET c == Head(lread_buf)
     IN IF c = "nl"
        THEN /\ lresults' = Append(lresults, [bytes |-> Append(lbytes, c), n |-> Len(lbytes) + 1])
             /\ lbytes' = <<>>
        ELSE lbytes' = Append(lbytes, c) /\ UNCHANGED lresults
  /\ lread_buf' = Tail(lread_buf)
  /\ UNCHANGED <<fixedVars, lpipe, writeVars, leof, lsignals, otherVars>>

\* The loop ends at maxlen, or at the end of the file.  In both cases n is one more than
\* the bytes that were stored.
ReadlineReturns ==
  /\ lprog.call = "readline" /\ ~leof
  /\ \/ Len(lbytes) + 1 >= llen
     \/ lread_buf = <<>> /\ AtEof
  /\ LET none == lbytes = <<>> /\ Len(lbytes) + 1 < llen
     IN /\ lresults' = Append(lresults, [bytes |-> lbytes, n |-> IF none THEN 0 ELSE Len(lbytes) + 1])
        /\ leof' = (none \/ llen = 1)
  /\ lbytes' = <<>>
  /\ UNCHANGED <<fixedVars, lpipe, writeVars, lread_buf, lsignals, otherVars>>

-----------------------------------------------------------------------------
(***************************************************************************)
(* sleep_us                                                                 *)
(***************************************************************************)
streamVars == <<lpipe, writeVars, readVars>>

\* Time passes in select.
SleepTick ==
  /\ lprog = Sleeper /\ lpc = "call"
  /\ lleft > 0
  /\ lleft' = lleft - 1 /\ lslept' = lslept + 1
  /\ UNCHANGED <<fixedVars, streamVars, lsignals, lpc, learly>>

\* Mutant: select is not called again.
sleep_usOnce ==
  /\ lprog = Sleeper /\ lpc = "call"
  /\ lleft > 0 /\ lsignals < MaxSignals
  /\ lsignals' = lsignals + 1
  /\ lpc' = "exit"
  /\ UNCHANGED <<fixedVars, streamVars, lleft, lslept, learly>>

\* A signal interrupts select; it is called again with the whole time.
sleep_us ==
  /\ lprog = Sleeper /\ lpc = "call"
  /\ lleft > 0 /\ lsignals < MaxSignals
  /\ Eintr("select")
  /\ lsignals' = lsignals + 1
  /\ lleft' = Usecs
  /\ UNCHANGED <<fixedVars, streamVars, lpc, lslept, learly>>

SleepReturns ==
  /\ lprog = Sleeper /\ lpc = "call"
  /\ lleft = 0
  /\ lpc' = "exit"
  /\ UNCHANGED <<fixedVars, streamVars, lsignals, lleft, lslept, learly>>

-----------------------------------------------------------------------------
(***************************************************************************)
(* testeintr                                                                *)
(***************************************************************************)
\* alarm(2), then the wait for the semaphore
TestAlarm ==
  /\ lprog \in Waits /\ lpc = "call"
  /\ lpc' = "armed"
  /\ UNCHANGED <<fixedVars, streamVars, lsignals, lleft, lslept, learly>>

TestWait ==
  /\ lpc = "armed"
  /\ lpc' = "waiting"
  /\ UNCHANGED <<fixedVars, streamVars, lsignals, lleft, lslept, learly>>

\* sig_alrm: the wait fails, or goes on.  The alarm may come before the wait.
sig_alrm ==
  /\ lpc \in {"armed", "waiting"} /\ lsignals = lprog.rounds - lleft
  /\ lsignals' = lsignals + 1
  /\ learly' = (learly \/ lpc = "armed")
  /\ IF lpc = "waiting" /\ Eintr(lprog.call)
     THEN lleft' = lleft - 1 /\ lpc' = (IF lleft = 1 THEN "exit" ELSE "call")
     ELSE UNCHANGED <<lleft, lpc>>
  /\ UNCHANGED <<fixedVars, streamVars, lslept>>

Writer == WritenReturns \/ \E k \in 1..PipeSize : writen(k)
Reader == ReadnEof \/ readline \/ ReadlineReturns \/ \E k \in 1..BufSize : readn(k) \/ my_read(k)

LibStep == Writer \/ Reader \/ SleepTick \/ SleepReturns \/ TestAlarm \/ TestWait \/ sig_alrm

LibNext == LibStep \/ ReadEintr \/ sleep_us

LibFairness == WF_libVars(Writer) /\ WF_libVars(Reader) /\ WF_libVars(SleepTick \/ SleepReturns)
               /\ WF_libVars(TestAlarm \/ TestWait) /\ WF_libVars(sig_alrm)

-----------------------------------------------------------------------------
LibTypeOK ==
  /\ Len(lpipe) <= PipeSize /\ Len(lread_buf) <= BufSize
  /\ lwritten \in 0..Len(linput) /\ lsignals \in 0..MaxSignals
  /\ {lclosed, leof, learly} \subseteq BOOLEAN /\ lleft \in Nat /\ lslept \in Nat
  /\ lpc \in {"call", "armed", "waiting", "exit"}

Stored == FlattenSeq([i \in 1..Len(lresults) |-> lresults[i].bytes])

LineReturn(r) ==
  /\ \A i \in 1..(Len(r.bytes) - 1) : r.bytes[i] # "nl"
  /\ Len(r.bytes) < llen
  /\ LET line == r.bytes # <<>> /\ Last(r.bytes) = "nl"
     IN r.n = IF line THEN Len(r.bytes) ELSE IF r.bytes = <<>> /\ llen > 1 THEN 0 ELSE Len(r.bytes) + 1

\* However read and write divide the bytes, and whatever interrupts them: nothing is lost,
\* doubled or reordered between writen and the reader, readn returns n bytes unless the
\* file ends, and readline a line, its beginning if it is too long, or what is left of it.
StreamExact ==
  lprog \in Streams =>
    /\ Stored \o lbytes \o lread_buf \o lpipe = SubSeq(linput, 1, lwritten)
    /\ lprog.call = "readn" =>
         \A i \in 1..Len(lresults) : lresults[i].n = Len(lresults[i].bytes)
                                     /\ (lresults[i].n = llen \/ (i = Len(lresults) /\ leof))
    /\ lprog.call = "readline" =>
         \A i \in 1..Len(lresults) :
           /\ LineReturn(lresults[i])
           /\ \/ lresults[i].n = Len(lresults[i].bytes) \/ Len(lresults[i].bytes) + 1 = llen
              \/ lclosed /\ lpipe = <<>>

\* sleep_us does not return before the time is over.
SleepsLongEnough == lprog = Sleeper /\ lpc = "exit" => lslept >= Usecs

\* The reader comes to the end of the file, having read everything (or at once, if maxlen
\* leaves no room for a byte); sleep_us returns when the signals stop; testeintr ends,
\* unless the alarm comes before the wait or the wait cannot be interrupted.
LibCallsReturned ==
  /\ lprog \in Streams => leof /\ (Stored = linput \/ llen = 1)
  /\ lprog = Sleeper => lpc = "exit"
  /\ lprog \in Waits => lpc = "exit" \/ learly \/ lprog = my_pxsem_mmap_testeintr
=============================================================================
