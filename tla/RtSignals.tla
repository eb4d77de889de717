----------------------------- MODULE RtSignals -----------------------------
(***************************************************************************)
(* Signals sent from a parent to its child and back.                        *)
(*                                                                         *)
(* test1 to test3 of rtsignals: the child blocks signals, installs handlers *)
(* and unblocks them later; the parent sends a list of signals with values. *)
(* sleep(3) of the parent is taken to be long enough for the child to have  *)
(* blocked and caught the signals; nothing is assumed of the other times.   *)
(* A program has the signals in the order they are sent, and whether they   *)
(* are realtime signals.  Realtime signals are queued, up to SigqueueMax;   *)
(* of the others one is kept, or all, as the system likes.                  *)
(*                                                                         *)
(* lat_signal, lat_sigqueue and lat_sigwait of bench: the two send each     *)
(* other a signal in turn.                                                  *)
(***************************************************************************)
EXTENDS Integers, Sequences

CONSTANTS SigqueueMax, \* signals that the system queues for the child
          PingRounds        \* the rounds of the programs of bench

ASSUME RtAssumption == SigqueueMax \in Nat \ {0} /\ PingRounds \in Nat

\* for (i = SIGRTMAX; ...) for (j = 0; j <= 2; j++): three signals by their number
test1 == [sends |-> <<<<3, 0>>, <<3, 1>>, <<3, 2>>, <<2, 0>>, <<2, 1>>, <<2, 2>>, <<1, 0>>, <<1, 1>>, <<1, 2>>>>,
          rt |-> TRUE]
\* SIGUSR1 and SIGTERM, with the values from 0; three in place of seven
test2 == [sends |-> <<<<1, 0>>, <<1, 1>>, <<1, 2>>, <<2, 0>>, <<2, 1>>, <<2, 2>>>>, rt |-> FALSE]
\* SIGRTMIN until the system refuses
test3 == [sends |-> [j \in 1..(SigqueueMax + 2) |-> <<1, j - 1>>], rt |-> TRUE]
NoTest == [sends |-> <<>>, rt |-> TRUE]

VARIABLES stest,
          sparent,   \* how many signals the parent has sent, or that it has ended
          sended,
          schild,
          squeue,    \* signals pending for the child, by their number
          shandled,  \* what the handler was called with
          sping, rtslot, sround, sdone

rtVars == <<stest, sparent, sended, schild, squeue, shandled, sping, rtslot, sround, sdone>>

Numbers == 1..3

Bench3 == {"lat_signal", "lat_sigqueue", "lat_sigwait"}

\* slot: the signals pending for each side of a latency program
RtInit ==
  /\ stest \in {test1, test2, test3, NoTest}
  /\ sping \in (IF stest = NoTest THEN Bench3 \cup {"idle"} ELSE {"idle"})
  /\ sparent = 0 /\ sended = FALSE /\ schild = "fork"
  /\ squeue = [n \in Numbers |-> <<>>]
  /\ shandled = [n \in Numbers |-> <<>>]
  /\ rtslot = [parent |-> 0, child |-> 0, term |-> 0]
  /\ sround = [parent |-> 0, child |-> 0]
  /\ sdone = [parent |-> FALSE, child |-> FALSE]

latVars == <<sping, rtslot, sround, sdone>>
testVars == <<stest, sparent, sended, schild, squeue, shandled>>

-----------------------------------------------------------------------------
(***************************************************************************)
(* test1, test2, test3                                                      *)
(***************************************************************************)
\* Sigprocmask and Signal_rt, whose handlers get the value of the signal
RtChildSetup ==
  /\ stest # NoTest
  /\ schild = "fork"
  /\ schild' = "blocked"
  /\ UNCHANGED <<stest, sparent, sended, squeue, shandled, latVars>>

RtPending == Len(squeue[1]) + Len(squeue[2]) + Len(squeue[3])

SigPut(s) == squeue' = IF schild = "exit" THEN squeue ELSE [squeue EXCEPT ![s[1]] = Append(@, s[2])]

\* Mutant: the wrapper ignores the error.
SigqueueIgnores ==
  /\ sparent < Len(stest.sends) /\ ~sended
  /\ schild # "fork"
  /\ IF stest.rt /\ RtPending >= SigqueueMax THEN UNCHANGED squeue ELSE SigPut(stest.sends[sparent + 1])
  /\ sparent' = sparent + 1
  /\ UNCHANGED <<stest, sended, schild, shandled, latVars>>

\* The wrapper ends the parent if sigqueue fails because too many are queued.  Signals to a
\* child that has ended, but was not waited for, are discarded.
Sigqueue ==
  /\ sparent < Len(stest.sends) /\ ~sended
  /\ schild # "fork"
  /\ LET s == stest.sends[sparent + 1]
     IN IF stest.rt /\ RtPending >= SigqueueMax
        THEN sended' = TRUE /\ UNCHANGED <<squeue, sparent>>
        ELSE /\ SigPut(s) \/ (~stest.rt /\ squeue[s[1]] # <<>> /\ UNCHANGED squeue)
             /\ sparent' = sparent + 1
             /\ UNCHANGED sended
  /\ UNCHANGED <<stest, schild, shandled, latVars>>

RtUnblock ==
  /\ schild = "blocked"
  /\ schild' = "unblocked"
  /\ UNCHANGED <<stest, sparent, sended, squeue, shandled, latVars>>

\* The system delivers the first one queued of a signal; realtime signals with the lowest
\* number first.  Handlers of different signals may interrupt each other.
sig_rt(n) ==
  /\ schild = "unblocked"
  /\ squeue[n] # <<>>
  /\ stest.rt => \A m \in Numbers : m < n => squeue[m] = <<>>
  /\ shandled' = [shandled EXCEPT ![n] = Append(@, Head(squeue[n]))]
  /\ squeue' = [squeue EXCEPT ![n] = Tail(@)]
  /\ UNCHANGED <<stest, sparent, sended, schild, latVars>>

\* exit after sleep(3): nothing pending is left, but the parent may still send.
RtChildExit ==
  /\ schild = "unblocked"
  /\ RtPending = 0
  /\ schild' = "exit"
  /\ UNCHANGED <<stest, sparent, sended, squeue, shandled, latVars>>

\* Waitpid and exit of the parent; test1 does not wait
RtParentExit ==
  /\ stest # NoTest
  /\ sparent = Len(stest.sends) /\ ~sended
  /\ stest = test1 \/ schild = "exit"
  /\ sended' = TRUE
  /\ UNCHANGED <<stest, sparent, schild, squeue, shandled, latVars>>

-----------------------------------------------------------------------------
(***************************************************************************)
(* lat_signal, lat_sigqueue, lat_sigwait                                    *)
(***************************************************************************)
\* Kill or Sigqueue of one signal to the other; of lat_signal and lat_sigwait a second one
\* would not be kept.
SigTo(side) == [rtslot EXCEPT ![side] = IF sping = "lat_sigqueue" THEN @ + 1 ELSE 1]

\* lat_signal: the Kill before the loop of the parent
LatFirst ==
  /\ sping = "lat_signal" /\ sround.child = 0 /\ sround.parent = 0 /\ rtslot.child = 0
  /\ ~sdone.parent /\ rtslot.parent = 0 /\ rtslot.term = 0
  /\ rtslot' = SigTo("child")
  /\ UNCHANGED <<testVars, sping, sround, sdone>>

\* The child: sig_usr1 of lat_signal, a turn of the loop of the others
LatChildTurn ==
  /\ rtslot.child > 0 /\ ~sdone.child
  /\ sping # "lat_signal" => sround.child < PingRounds
  /\ rtslot' = [SigTo("parent") EXCEPT !.child = @ - 1]
  /\ sround' = [sround EXCEPT !.child = @ + 1]
  /\ UNCHANGED <<testVars, sping, sdone>>

\* Mutant: one round too many.
sig_usr2More ==
  /\ sping = "lat_signal" /\ rtslot.parent > 0 /\ ~sdone.parent
  /\ sround' = [sround EXCEPT !.parent = @ + 1]
  /\ rtslot' = [(IF sround.parent + 1 <= PingRounds THEN SigTo("child") ELSE SigTo("term")) EXCEPT !.parent = 0]
  /\ UNCHANGED <<testVars, sping, sdone>>

\* sig_usr2 of lat_signal
sig_usr2 ==
  /\ sping = "lat_signal" /\ rtslot.parent > 0 /\ ~sdone.parent
  /\ sround' = [sround EXCEPT !.parent = @ + 1]
  /\ rtslot' = [(IF sround.parent + 1 < PingRounds THEN SigTo("child") ELSE SigTo("term")) EXCEPT !.parent = 0]
  /\ UNCHANGED <<testVars, sping, sdone>>

\* sig_term, which ends the child too
sig_term ==
  /\ rtslot.term > 0
  /\ sdone' = [parent |-> TRUE, child |-> TRUE]
  /\ rtslot' = [rtslot EXCEPT !.term = 0]
  /\ UNCHANGED <<testVars, sping, sround>>

\* The parent of the others sends the signal of the next round.
LatSend ==
  /\ sping \in {"lat_sigqueue", "lat_sigwait"}
  /\ sround.parent < 2 * PingRounds /\ sround.parent % 2 = 0
  /\ rtslot' = SigTo("child")
  /\ sround' = [sround EXCEPT !.parent = @ + 1]
  /\ UNCHANGED <<testVars, sping, sdone>>

\* Sigwaitinfo or Sigwait of the parent; the place in the loop is the parity of sround.parent
LatWait ==
  /\ sping \in {"lat_sigqueue", "lat_sigwait"}
  /\ sround.parent % 2 = 1 /\ rtslot.parent > 0
  /\ rtslot' = [rtslot EXCEPT !.parent = @ - 1]
  /\ sround' = [sround EXCEPT !.parent = @ + 1]
  /\ UNCHANGED <<testVars, sping, sdone>>

LatExit(side) ==
  /\ sping \in {"lat_sigqueue", "lat_sigwait"}
  /\ ~sdone[side]
  /\ sround[side] = (IF side = "parent" THEN 2 * PingRounds ELSE PingRounds)
  /\ sdone' = [sdone EXCEPT ![side] = TRUE]
  /\ UNCHANGED <<testVars, sping, rtslot, sround>>

RtChild == RtChildSetup \/ RtUnblock \/ RtChildExit \/ \E n \in Numbers : sig_rt(n)
RtParent == Sigqueue \/ RtParentExit
LatParent == LatFirst \/ sig_usr2 \/ sig_term \/ LatSend \/ LatWait \/ LatExit("parent")
LatChildSide == LatChildTurn \/ LatExit("child")

RtNext == RtChild \/ RtParent \/ LatParent \/ LatChildSide

RtFairness == WF_rtVars(RtChild) /\ WF_rtVars(RtParent) /\ WF_rtVars(LatParent) /\ WF_rtVars(LatChildSide)

-----------------------------------------------------------------------------
Values(q) == \A i \in 1..(Len(q) - 1) : q[i] < q[i + 1]

RtTypeOK ==
  /\ sparent \in 0..Len(stest.sends) /\ sended \in BOOLEAN
  /\ schild \in {"fork", "blocked", "unblocked", "exit"}
  /\ \A side \in {"parent", "child", "term"} : rtslot[side] \in 0..1

\* The values sent so far with signal n
SentWith(n) == LET q == SelectSeq(SubSeq(stest.sends, 1, sparent), LAMBDA s : s[1] = n)
               IN [i \in 1..Len(q) |-> q[i][2]]

\* The values of a realtime signal reach the handler, or are queued, each once and in the
\* order of Sigqueue, all that the parent did not fail to send; those of another signal in
\* order, some perhaps missing, but not all.
SignalsInOrder ==
  \A n \in Numbers :
    LET seen == shandled[n] \o squeue[n]
    IN /\ IF stest.rt THEN seen = SubSeq(SentWith(n), 1, Len(seen))
                       ELSE Values(seen) /\ (SentWith(n) # <<>> /\ schild # "exit" => seen # <<>>)
       /\ stest.rt /\ schild # "exit" => Len(seen) = Len(SentWith(n))

\* One signal at a time is under way in the programs of bench, and the parent has as many
\* answers as it asked for when it ends (lat_signal asks once even if nloop is 0).
PingPong ==
  /\ rtslot.parent + rtslot.child + rtslot.term <= 1
  /\ sdone.parent => sround.child = (IF sping = "lat_signal" /\ PingRounds = 0 THEN 1 ELSE PingRounds)

\* Parent and child end.
SignalsEnded ==
  /\ stest # NoTest => sended /\ schild = "exit"
  /\ sping # "idle" => sdone.parent /\ sdone.child
=============================================================================
