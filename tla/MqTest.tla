------------------------------- MODULE MqTest -------------------------------
(***************************************************************************)
(* my_pxmsg_mmap/testmq.c: the test of the message queues, as a list of the *)
(* calls it makes with the result it expects of each, run on what the       *)
(* functions promise: a bounded queue in order of priority (which MsgQueue  *)
(* is shown to implement), a flag for each descriptor and one registration. *)
(* Message m is the one of m bytes that is sent with priority m.            *)
(*                                                                         *)
(* A test that fails calls err_quit: the rest of the list is dropped.  The  *)
(* parent does not look at the exit status of its children.  The sleeps are *)
(* meant to let the other process get as far as it can; tprompt says that   *)
(* they are long enough for it.                                             *)
(***************************************************************************)
EXTENDS Integers, Sequences

VARIABLES tprog,     \* "testmq", or "none" when the test is idle
          tprompt,
          tleft,     \* the calls that each process still has to make
          tfailed,   \* the processes that met a wrong result
          tfile,     \* its mq_maxmsg and mq_msgsize, or NoQueue
          tq,        \* the messages on the queue, in its order
          tflag,     \* mqi_flags
          treg,      \* mqh_pid
          tblocked,  \* the child is in pthread_cond_wait of mq_receive
          tusr1      \* sigusr1

testVars == <<tprog, tprompt, tleft, tfailed, tfile, tq, tflag, treg, tblocked, tusr1>>
testQueue == <<tfile, tq, tflag, treg, tblocked, tusr1>>

NoQueue == <<0, 0>>
NobodyRegistered == "nobody"
O_NONBLOCK == 1

\* The errors; a call returns one of them, or a length, which is not negative.
ENOENT == -1
EEXIST == -2
EMSGSIZE == -3
EAGAIN == -4
EBUSY == -5

BUFFLEN == 100
mq_msgsize == 7
defattr == <<128, 1024>>

-----------------------------------------------------------------------------
\* The calls of the test: <<function, argument, the results it accepts>>
Calls(fn, args, results) == [i \in DOMAIN args |-> <<fn, args[i], {results[i]}>>]

Sends(msgs) == Calls("send", msgs, [i \in DOMAIN msgs |-> 0])

Receives(len, msgs) == Calls("receive", [i \in DOMAIN msgs |-> len], msgs)

Attr(flag, curmsgs) == {<<4, mq_msgsize, flag, curmsgs>>}

CreateAndUnlink ==
  << <<"unlink", 0, {0, ENOENT}>>, <<"unlink", 0, {ENOENT}>>,
     <<"create", defattr, {0}>>, <<"getattr", 0, {defattr \o <<0, 0>>}>>, <<"close", 0, {0}>>,
     <<"create", defattr, {EEXIST}>>, <<"unlink", 0, {0}>>,
     <<"create", <<4, mq_msgsize>>, {0}>>, <<"getattr", 0, Attr(0, 0)>> >>

ReverseOrder ==
  Sends(<<1>>) \o Receives(BUFFLEN, <<1>>) \o Sends(<<0>>) \o Receives(BUFFLEN, <<0>>)
  \o Sends(<<1, 2>>) \o Receives(BUFFLEN, <<2, 1>>)
  \o Sends(<<1, 2, 3>>) \o Receives(BUFFLEN, <<3, 2, 1>>)
  \o Sends(<<1, 2, 3, 4>>) \o Receives(BUFFLEN, <<4, 3, 2, 1>>)

SameOrder ==
  Sends(<<4>>) \o Receives(BUFFLEN, <<4>>)
  \o Sends(<<4, 3>>) \o Receives(BUFFLEN, <<4, 3>>)
  \o Sends(<<4, 3, 2>>) \o Receives(BUFFLEN, <<4, 3, 2>>)
  \o << <<"send", mq_msgsize + 1, {EMSGSIZE}>> >>
  \o Sends(<<4, 3, 2, 1>>) \o Receives(BUFFLEN, <<4, 3, 2>>)
  \o Receives(mq_msgsize - 1, <<EMSGSIZE>>) \o Receives(BUFFLEN, <<1>>)

OpenNonblocking ==
  Sends(<<1, 2, 4, 3>>)
  \o << <<"close", 0, {0}>>, <<"open", O_NONBLOCK, {0}>>,
        <<"getattr", 0, Attr(O_NONBLOCK, 4)>> >>
  \o Receives(mq_msgsize, <<4, 3, 2, 1, EAGAIN>>)
  \o Sends(<<1, 4, 2, 3>>) \o << <<"send", 5, {EAGAIN}>>, <<"close", 0, {0}>> >>

ChangeFlag ==
  << <<"open", 0, {0}>> >> \o Receives(mq_msgsize, <<4>>)
  \o << <<"setattr", O_NONBLOCK, Attr(0, 3)>>,
        <<"getattr", 0, Attr(O_NONBLOCK, 3)>> >>
  \o Receives(mq_msgsize, <<3, 2, 1, EAGAIN>>)
  \o << <<"setattr", 0, Attr(O_NONBLOCK, 0)>>,
        <<"getattr", 0, Attr(0, 0)>> >>

RegisterTwice ==
  << <<"notify", TRUE, {0}>>, <<"notify", TRUE, {EBUSY}>>, <<"notify", FALSE, {0}>>,
     <<"notify", TRUE, {0}>>, <<"notify", TRUE, {EBUSY}>>,
     <<"fork", << <<"notify", TRUE, {EBUSY}>> >>, {0}>>, <<"waitpid", 0, {0}>> >>

SignalOnce ==
  Sends(<<5>>) \o << <<"sleep", 0, {0}>>, <<"sigusr1", 0, {1}>> >> \o Receives(mq_msgsize, <<5>>)
  \o Sends(<<2>>) \o << <<"sleep", 0, {0}>>, <<"sigusr1", 0, {1}>> >> \o Receives(mq_msgsize, <<2>>)

ReceiverPreventsSignal ==
  << <<"notify", TRUE, {0}>>, <<"fork", Receives(mq_msgsize, <<6>>), {0}>>, <<"sleep", 0, {0}>> >>
  \o Sends(<<6>>) \o << <<"waitpid", 0, {0}>>, <<"sigusr1", 0, {1}>> >>

ParentToChild ==
  << <<"fork", << <<"sleep", 0, {0}>> >> \o Receives(mq_msgsize, <<3, 1>>), {0}>> >>
  \o Sends(<<1, 3>>)
  \o << <<"waitpid", 0, {0}>>, <<"getattr", 0, Attr(0, 0)>> >>

ChildToParent ==
  << <<"fork", Sends(<<3, 5, 1>>), {0}>>, <<"sleep", 0, {0}>> >>
  \o Receives(mq_msgsize, <<5, 3, 1>>)
  \o << <<"waitpid", 0, {0}>>, <<"getattr", 0, Attr(0, 0)>> >>

testmq ==
  CreateAndUnlink \o ReverseOrder \o SameOrder \o OpenNonblocking \o ChangeFlag
  \o RegisterTwice \o SignalOnce \o ReceiverPreventsSignal \o ParentToChild \o ChildToParent

\* The file may be there from an earlier run.
TestInit ==
  /\ tprog \in {"testmq", "none"}
  /\ tprompt \in (IF tprog = "none" THEN {TRUE} ELSE BOOLEAN)
  /\ tfile \in (IF tprog = "none" THEN {NoQueue} ELSE {NoQueue, <<4, mq_msgsize>>})
  /\ tleft = [p \in {"parent", "child"} |->
               IF p = "parent" /\ tprog = "testmq" THEN testmq ELSE <<>>]
  /\ tfailed = {} /\ tq = <<>> /\ tflag = 0 /\ treg = NobodyRegistered
  /\ tblocked = FALSE /\ tusr1 = 0

-----------------------------------------------------------------------------
\* What process p does next
Calling(p, fn) == tleft[p] # <<>> /\ Head(tleft[p])[1] = fn
Arg(p) == Head(tleft[p])[2]

\* The call returns, and err_quit ends the process if the result is not the one expected.
Returns(p, result) ==
  LET want == Head(tleft[p])[3]
      right == result \in want
  IN /\ tfailed' = IF right THEN tfailed ELSE tfailed \cup {p}
     /\ tleft' = [tleft EXCEPT ![p] = IF right THEN Tail(@) ELSE <<>>]
     /\ UNCHANGED <<tprog, tprompt>>

TestUnlink(p) ==
  /\ Calling(p, "unlink")
  /\ tfile' = NoQueue
  /\ Returns(p, IF tfile = NoQueue THEN ENOENT ELSE 0)
  /\ UNCHANGED <<tq, tflag, treg, tblocked, tusr1>>

\* mymq_open with O_CREAT | O_EXCL
TestCreate(p) ==
  /\ Calling(p, "create")
  /\ IF tfile = NoQueue
     THEN tfile' = Arg(p) /\ tq' = <<>> /\ tflag' = 0 /\ Returns(p, 0)
     ELSE UNCHANGED <<tfile, tq, tflag>> /\ Returns(p, EEXIST)
  /\ UNCHANGED <<treg, tblocked, tusr1>>

TestOpen(p) ==
  /\ Calling(p, "open")
  /\ tflag' = Arg(p)
  /\ Returns(p, 0)
  /\ UNCHANGED <<tfile, tq, treg, tblocked, tusr1>>

TestClose(p) ==
  /\ Calling(p, "close")
  /\ treg' = IF treg = p THEN NobodyRegistered ELSE treg
  /\ Returns(p, 0)
  /\ UNCHANGED <<tfile, tq, tflag, tblocked, tusr1>>

mymq_getattr == tfile \o <<tflag, Len(tq)>>

\* Wrong default attributes would only be reported; here they fail like all others.
TestGetattr(p) ==
  /\ Calling(p, "getattr")
  /\ Returns(p, mymq_getattr)
  /\ UNCHANGED testQueue

\* The old attributes are returned.
TestSetattr(p) ==
  /\ Calling(p, "setattr")
  /\ tflag' = Arg(p)
  /\ Returns(p, mymq_getattr)
  /\ UNCHANGED <<tfile, tq, treg, tblocked, tusr1>>

-----------------------------------------------------------------------------
TestFull == Len(tq) >= tfile[1]

\* Mutant: the message goes to the end of the queue.
InsertLast(m) == Append(tq, m)

\* A message goes behind those of its priority or a higher one.
Insert(m) == SelectSeq(tq, LAMBDA o : o >= m) \o <<m>> \o SelectSeq(tq, LAMBDA o : o < m)

\* Mutant: the registration stays after a notification.
TestNotifyStays ==
  /\ tusr1' = IF tq = <<>> /\ treg # NobodyRegistered /\ ~tblocked THEN tusr1 + 1 ELSE tusr1
  /\ UNCHANGED treg

\* A message for an empty queue that nobody waits for signals the registered process,
\* here always the parent, and ends the registration.
TestNotifies ==
  IF tq = <<>> /\ treg # NobodyRegistered /\ ~tblocked
  THEN tusr1' = tusr1 + 1 /\ treg' = NobodyRegistered
  ELSE UNCHANGED <<tusr1, treg>>

\* The test makes no call that blocks for ever: it never sends to a full queue without
\* O_NONBLOCK.
TestSend(p) ==
  /\ Calling(p, "send")
  /\ \/ /\ Arg(p) > tfile[2]
        /\ Returns(p, EMSGSIZE)
        /\ UNCHANGED <<tq, treg, tusr1>>
     \/ /\ Arg(p) <= tfile[2] /\ TestFull /\ tflag = O_NONBLOCK
        /\ Returns(p, EAGAIN)
        /\ UNCHANGED <<tq, treg, tusr1>>
     \/ /\ Arg(p) <= tfile[2] /\ ~TestFull
        /\ TestNotifies
        /\ tq' = Insert(Arg(p))
        /\ Returns(p, 0)
  /\ UNCHANGED <<tfile, tflag, tblocked>>

\* mq_receive takes the first message, now or when pthread_cond_wait returns.
TestReceive(p) ==
  /\ Calling(p, "receive")
  /\ \/ /\ Arg(p) < tfile[2]
        /\ Returns(p, EMSGSIZE)
        /\ UNCHANGED <<tq, tblocked>>
     \/ /\ Arg(p) >= tfile[2] /\ tq = <<>> /\ tflag = O_NONBLOCK
        /\ Returns(p, EAGAIN)
        /\ UNCHANGED <<tq, tblocked>>
     \/ /\ Arg(p) >= tfile[2] /\ tq # <<>>
        /\ Returns(p, Head(tq))
        /\ tq' = Tail(tq) /\ tblocked' = FALSE
     \/ /\ Arg(p) >= tfile[2] /\ tq = <<>> /\ tflag # O_NONBLOCK
        /\ p = "child" /\ ~tblocked /\ tblocked' = TRUE
        /\ UNCHANGED <<tprog, tprompt, tleft, tfailed, tq>>
  /\ UNCHANGED <<tfile, tflag, treg, tusr1>>

\* The process that is registered is alive: it is the parent, which waits for its child.
TestNotify(p) ==
  /\ Calling(p, "notify")
  /\ \/ ~Arg(p) /\ treg' = (IF treg = p THEN NobodyRegistered ELSE treg) /\ Returns(p, 0)
     \/ Arg(p) /\ treg # NobodyRegistered /\ UNCHANGED treg /\ Returns(p, EBUSY)
     \/ Arg(p) /\ treg = NobodyRegistered /\ treg' = p /\ Returns(p, 0)
  /\ UNCHANGED <<tfile, tq, tflag, tblocked, tusr1>>

-----------------------------------------------------------------------------
TestSigusr1(p) ==
  /\ Calling(p, "sigusr1")
  /\ Returns(p, tusr1)
  /\ UNCHANGED testQueue

Other(p) == IF p = "parent" THEN "child" ELSE "parent"

\* The process has ended, or cannot go on.
AtRest(p) == tleft[p] = <<>> \/ Calling(p, "waitpid") \/ (p = "child" /\ tblocked)

TestSleep(p) ==
  /\ Calling(p, "sleep")
  /\ tprompt => AtRest(Other(p))
  /\ Returns(p, 0)
  /\ UNCHANGED testQueue

TestFork(p) ==
  /\ Calling(p, "fork")
  /\ tleft' = [tleft EXCEPT !.parent = Tail(@), !.child = Arg(p)]
  /\ UNCHANGED <<tprog, tprompt, tfailed, testQueue>>

\* Waitpid(childpid, NULL, 0)
TestWaitpid(p) ==
  /\ Calling(p, "waitpid")
  /\ tleft[Other(p)] = <<>>
  /\ Returns(p, 0)
  /\ UNCHANGED testQueue

TestStep(p) ==
  \/ TestUnlink(p) \/ TestCreate(p) \/ TestOpen(p) \/ TestClose(p)
  \/ TestGetattr(p) \/ TestSetattr(p) \/ TestSend(p) \/ TestReceive(p) \/ TestNotify(p)
  \/ TestSigusr1(p) \/ TestSleep(p) \/ TestFork(p) \/ TestWaitpid(p)

TestNext == \E p \in {"parent", "child"} : TestStep(p)

TestFairness == \A p \in {"parent", "child"} : WF_testVars(TestStep(p))

-----------------------------------------------------------------------------
\* testmq finds what it expects, to the last call, when its sleeps are long enough; and
\* although it does not ask for the status of its children, it prints "done" only if
\* they found what they expected too, however long the sleeps are.
TestPasses ==
  /\ tprompt => tfailed = {}
  /\ tleft.parent = <<>> /\ "parent" \notin tfailed => tfailed = {} /\ tq = <<>>

\* Parent and children of testmq come to their end: nobody is left asleep in mq_receive.
TestEnded == tleft.parent = <<>> /\ tleft.child = <<>>
=============================================================================
