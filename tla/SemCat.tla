------------------------------- MODULE SemCat -------------------------------
(***************************************************************************)
(* pxsem/mycat2.c beside the programs of SemProdcons: OneProducer copies a  *)
(* file into NBUFF buffers, and OneConsumer copies the buffers to the       *)
(* output.  The file has nitems blocks; Read returns the next one, and 0 at *)
(* the end of the file.  nput and nget are the variables i of the threads,  *)
(* which start again at 0.  Read and Write are steps of their own, that     *)
(* neither semaphore nor mutex protects.                                    *)
(***************************************************************************)
EXTENDS SemProdcons, Sequences, FiniteSets

VARIABLES nread,    \* the position in the input
          output

vars == <<prodconsVars, nread, output>>

\* The two threads of prodcons2, with files
mycat2 == [prodcons2 EXCEPT !.copies = TRUE]

Programs == ProdconsPrograms \union {mycat2}

Init == ProdconsInit(Programs) /\ nread = 0 /\ output = <<>>

\* i++ of the threads of mycat2
Incremented(i) == IF i + 1 >= NBUFF THEN 0 ELSE i + 1

CatWait(t) ==
  /\ \/ WaitFor(t, Needs(t), "wait", "second")
     \/ WaitFor(t, "mutex", "second", "critical")
  /\ UNCHANGED <<nread, output>>

\* The critical region, which is empty, and Sem_post(mutex)
CatUnlock(t) ==
  /\ pc[t] = "critical"
  /\ Sem_post(t, "mutex")
  /\ Goto(t, "copy")
  /\ UNCHANGED <<args, shared, counts, nread, output>>

\* Read into the buffer; at the end of the file n is 0, and i stays.
CatRead ==
  /\ pc[OneProducer] = "copy"
  /\ buff' = [buff EXCEPT ![nput] = IF nread < nitems THEN nread + 1 ELSE 0]
  /\ IF nread < nitems
     THEN nread' = nread + 1 /\ nput' = Incremented(nput) /\ Goto(OneProducer, "post")
     ELSE Goto(OneProducer, "eof") /\ UNCHANGED <<nread, nput>>
  /\ UNCHANGED <<args, semVars, nget, counts, output>>

\* A buffer with n = 0 ends the consumer, any other is written out.
CatWrite ==
  /\ pc[OneConsumer] = "copy"
  /\ IF buff[nget] = 0
     THEN Goto(OneConsumer, "done") /\ UNCHANGED <<nget, output>>
     ELSE /\ output' = Append(output, buff[nget])
          /\ nget' = Incremented(nget)
          /\ Goto(OneConsumer, "post")
  /\ UNCHANGED <<args, semVars, buff, nput, counts, nread>>

CatPost(t) ==
  /\ pc[t] = "post"
  /\ Sem_post(t, Gives(t))
  /\ Goto(t, "wait")
  /\ UNCHANGED <<args, shared, counts, nread, output>>

\* Mutant: the end of the file is not posted.
CatEofUnposted ==
  /\ pc[OneProducer] = "eof"
  /\ Goto(OneProducer, "eofposted")
  /\ UNCHANGED <<args, semVars, shared, counts, nread, output>>

CatEof ==
  /\ pc[OneProducer] = "eof"
  /\ Sem_post(OneProducer, "nstored")
  /\ Goto(OneProducer, "eofposted")
  /\ UNCHANGED <<args, shared, counts, nread, output>>

\* Mutant: the producer ends without the other Sem_post.
CatGiveBackNothing ==
  /\ pc[OneProducer] = "eofposted"
  /\ Goto(OneProducer, "done")
  /\ UNCHANGED <<args, semVars, shared, counts, nread, output>>

\* The other Sem_post at the end of the file
CatGiveBack ==
  /\ pc[OneProducer] = "eofposted"
  /\ Sem_post(OneProducer, "nempty")
  /\ Goto(OneProducer, "done")
  /\ UNCHANGED <<args, shared, counts, nread, output>>

CatStep(t) ==
  \/ CatWait(t) \/ CatUnlock(t) \/ CatPost(t)
  \/ t = OneProducer /\ (CatRead \/ CatEof \/ CatGiveBack)
  \/ t = OneConsumer /\ CatWrite

ThreadStep(t) ==
  \/ program.copies /\ CatStep(t)
  \/ ~program.copies /\ Step(t) /\ UNCHANGED <<nread, output>>

MainStep == StartConsumer /\ UNCHANGED <<nread, output>>

Next ==
  \/ MainStep
  \/ \E t \in Threads : ThreadStep(t)
  \/ (\E t \in Threads : Spurious(t)) /\ UNCHANGED <<nread, output>>

\* Every thread that can go on does.  Each item is waited for once, so that a
\* thread can lose a unit to another one only finitely often.
Spec ==
  /\ Init /\ [][Next]_vars
  /\ WF_vars(MainStep) /\ \A t \in Threads : WF_vars(ThreadStep(t))

-----------------------------------------------------------------------------
Cat == program.copies

File == [b \in 1..nitems |-> b]

\* The buffers are accessed without the mutex, but never the same one by both
\* threads.
BuffersApart ==
  Cat => ~(pc[OneProducer] = "copy" /\ pc[OneConsumer] = "copy" /\ nput = nget)

\* No slot is filled before it was emptied, and no buffer of mycat2 is in two hands.
SlotsApart == NoOverwrite /\ BuffersApart

\* The semaphores, whose values mycat2 and prodcons4 write out, are as they
\* began; in prodcons4 nstored keeps the post of every producer.
SemaphoresRestored ==
  sem_count = [Value(NBUFF) EXCEPT !["nstored"] =
                 IF program = prodcons4 THEN Cardinality(Producers) ELSE 0]

\* mycat2 ends with the whole file copied.
CopiesAll == Cat => <>(Ended /\ output = File)

\* How the programs end: prodcons2, 3 and 4 always, prodcons1 if the items fit
\* into the buffer, each with all items accounted for, mycat2 with the whole file
\* copied; deadlock ends or stops where it is said to; and whoever ends leaves the
\* semaphores as they began.
ProgramsEnd ==
  /\ Terminates /\ EndsOnlyIfItemsFit /\ StopsOnlyHoldingMutex /\ CopiesAll
  /\ <>[](Ended => SemaphoresRestored)
=============================================================================
