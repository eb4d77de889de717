------------------------------ MODULE MesgRing ------------------------------
(***************************************************************************)
(* client2 and server2 of pxshm: a ring of NMESG messages in shared memory. *)
(* A client that finds no empty slot does not wait, it counts an overflow.  *)
(* It claims its slot under the mutex and copies its message after it has   *)
(* released it.  The clients may start before the server has set up the     *)
(* shared memory.  A critical section is one step; semaphores are external. *)
(***************************************************************************)
EXTENDS Integers, Sequences, FiniteSets

CONSTANTS RingClients,
          NMESG,
          NLoop      \* the messages that a client stores

ASSUME RingAssumption == NMESG \in Nat \ {0} /\ NLoop \in Nat

VARIABLES rvariant,
          setup,       \* how far the server has come with the shared memory
          nempty, nstored, nput, noverflow, msgdata,
          rserver, index, lastnoverflow,
          rpc, i, slot,
          claims,      \* the messages in the order in which slots were claimed
          stored,      \* the claims whose messages were copied and posted
          printed,     \* what the server printed
          early,       \* a client used the shared memory before it was set up
          overtaken    \* a later claim was posted before an earlier one

ringVars == <<rvariant, setup, nempty, nstored, nput, noverflow, msgdata, rserver, index,
              lastnoverflow, rpc, i, slot, claims, stored, printed, early, overtaken>>

Torn == <<>>

\* The steps of the setup: no shared memory, an empty object, one of the right size with
\* all bytes 0, and then with mutex, nempty, nstored and noverflowmutex initialized.
SetupSteps == <<"none", "empty", "zero", "mutex", "nempty", "nstored", "ready">>

RingInit ==
  /\ rvariant \in {"client2", "idle"}
  /\ setup = "none"
  /\ nempty = 0 /\ nstored = 0 /\ nput = 0 /\ noverflow = 0
  /\ msgdata = [k \in 0..(NMESG - 1) |-> Torn]
  /\ rserver = IF rvariant = "idle" THEN "absent" ELSE "setup"
  /\ index = 0 /\ lastnoverflow = 0
  /\ rpc = [c \in RingClients |-> IF rvariant = "idle" THEN "absent" ELSE "start"]
  /\ i = [c \in RingClients |-> 0] /\ slot = [c \in RingClients |-> 0]
  /\ claims = <<>> /\ stored = {} /\ printed = <<>>
  /\ early = FALSE /\ overtaken = FALSE

RingGoto(c, label) == rpc' = [rpc EXCEPT ![c] = label]

RingStopped(c) == rpc[c] \in {"done", "quit", "sigbus", "absent"}

\* Mutant: the ring wraps one slot too late.
WrapLate(n) == IF n + 1 > NMESG THEN 0 ELSE n + 1

\* ++n of nput and of index in the circular buffer
Wrap(n) == IF n + 1 >= NMESG THEN 0 ELSE n + 1

\* The number of the claim of a client
ClaimOf(c) == CHOOSE k \in 1..Len(claims) : claims[k] = <<c, i[c]>>

-----------------------------------------------------------------------------
\* main of server2.c creates the object, gives it its size and initializes the semaphores.
ServerSetup ==
  /\ rserver = "setup"
  /\ \E k \in 1..6 :
       /\ setup = SetupSteps[k] /\ setup' = SetupSteps[k + 1]
       /\ nempty' = IF setup' = "nempty" THEN NMESG ELSE nempty
       /\ nstored' = IF setup' = "nstored" THEN 0 ELSE nstored
       /\ rserver' = IF setup' = "ready" THEN "wait" ELSE rserver
  /\ UNCHANGED <<rvariant, nput, noverflow, msgdata, index, lastnoverflow, rpc, i, slot,
                 claims, stored, printed, early, overtaken>>

ServerWaits ==
  /\ rserver = "wait" /\ nstored > 0
  /\ nstored' = nstored - 1 /\ rserver' = "print"
  /\ UNCHANGED <<rvariant, setup, nempty, nput, noverflow, msgdata, index, lastnoverflow, rpc, i,
                 slot, claims, stored, printed, early, overtaken>>

\* It prints the message at index with the mutex held.
ServerPrints ==
  /\ rserver = "print"
  /\ printed' = Append(printed, msgdata[index])
  /\ index' = Wrap(index) /\ rserver' = "post"
  /\ UNCHANGED <<rvariant, setup, nempty, nstored, nput, noverflow, msgdata, lastnoverflow, rpc, i,
                 slot, claims, stored, early, overtaken>>

ServerPosts ==
  /\ rserver = "post"
  /\ nempty' = nempty + 1 /\ rserver' = "look"
  /\ UNCHANGED <<rvariant, setup, nstored, nput, noverflow, msgdata, index, lastnoverflow, rpc, i,
                 slot, claims, stored, printed, early, overtaken>>

\* It reads the count of overflows, and prints it when it has changed.
ServerLooks ==
  /\ rserver = "look"
  /\ lastnoverflow' = noverflow /\ rserver' = "wait"
  /\ UNCHANGED <<rvariant, setup, nempty, nstored, nput, noverflow, msgdata, index, rpc, i, slot,
                 claims, stored, printed, early, overtaken>>

-----------------------------------------------------------------------------
\* main of client2.c maps the object that the server has made.
RingAttach(c) ==
  /\ rpc[c] = "start"
  /\ RingGoto(c, IF setup = "none" THEN "quit" ELSE IF NLoop = 0 THEN "done" ELSE "trywait")
  /\ UNCHANGED <<rvariant, setup, nempty, nstored, nput, noverflow, msgdata, rserver, index,
                 lastnoverflow, i, slot, claims, stored, printed, early, overtaken>>

\* sem_trywait of nempty; memory past the end of the object is a SIGBUS.
TryWait(c) ==
  /\ rpc[c] = "trywait"
  /\ early' = (early \/ setup # "ready")
  /\ \/ setup = "empty" /\ RingGoto(c, "sigbus") /\ UNCHANGED nempty
     \/ setup # "empty" /\ nempty > 0 /\ nempty' = nempty - 1 /\ RingGoto(c, "claim")
     \/ setup # "empty" /\ nempty = 0 /\ RingGoto(c, "overflow") /\ UNCHANGED nempty
  /\ UNCHANGED <<rvariant, setup, nstored, nput, noverflow, msgdata, rserver, index, lastnoverflow,
                 i, slot, claims, stored, printed, overtaken>>

NextMessage(c) ==
  /\ i' = [i EXCEPT ![c] = @ + 1]
  /\ RingGoto(c, IF i[c] + 1 < NLoop THEN "trywait" ELSE "done")

\* Mutant: a message without a slot is dropped and not counted.
OverflowDropped(c) ==
  /\ rpc[c] = "overflow" /\ setup = "ready" /\ NextMessage(c)
  /\ UNCHANGED <<rvariant, setup, nempty, nstored, nput, noverflow, msgdata, rserver, index,
                 lastnoverflow, slot, claims, stored, printed, early, overtaken>>

\* noverflow++ under noverflowmutex, which is 0 before its initialization (that a client
\* that waits meanwhile goes on is one of the possible outcomes; no property relies on it)
Overflow(c) ==
  /\ rpc[c] = "overflow" /\ setup = "ready"
  /\ noverflow' = noverflow + 1 /\ NextMessage(c)
  /\ UNCHANGED <<rvariant, setup, nempty, nstored, nput, msgdata, rserver, index, lastnoverflow,
                 slot, claims, stored, printed, early, overtaken>>

\* Mutant: the next slot is read but not advanced under the mutex.
ClaimStays(c) ==
  /\ rpc[c] = "claim"
  /\ slot' = [slot EXCEPT ![c] = nput]
  /\ claims' = Append(claims, <<c, i[c]>>)
  /\ RingGoto(c, "copy")
  /\ UNCHANGED <<rvariant, setup, nempty, nstored, nput, noverflow, msgdata, rserver, index,
                 lastnoverflow, i, stored, printed, early, overtaken>>

\* The claim of a slot, under the mutex
Claim(c) ==
  /\ rpc[c] = "claim"
  /\ slot' = [slot EXCEPT ![c] = nput] /\ nput' = Wrap(nput)
  /\ claims' = Append(claims, <<c, i[c]>>)
  /\ RingGoto(c, "copy")
  /\ UNCHANGED <<rvariant, setup, nempty, nstored, noverflow, msgdata, rserver, index,
                 lastnoverflow, i, stored, printed, early, overtaken>>

\* strcpy starts; two clients that copy to one slot mix their messages.
Copying(k) == {d \in RingClients : rpc[d] \in {"copying", "mixing"} /\ slot[d] = k}

CopyStart(c) ==
  /\ rpc[c] = "copy"
  /\ msgdata' = [msgdata EXCEPT ![slot[c]] = Torn]
  /\ LET all == Copying(slot[c]) \union {c}
     IN rpc' = [d \in RingClients |->
                  IF d \notin all THEN rpc[d] ELSE IF all = {c} THEN "copying" ELSE "mixing"]
  /\ UNCHANGED <<rvariant, setup, nempty, nstored, nput, noverflow, rserver, index, lastnoverflow,
                 i, slot, claims, stored, printed, early, overtaken>>

CopyEnd(c) ==
  /\ rpc[c] \in {"copying", "mixing"}
  /\ \E m \in {<<c, i[c]>>} \union (IF rpc[c] = "mixing" THEN {Torn} ELSE {}) :
       msgdata' = [msgdata EXCEPT ![slot[c]] = m]
  /\ RingGoto(c, "post")
  /\ UNCHANGED <<rvariant, setup, nempty, nstored, nput, noverflow, rserver, index, lastnoverflow,
                 i, slot, claims, stored, printed, early, overtaken>>

\* Mutant: a client also gives back the empty slot that it has just filled.
StorePostTwice(c) ==
  /\ rpc[c] = "post"
  /\ nstored' = nstored + 1 /\ nempty' = nempty + 1 /\ NextMessage(c)
  /\ stored' = stored \union {ClaimOf(c)}
  /\ overtaken' = (overtaken \/ \E k \in 1..(ClaimOf(c) - 1) : k \notin stored)
  /\ UNCHANGED <<rvariant, setup, nput, noverflow, msgdata, rserver, index, lastnoverflow,
                 slot, claims, printed, early>>

\* sem_post of nstored
StorePost(c) ==
  /\ rpc[c] = "post"
  /\ nstored' = nstored + 1 /\ NextMessage(c)
  /\ stored' = stored \union {ClaimOf(c)}
  /\ overtaken' = (overtaken \/ \E k \in 1..(ClaimOf(c) - 1) : k \notin stored)
  /\ UNCHANGED <<rvariant, setup, nempty, nput, noverflow, msgdata, rserver, index, lastnoverflow,
                 slot, claims, printed, early>>

RingServer == ServerSetup \/ ServerWaits \/ ServerPrints \/ ServerPosts \/ ServerLooks

RingClient(c) ==
  \/ RingAttach(c) \/ TryWait(c) \/ Overflow(c) \/ Claim(c) \/ CopyStart(c) \/ CopyEnd(c)
  \/ StorePost(c)

RingNext == RingServer \/ \E c \in RingClients : RingClient(c)

RingFairness == WF_ringVars(RingServer) /\ \A c \in RingClients : WF_ringVars(RingClient(c))

-----------------------------------------------------------------------------
RingTypeOK ==
  /\ rvariant \in {"client2", "idle"} /\ \E k \in 1..7 : setup = SetupSteps[k]
  /\ nempty \in 0..NMESG /\ nstored \in Nat /\ noverflow \in Nat
  /\ nput \in 0..(NMESG - 1) /\ index \in 0..(NMESG - 1) /\ lastnoverflow \in 0..noverflow
  /\ DOMAIN msgdata = 0..(NMESG - 1)
  /\ rserver \in {"absent", "setup", "wait", "print", "post", "look"}
  /\ rpc \in [RingClients -> {"absent", "start", "trywait", "overflow", "claim", "copy", "copying",
                              "mixing", "post", "done", "quit", "sigbus"}]
  /\ i \in [RingClients -> 0..NLoop] /\ slot \in [RingClients -> 0..(NMESG - 1)]
  /\ stored \subseteq 1..Len(claims) /\ early \in BOOLEAN /\ overtaken \in BOOLEAN

\* Each slot is counted once: it is empty, stored, in the hands of one client between
\* sem_trywait and sem_post, or in those of the server between sem_wait and sem_post.
SlotsAccounted ==
  setup = "ready" /\ ~early =>
    nempty + nstored + Cardinality({c \in RingClients : rpc[c] \in {"claim", "copy", "copying", "mixing", "post"}})
      + (IF rserver \in {"print", "post"} THEN 1 ELSE 0) = NMESG

\* While no client is overtaken between its claim and its sem_post, the server prints the
\* messages whole, in the order of the claims, and two clients never share a slot.  An
\* overtaken client breaks it: the strcpy is not under the mutex, and nstored counts
\* messages, not slots.
RingOrder ==
  ~early /\ ~overtaken =>
    /\ printed = SubSeq(claims, 1, Len(printed))
    /\ \A c \in RingClients : rpc[c] # "mixing"

\* Every message is stored and printed or counted as an overflow: if no client came too
\* early, all clients end, and the lines that the server prints, some of them perhaps not
\* the right ones, and the overflows are together the messages of the clients that ran.
RingDrained ==
  rvariant = "client2" =>
    \/ early
    \/ /\ \A c \in RingClients : RingStopped(c)
       /\ Len(printed) + noverflow = NLoop * Cardinality({c \in RingClients : rpc[c] = "done"})
=============================================================================
