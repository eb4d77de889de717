------------------------------- MODULE SunRpc -------------------------------
(***************************************************************************)
(* The Sun RPC programs square1 to square10, and lat_sunrpc and bw_sunrpc   *)
(* of bench: clients that call a procedure of a server over TCP or UDP.     *)
(* With UDP requests and replies may be lost and the client library repeats *)
(* a request; a call that takes too long fails.  The stubs and the library  *)
(* are external.  A program is                                             *)
(*   proc    the steps of the server procedure                             *)
(*   mt      a thread per request (rpcgen -M -A), else one for all          *)
(*   static  the result is a static variable, else the caller's             *)
(*   protos  the protocols it can be run with                              *)
(*   calls   what each call multiplies the client's argument by, 0 for      *)
(*           NULLPROC                                                      *)
(*   alarm   SIGALRM may kill the client                                    *)
(***************************************************************************)
EXTENDS Naturals, FiniteSets, SequencesExt

CONSTANTS RClients,       \* numbers: a client is the argument it is called with
          NThreads,       \* bound: threads of a server with -M -A
          MaxSends        \* transmissions of a request over UDP until the call times out

ASSUME SunRpcAssumption == RClients \subseteq Nat \ {0} /\ NThreads \in Nat \ {0} /\ MaxSends \in Nat \ {0}

Program(proc) ==
  [proc |-> proc, mt |-> FALSE, static |-> TRUE, protos |-> {"tcp"}, calls |-> <<1>>, alarm |-> FALSE]

Both == {"tcp", "udp"}

\* The server procedure of each program
squareproc_1 == <<"compute">>
squareproc_2 == <<"sleep", "compute">>
squareproc_3 == <<"sleep", "compute">>
squareproc_4 == <<"sleep", "compute">>
squareproc_5 == <<"forever", "compute">>
squareproc_6 == <<"compute", "abort">>
squareproc_7 == <<"compute", "exit">>
squareproc_8 == <<"compute", "sleep">>
squareproc_9 == <<"compute">>
squareproc_10 == <<"compute">>
lat_sunrpc_1 == <<"compute">>
bw_sunrpc_1 == <<>>

\* The programs
square1 == Program(squareproc_1)
square2 == Program(squareproc_2)

\* Mutant: the procedure with threads keeps its static result.
square3Static == [Program(squareproc_3) EXCEPT !.mt = TRUE]

square3 == [Program(squareproc_3) EXCEPT !.mt = TRUE, !.static = FALSE]
square4 == [Program(squareproc_4) EXCEPT !.mt = TRUE, !.static = FALSE]
square5 == [Program(squareproc_5) EXCEPT !.protos = Both]
square6 == [Program(squareproc_6) EXCEPT !.protos = Both]
square7 == [Program(squareproc_7) EXCEPT !.mt = TRUE, !.static = FALSE, !.protos = Both]
square8 == [Program(squareproc_8) EXCEPT !.protos = Both, !.alarm = TRUE]

\* square9 destroys its handle and pauses when it is done.
square9 == [Program(squareproc_9) EXCEPT !.calls = <<1, 2>>]
square10 == [Program(squareproc_10) EXCEPT !.protos = Both, !.calls = <<0>>]
lat_sunrpc == [Program(lat_sunrpc_1) EXCEPT !.protos = Both, !.calls = <<0, 0>>]

\* The client counts ntowrite down by xfersize: two calls for more than xfersize bytes and
\* not more than twice as many.  The result is void.
bw_sunrpc == [Program(bw_sunrpc_1) EXCEPT !.protos = Both, !.calls = <<1, 1>>]

RpcPrograms ==
  {square1, square2, square3, square4, square5, square6, square7, square8, square9, square10,
   lat_sunrpc, bw_sunrpc}

VARIABLES rprog, rproto,   \* the program, and the protocol of its clients, or idle
          rpcserver,       \* "down", "up" or "dead"
          rstatic,         \* the static variable out
          rthread, rclient,
          rrequests,       \* of each client, the transmissions under way: the number of the call
          rreplies         \* of each client: the number of the call and the result

rpcVars == <<rprog, rproto, rpcserver, rstatic, rthread, rclient, rrequests, rreplies>>

RThreads == IF rprog.mt THEN 1..NThreads ELSE {1}
RIdle == [client |-> 0, call |-> 0, step |-> 0, out |-> 0]

\* The argument of call k; 0 stands for the argument of NULLPROC, which is void.
In(c, k) == c * rprog.calls[k]

RpcInit ==
  /\ \/ rproto = "idle" /\ rprog = square1
     \/ rprog \in RpcPrograms /\ rproto \in rprog.protos
  /\ rpcserver = "down" /\ rstatic = 0
  /\ rthread = [t \in 1..NThreads |-> RIdle]
  /\ rclient = [c \in RClients |-> [pc |-> IF rproto = "idle" THEN "done" ELSE "start", call |-> 1,
                                    sends |-> 0, runs |-> 0, shown |-> <<>>, why |-> "none"]]
  /\ rrequests = [c \in RClients |-> <<>>] /\ rreplies = [c \in RClients |-> {}]

Ends(c, why) == [rclient EXCEPT ![c].pc = "failed", ![c].why = why]

-----------------------------------------------------------------------------
\* The server registers with rpcbind and waits for requests.
RpcServerStart ==
  /\ rpcserver = "down" /\ rproto # "idle" /\ rpcserver' = "up"
  /\ UNCHANGED <<rprog, rproto, rstatic, rthread, rclient, rrequests, rreplies>>

\* Clnt_create ends the client if the server is not registered; with TCP it connects.
Clnt_create(c) ==
  /\ rclient[c].pc = "start"
  /\ \/ rpcserver = "up" /\ rclient' = [rclient EXCEPT ![c].pc = "call"]
     \/ rpcserver = "dead" /\ rproto = "udp" /\ rclient' = [rclient EXCEPT ![c].pc = "call"]
     \/ rpcserver # "up" /\ rclient' = Ends(c, "create")
  /\ UNCHANGED <<rprog, rproto, rpcserver, rstatic, rthread, rrequests, rreplies>>

Transmit(c) == rrequests' = [rrequests EXCEPT ![c] = Append(@, rclient[c].call)]

\* The stub squareproc_1, or clnt_call: the request is sent.  The other end of the
\* connection may be gone already.
Squareproc(c) ==
  /\ rclient[c].pc = "call"
  /\ IF rproto = "tcp" /\ rpcserver = "dead" THEN rclient' = Ends(c, "reset") /\ UNCHANGED rrequests
     ELSE Transmit(c) /\ rclient' = [rclient EXCEPT ![c].pc = "wait", ![c].sends = 1, ![c].runs = 0]
  /\ UNCHANGED <<rprog, rproto, rpcserver, rstatic, rthread, rreplies>>

\* The retry timeout of UDP (CLGET_RETRY_TIMEOUT)
Retransmit(c) ==
  /\ rproto = "udp" /\ rclient[c].pc = "wait" /\ rclient[c].sends < MaxSends
  /\ Transmit(c) /\ rclient' = [rclient EXCEPT ![c].sends = @ + 1]
  /\ UNCHANGED <<rprog, rproto, rpcserver, rstatic, rthread, rreplies>>

\* The timeout of the call (CLGET_TIMEOUT): the stub returns NULL and the client ends.
RpcTimeout(c) ==
  /\ rclient[c].pc = "wait" /\ (rproto = "udp" => rclient[c].sends = MaxSends)
  /\ rclient' = Ends(c, "timeout")
  /\ UNCHANGED <<rprog, rproto, rpcserver, rstatic, rthread, rrequests, rreplies>>

\* Mutant: any reply answers the call.
RpcReceiveAny(c) ==
  /\ rclient[c].pc = "wait"
  /\ \E r \in rreplies[c] :
       /\ rreplies' = [rreplies EXCEPT ![c] = @ \ {r}]
       /\ rclient' = [rclient EXCEPT ![c] =
             [@ EXCEPT !.shown = Append(@, r), !.call = @ + 1,
                       !.pc = IF rclient[c].call = Len(rprog.calls) THEN "done" ELSE "call"]]
  /\ UNCHANGED <<rprog, rproto, rpcserver, rstatic, rthread, rrequests>>

\* A reply to the call is printed; a late reply to an earlier one is dropped.
RpcReceive(c) ==
  /\ rclient[c].pc = "wait"
  /\ \E r \in rreplies[c] :
       /\ rreplies' = [rreplies EXCEPT ![c] = @ \ {r}]
       /\ rclient' = IF r.call # rclient[c].call THEN rclient ELSE [rclient EXCEPT ![c] =
             [@ EXCEPT !.shown = Append(@, r), !.call = @ + 1,
                       !.pc = IF rclient[c].call = Len(rprog.calls) THEN "done" ELSE "call"]]
  /\ UNCHANGED <<rprog, rproto, rpcserver, rstatic, rthread, rrequests>>

\* The alarm of square8
RpcAlarm(c) ==
  /\ rprog.alarm /\ rclient[c].pc \in {"call", "wait"}
  /\ rclient' = [rclient EXCEPT ![c].pc = "killed"]
  /\ UNCHANGED <<rprog, rproto, rpcserver, rstatic, rthread, rrequests, rreplies>>

\* A datagram is lost.
Lose(c) ==
  /\ rproto = "udp"
  /\ \/ \E i \in 1..Len(rrequests[c]) : rrequests' = [rrequests EXCEPT ![c] = RemoveAt(@, i)] /\ UNCHANGED rreplies
     \/ \E r \in rreplies[c] : rreplies' = [rreplies EXCEPT ![c] = @ \ {r}] /\ UNCHANGED rrequests
  /\ UNCHANGED <<rprog, rproto, rpcserver, rstatic, rthread, rclient>>

-----------------------------------------------------------------------------
\* A request arrives and a thread of the server that has nothing to do works on it.
Dispatch(t, c) ==
  /\ rpcserver = "up" /\ t \in RThreads /\ rthread[t] = RIdle
  /\ \E i \in 1..Len(rrequests[c]) :
       /\ rproto = "tcp" => i = 1
       /\ rrequests' = [rrequests EXCEPT ![c] = RemoveAt(@, i)]
       /\ rthread' = [rthread EXCEPT ![t] = [RIdle EXCEPT !.client = c, !.call = rrequests[c][i]]]
       /\ rclient' = IF rrequests[c][i] = rclient[c].call THEN [rclient EXCEPT ![c].runs = @ + 1] ELSE rclient
  /\ UNCHANGED <<rprog, rproto, rpcserver, rstatic, rreplies>>

\* NULLPROC is answered without a call of the procedure.
Proc(t) == IF In(rthread[t].client, rthread[t].call) = 0 THEN <<>> ELSE rprog.proc

AtStep(t, step) ==
  /\ rpcserver = "up" /\ rthread[t] # RIdle /\ rthread[t].step < Len(Proc(t))
  /\ Proc(t)[rthread[t].step + 1] = step

\* The square, in the static variable or in the caller's
squareproc_svc(t) ==
  /\ AtStep(t, "compute")
  /\ LET arg == In(rthread[t].client, rthread[t].call)
     IN /\ rstatic' = IF rprog.static THEN arg * arg ELSE rstatic
        /\ rthread' = [rthread EXCEPT ![t].step = @ + 1, ![t].out = IF rprog.static THEN 0 ELSE arg * arg]
  /\ UNCHANGED <<rprog, rproto, rpcserver, rclient, rrequests, rreplies>>

Sleep(t) ==
  /\ AtStep(t, "sleep") /\ rthread' = [rthread EXCEPT ![t].step = @ + 1]
  /\ UNCHANGED <<rprog, rproto, rpcserver, rstatic, rclient, rrequests, rreplies>>

\* abort in the procedure: the server is gone, and its connections.
RpcAbort(t) ==
  /\ AtStep(t, "abort") /\ rpcserver' = "dead"
  /\ rthread' = [x \in 1..NThreads |-> RIdle] /\ rrequests' = [c \in RClients |-> <<>>]
  /\ rclient' = [c \in RClients |-> IF rproto = "tcp" /\ rclient[c].pc = "wait" THEN Ends(c, "reset")[c]
                                    ELSE rclient[c]]
  /\ UNCHANGED <<rprog, rproto, rstatic, rreplies>>

\* pthread_exit in the procedure: there is no reply, the next request gets a new thread.
RpcThreadExit(t) ==
  /\ AtStep(t, "exit") /\ rthread' = [rthread EXCEPT ![t] = RIdle]
  /\ UNCHANGED <<rprog, rproto, rpcserver, rstatic, rclient, rrequests, rreplies>>

Out(t) == IF Proc(t) = <<>> THEN 0 ELSE IF rprog.static THEN rstatic ELSE rthread[t].out

\* The procedure returns and its result is sent; with threads freeresult is called then.
RpcReturn(t) ==
  /\ rpcserver = "up" /\ rthread[t] # RIdle /\ rthread[t].step = Len(Proc(t))
  /\ rreplies' = [rreplies EXCEPT ![rthread[t].client] =
                    IF rclient[rthread[t].client].pc = "wait"
                    THEN @ \union {[call |-> rthread[t].call, out |-> Out(t)]} ELSE @]
  /\ rthread' = [rthread EXCEPT ![t] = RIdle]
  /\ UNCHANGED <<rprog, rproto, rpcserver, rstatic, rclient, rrequests>>

RpcThread(t) ==
  \/ squareproc_svc(t) \/ Sleep(t) \/ RpcAbort(t) \/ RpcThreadExit(t) \/ RpcReturn(t)
  \/ \E c \in RClients : Dispatch(t, c)

RpcClient(c) == Clnt_create(c) \/ Squareproc(c) \/ RpcReceive(c) \/ RpcTimeout(c) \/ Retransmit(c)

RpcNext ==
  \/ RpcServerStart
  \/ \E t \in 1..NThreads : RpcThread(t)
  \/ \E c \in RClients : RpcClient(c) \/ RpcAlarm(c) \/ Lose(c)

RpcFairness ==
  /\ WF_rpcVars(RpcServerStart) /\ \A t \in 1..NThreads : WF_rpcVars(RpcThread(t))
  /\ \A c \in RClients : WF_rpcVars(RpcClient(c))

-----------------------------------------------------------------------------
RpcTypeOK ==
  /\ rprog \in RpcPrograms /\ rproto \in Both \union {"idle"} /\ rpcserver \in {"down", "up", "dead"}
  /\ rstatic \in Nat
  /\ \A t \in 1..NThreads : rthread[t].client \in RClients \union {0} /\ rthread[t].out \in Nat
  /\ \A c \in RClients :
       /\ rclient[c].pc \in {"start", "call", "wait", "done", "failed", "killed"}
       /\ rclient[c].sends \in 0..MaxSends
       /\ \A i \in 1..Len(rrequests[c]) : rrequests[c][i] \in 1..Len(rprog.calls)

Expected(c, k) == IF rprog.proc = <<>> THEN 0 ELSE In(c, k) * In(c, k)

\* A client prints the squares of its own arguments, in the order of its calls, although
\* the server keeps its result in one static variable and late replies arrive.  A
\* connection breaks only if the server is gone.
RpcAnswers ==
  \A c \in RClients :
    /\ rclient[c].shown = [k \in 1..(rclient[c].call - 1) |-> [call |-> k, out |-> Expected(c, k)]]
    /\ rclient[c].why = "reset" => rproto = "tcp" /\ rpcserver = "dead"

\* Over TCP a call runs the procedure at most once, over UDP at most as often as the request
\* was sent, and never without a request.
RpcRuns ==
  \A c \in RClients :
    /\ rclient[c].runs <= rclient[c].sends
    /\ rproto = "tcp" => rclient[c].runs <= 1

\* Every client ends, whether or not the server ever answers.
RpcClientsEnded == \A c \in RClients : rclient[c].pc \in {"done", "failed", "killed"}
=============================================================================
