---------------------------- MODULE RemoteCalls ----------------------------
(***************************************************************************)
(* Remote procedure calls, and programs that measure them and other means   *)
(* of communication: doors, Sun RPC and the programs of bench.  A behaviour *)
(* is one of a single family of programs; the others are idle.              *)
(***************************************************************************)
EXTENDS Doors, SunRpc, Bench

remoteVars == <<doorVars, rpcVars, benchVars>>

Remote == (IF dprog = DoorIdle THEN 0 ELSE 1) + (IF rproto = "idle" THEN 0 ELSE 1)
            + (IF bprog.chan = "idle" THEN 0 ELSE 1)

RemoteInit ==
  /\ DoorInit /\ RpcInit /\ (dprog = DoorIdle \/ rproto = "idle")
  /\ BenchInit /\ Remote <= 1

RemoteNext ==
  \/ DoorNext /\ UNCHANGED <<rpcVars, benchVars>>
  \/ RpcNext /\ UNCHANGED <<doorVars, benchVars>>
  \/ BenchNext /\ UNCHANGED <<doorVars, rpcVars>>

RemoteFairness == DoorFairness /\ RpcFairness /\ BenchFairness

\* Every caller gets the results of its own calls, by doors and by Sun RPC, in the order
\* of the calls; and the variables have their types.
ResultsOwn == DoorTypeOK /\ RpcTypeOK /\ BenchTypeOK /\ DoorAnswers /\ RpcAnswers

\* How often a server procedure runs for one call: at most once with doors and over TCP;
\* more often only if the client repeats the call after a signal, or the library the
\* request over UDP.
RunsBounded == DoorRunsOnce /\ RpcRuns

\* Every client and every benchmark came to its end, and no thread stays in a door.
CallsEnded == DoorsEnded /\ RpcClientsEnded /\ BenchEnded
=============================================================================
