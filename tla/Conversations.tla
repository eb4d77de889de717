---------------------------- MODULE Conversations ----------------------------
(***************************************************************************)
(* Processes that talk to each other: clients and servers, remote procedure *)
(* calls and benchmarks, signals and what they interrupt.  A behaviour is   *)
(* one of a single family of programs; the others are idle.                 *)
(***************************************************************************)
EXTENDS ClientServers, RemoteCalls, Signalling

Init ==
  \/ RemoteInit /\ Remote = 0 /\ SignalInit /\ Signalled = 0 /\ ServersInit /\ Served = 1
  \/ ServersInit /\ Served = 0 /\ SignalInit /\ Signalled = 0 /\ RemoteInit /\ Remote = 1
  \/ ServersInit /\ Served = 0 /\ RemoteInit /\ Remote = 0 /\ SignalInit /\ Signalled = 1

Next ==
  \/ ServersNext /\ UNCHANGED <<remoteVars, signalVars>>
  \/ RemoteNext /\ UNCHANGED <<serverVars, signalVars>>
  \/ SignalNext /\ UNCHANGED <<serverVars, remoteVars>>

Spec ==
  /\ Init /\ [][Next]_<<serverVars, remoteVars, signalVars>>
  /\ ServersFairness /\ RemoteFairness /\ SignalFairness

\* Every client, caller, benchmark and process that waits for a signal comes to its end,
\* or stops for a reason that its module names.
EveryoneEnds == <>[](ServersEnded /\ CallsEnded /\ SignalsServed)
=============================================================================
