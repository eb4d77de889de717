----------------------------- MODULE Signalling -----------------------------
(***************************************************************************)
(* Programs and functions that signals drive or interrupt: the notification *)
(* of messages, signals between parent and child, the library functions     *)
(* that repeat system calls.  A behaviour is one of a single family; the    *)
(* others are idle.                                                         *)
(***************************************************************************)
EXTENDS Notification, RtSignals, LibCalls

Signalled == (IF nprog = NotIdle THEN 0 ELSE 1) + (IF lprog = NoCall THEN 0 ELSE 1)
               + (IF stest = NoTest /\ sping = "idle" THEN 0 ELSE 1)

SignalInit ==
  /\ NotInit /\ RtInit /\ (nprog = NotIdle \/ (stest = NoTest /\ sping = "idle"))
  /\ LibInit /\ Signalled <= 1

SignalNext ==
  \/ NotNext /\ UNCHANGED <<rtVars, libVars>>
  \/ RtNext /\ UNCHANGED <<notVars, libVars>>
  \/ LibNext /\ UNCHANGED <<notVars, rtVars>>

signalVars == <<notVars, rtVars, libVars>>

SignalFairness == NotFairness /\ RtFairness /\ LibFairness

\* No notification and no realtime signal is lost or reordered, and parent and child take
\* turns; the variables have their types.
SignalsKept == NotTypeOK /\ RtTypeOK /\ LibTypeOK /\ OneNotification /\ SignalsInOrder /\ PingPong

\* Interrupted system calls do not change what the library functions return.
CallsRepeated == StreamExact /\ SleepsLongEnough

\* The messages were received, parent and child ended, and the library functions returned.
SignalsServed == AllNoticed /\ SignalsEnded /\ LibCallsReturned
=============================================================================
