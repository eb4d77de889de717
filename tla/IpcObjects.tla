----------------------------- MODULE IpcObjects -----------------------------
(***************************************************************************)
(* Programs that share a lock or an IPC object: the workers that count under *)
(* a lock, the programs with record locks, the semaphores that mysem_open    *)
(* creates, the commands on queues, semaphores and shared memory, the        *)
(* programs that look for the limits of the system, and the test of the      *)
(* message queues.  A behaviour is one of a single family; the others are    *)
(* idle.                                                                     *)
(***************************************************************************)
EXTENDS Counters, RecordLocks, SemOpen, IpcTools, Limits, MqTest

objectVars == <<counterVars, rlVars, soVars, toolVars, limVars, testVars>>

\* The families that are not idle
Busy == {f \in {"counters", "locks", "open", "tools", "limits", "testmq"} :
  CASE f = "counters" -> program # NoProgram [] f = "locks" -> rprog # NoScript
    [] f = "open" -> okind # "none" [] f = "tools" -> kkind # "none"
    [] f = "limits" -> mprog # "none" [] f = "testmq" -> tprog # "none"}

Init ==
  /\ CountersInit /\ RlInit /\ (program = NoProgram \/ rprog = NoScript)
  /\ SoInit /\ ToolsInit /\ (okind = "none" \/ kkind = "none")
  /\ LimInit /\ TestInit /\ (mprog = "none" \/ tprog = "none") /\ Cardinality(Busy) = 1

Next ==
  \/ CountersNext /\ UNCHANGED <<rlVars, soVars, toolVars, limVars, testVars>>
  \/ RlNext /\ UNCHANGED <<counterVars, soVars, toolVars, limVars, testVars>>
  \/ SoNext /\ UNCHANGED <<counterVars, rlVars, toolVars, limVars, testVars>>
  \/ ToolsNext /\ UNCHANGED <<counterVars, rlVars, soVars, limVars, testVars>>
  \/ LimNext /\ UNCHANGED <<counterVars, rlVars, soVars, toolVars, testVars>>
  \/ TestNext /\ UNCHANGED <<counterVars, rlVars, soVars, toolVars, limVars>>

Spec ==
  /\ Init /\ [][Next]_objectVars
  /\ CountersFairness /\ RlFairness /\ SoFairness /\ ToolsFairness /\ LimFairness
  /\ TestFairness

\* The locks of the tests and of the daemon are granted and refused as the programs say,
\* and locksvsemrace1 counts every conflict.
LocksSound == LocksHonoured /\ ConflictsCounted

\* A semaphore that mysem_open returned has its value, and nobody removes it but its
\* owner, or an opener that waited too long.
OpenSound == SemOpenSound /\ RemovedByOwner

\* The commands neither lose nor invent messages, units or bytes, the programs that look
\* for limits find them and remove what they created, and the test of the message queues
\* finds what it expects.
ObjectsConserve ==
  /\ ToolsConserve /\ PatternSeen
  /\ LimTypeOK /\ LimitsCleanUp /\ LimitsFound
  /\ TestPasses

\* Every program comes to its end, or waits for what its module names: a lock that is
\* lost, the daemon's signal, a limit that is never found.
ObjectsEnd ==
  <>[](/\ WorkersEnded /\ LockersEnded /\ OpensReturned /\ RemovalWoke /\ LimitsEnded
       /\ TestEnded)
=============================================================================
