---------------------------- MODULE PriorityQueue ----------------------------
(***************************************************************************)
(* What a Posix message queue promises: it holds at most MaxMsg messages,   *)
(* and a receive returns the oldest message of the highest priority.  A     *)
(* message is a pair of its priority and its number in the order of         *)
(* arrival.                                                                 *)
(***************************************************************************)
EXTENDS Naturals, FiniteSets

CONSTANTS MaxMsg, Prios

VARIABLES msgs,   \* the messages on the queue
          nsent,  \* how many messages were sent so far
          got     \* the message that was received last

pqvars == <<msgs, nsent, got>>

PQInit == msgs = {} /\ nsent = 0 /\ got = <<0, 0>>

Best(m) ==
  /\ m \in msgs
  /\ \A o \in msgs \ {m} : o[1] < m[1] \/ (o[1] = m[1] /\ o[2] > m[2])

PQSend ==
  /\ Cardinality(msgs) < MaxMsg
  /\ \E p \in Prios : msgs' = msgs \cup {<<p, nsent + 1>>}
  /\ nsent' = nsent + 1
  /\ UNCHANGED got

PQReceive ==
  /\ got' \in msgs
  /\ Best(got')
  /\ msgs' = msgs \ {got'}
  /\ UNCHANGED nsent

PQSpec == PQInit /\ [][PQSend \/ PQReceive]_pqvars
=============================================================================
