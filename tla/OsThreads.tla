----------------------------- MODULE OsThreads -----------------------------
(***************************************************************************)
(* The programs of the directory mutex whose threads run for ever:          *)
(*   os_prodcons8  producers write "(" and consumers ")", polling           *)
(*   os_cv_if      the same with one condition variable, if and cond_signal *)
(*                 (the file calls itself a wrong example)                  *)
(*   os_cv_while   the same with while and cond_broadcast                   *)
(*   os_fish       threads with a character each write fishes: <><_ or ><>_ *)
(*                                                                         *)
(* A critical section is one step; putchar of os_fish is outside of it.  A  *)
(* thread whose poll fails goes to retry with nothing changed.              *)
(***************************************************************************)
EXTENDS Integers, Sequences

CONSTANTS MaxN,       \* bound: the argument n
          MaxT,       \* bound: the argument T, the number of producers and of consumers
          FishRoles   \* the string roles from index 1 on, with fewer threads of each kind

ASSUME OsThreadsAssumption == MaxN \in Nat \ {0} /\ MaxT \in Nat \ {0}

Bigger(a, b) == IF a > b THEN a ELSE b

OsIds == 1..Bigger(2 * MaxT, Len(FishRoles))

VARIABLES os_program, n, T,
          os_count,             \* count
          current, quota,
          printed,              \* what os_fish wrote since the last "_"
          at,                   \* where a thread is
          spurious              \* history: some wait ended without a signal

osArgs == <<os_program, n, T>>
osVars == <<osArgs, os_count, current, quota, printed, at, spurious>>

ParenPrograms == {"os_prodcons8", "os_cv_if", "os_cv_while"}

\* create numbers the threads from 1 on, and the programs create a producer and a
\* consumer in turn.
Role(t) == IF os_program = "os_fish" THEN (IF t <= Len(FishRoles) THEN FishRoles[t] ELSE "absent")
           ELSE IF t > 2 * T THEN "absent" ELSE IF t % 2 = 1 THEN "(" ELSE ")"

OsInit ==
  /\ os_program \in ParenPrograms \union {"os_fish"}
  /\ n \in 1..MaxN /\ T \in 1..MaxT
  /\ os_program = "os_fish" => n = 1 /\ T = 1      \* it has no arguments
  /\ os_count = 0
  /\ current = "A" /\ quota = 1 /\ printed = <<>>
  /\ at = [t \in OsIds |-> "before"]
  /\ spurious = FALSE

-----------------------------------------------------------------------------
Asleep == {t \in OsIds : at[t] = "asleep"}

\* Mutant: os_cv_while has an if, too.
AfterWaitUntested == IF os_program = "os_fish" THEN "before" ELSE "woken"

\* A thread that is woken in os_cv_if does not test its condition again.
AfterWait == IF os_program = "os_cv_if" THEN "woken" ELSE "before"

\* Where the threads are when t is at label and the threads of W are woken
Woken(t, label, W) == [u \in OsIds |-> IF u = t THEN label ELSE IF u \in W THEN AfterWait ELSE at[u]]

\* Mutant: os_cv_while signals one thread only.
WakesOne == IF Asleep = {} THEN {{}} ELSE {{t} : t \in Asleep}

\* cond_signal of os_cv_if and cond_broadcast of os_cv_while
Wakes == IF os_program = "os_cv_if" /\ Asleep # {} THEN {{t} : t \in Asleep} ELSE {Asleep}

CAN_PRODUCE == os_count < n

CAN_CONSUME == os_count > 0

CanGo(t) == IF Role(t) = "(" THEN CAN_PRODUCE ELSE CAN_CONSUME

\* Once count is out of its range the programs are not followed further.
InRange == os_count \in 0..n

WriteParen(t) ==
  /\ os_count' = IF Role(t) = "(" THEN os_count + 1 ELSE os_count - 1
  /\ \E W \in Wakes : at' = Woken(t, "before", W)
  /\ UNCHANGED <<osArgs, current, quota, printed, spurious>>

Paren(t) ==
  /\ os_program \in ParenPrograms /\ Role(t) \in {"(", ")"} /\ InRange
  /\ at[t] = "before" /\ CanGo(t)
  /\ WriteParen(t)

ParenWait(t) ==
  /\ os_program \in {"os_cv_if", "os_cv_while"} /\ Role(t) \in {"(", ")"} /\ InRange
  /\ at[t] = "before" /\ ~CanGo(t)
  /\ at' = [at EXCEPT ![t] = "asleep"]
  /\ UNCHANGED <<osArgs, os_count, current, quota, printed, spurious>>

\* os_cv_if, after the wait
ParenUntested(t) ==
  /\ at[t] = "woken" /\ InRange
  /\ WriteParen(t)

-----------------------------------------------------------------------------
\* Mutant: the rule from F is missing its way back.
rulesWrong ==
  {<<"A", "<", "B">>, <<"B", ">", "C">>, <<"C", "<", "D">>, <<"A", ">", "E">>,
   <<"E", "<", "F">>, <<"F", ">", "E">>, <<"D", "_", "A">>}

rules ==
  {<<"A", "<", "B">>, <<"B", ">", "C">>, <<"C", "<", "D">>, <<"A", ">", "E">>,
   <<"E", "<", "F">>, <<"F", ">", "D">>, <<"D", "_", "A">>}

None == "0"

next(ch) == IF \E r \in rules : r[1] = current /\ r[2] = ch
            THEN (CHOOSE r \in rules : r[1] = current /\ r[2] = ch)[3] ELSE None

\* Mutant: the quota is not looked at.
can_printNoQuota(ch) == next(ch) # None

can_print(ch) == next(ch) # None /\ quota > 0

IsFish(t) == os_program = "os_fish" /\ Role(t) # "absent"

fish_before(t) ==
  /\ IsFish(t) /\ at[t] = "before"
  /\ IF can_print(Role(t))
     THEN quota' = quota - 1 /\ at' = [at EXCEPT ![t] = "print"]
     ELSE at' = [at EXCEPT ![t] = "asleep"] /\ UNCHANGED quota
  /\ UNCHANGED <<osArgs, os_count, current, printed, spurious>>

putchar(t) ==
  /\ IsFish(t) /\ at[t] = "print"
  /\ printed' = IF Role(t) = "_" THEN <<>> ELSE Append(printed, Role(t))
  /\ at' = [at EXCEPT ![t] = "after"]
  /\ UNCHANGED <<osArgs, os_count, current, quota, spurious>>

\* Mutant: nobody is woken.
fish_afterSilent(t) ==
  /\ IsFish(t) /\ at[t] = "after" /\ next(Role(t)) # None
  /\ quota' = quota + 1
  /\ current' = next(Role(t))
  /\ at' = [at EXCEPT ![t] = "before"]
  /\ UNCHANGED <<osArgs, os_count, printed, spurious>>

\* The program aborts if the assertion fails.
fish_after(t) ==
  /\ IsFish(t) /\ at[t] = "after" /\ next(Role(t)) # None
  /\ quota' = quota + 1
  /\ current' = next(Role(t))
  /\ at' = Woken(t, "before", Asleep)
  /\ UNCHANGED <<osArgs, os_count, printed, spurious>>

-----------------------------------------------------------------------------
\* cond_wait may return without a signal.
OsSpurious(t) ==
  /\ at[t] = "asleep" /\ InRange
  /\ at' = [at EXCEPT ![t] = AfterWait]
  /\ spurious' = TRUE
  /\ UNCHANGED <<osArgs, os_count, current, quota, printed>>

OsStep(t) ==
  \/ Paren(t) \/ ParenWait(t) \/ ParenUntested(t)
  \/ fish_before(t) \/ putchar(t) \/ fish_after(t)

OsNext == \E t \in OsIds : OsStep(t) \/ OsSpurious(t)

OsFairness == \A t \in OsIds : WF_osVars(OsStep(t))

OsSpec == OsInit /\ [][OsNext]_osVars /\ OsFairness

-----------------------------------------------------------------------------
OsTypeOK ==
  /\ n \in 1..MaxN /\ T \in 1..MaxT /\ os_count \in -1..(n + 1)
  /\ current \in {"A", "B", "C", "D", "E", "F"} /\ quota \in 0..1
  /\ at \in [OsIds -> {"before", "asleep", "woken", "print", "after"}] /\ spurious \in BOOLEAN

Live == {t \in OsIds : Role(t) # "absent"}

\* The parentheses are balanced, never more than n deep: in os_prodcons8 and
\* os_cv_while always, in os_cv_if when there is one producer and one consumer and
\* no wait ends without a signal.
CountInRange == ~InRange => os_program = "os_cv_if" /\ (T > 1 \/ spurious)

\* What os_fish has written is the beginning of a fish, although putchar is called
\* without the lock.
FishShape ==
  printed \in {<<>>, <<"<">>, <<"<", ">">>, <<"<", ">", "<">>,
               <<">">>, <<">", "<">>, <<">", "<", ">">>}

\* The assertion of fish_after holds: current does not change between fish_before
\* and fish_after of a thread.
FishAssertion == \A t \in Live : at[t] \in {"print", "after"} => next(Role(t)) # None

\* os_prodcons8 and os_cv_while write parentheses for ever.
ParensForever ==
  os_program \in {"os_prodcons8", "os_cv_while"} => \A k \in 0..MaxN : os_count = k ~> os_count # k

\* os_fish finishes one fish after the other, although the last thread, whose role
\* is the end of the string, can never write.
FishForever == os_program = "os_fish" => []<>(printed # <<>>) /\ []<>(printed = <<>>)
=============================================================================
