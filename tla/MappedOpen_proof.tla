-------------------------- MODULE MappedOpen_proof --------------------------
(***************************************************************************)
(* What mq_open and sem_open promise, for any number of processes, tries,   *)
(* removals of the name and failures.                                       *)
(***************************************************************************)
EXTENDS MappedOpen, FiniteSetTheorems, TLAPS

Creating(p) == pc[p] \in {"size", "mmap", "init", "chmod"}

Returned(p) == pc[p] \in {"open", "magic"}

Created == {f \in Files : f <= nfiles}

Typed ==
  /\ kind \in {"mq", "sem"}
  /\ nfiles \in Nat
  /\ path \in Created \union {NoFile}
  /\ content \in [Files -> {"empty", "zero", "initialized"}]
  /\ xbit \in [Files -> BOOLEAN]
  /\ magic \in [Files -> BOOLEAN]
  /\ pc \in [Procs -> {"again", "size", "mmap", "init", "chmod", "magic", "exists",
                       "stat", "map", "err", "open", "failed", "dead"}]
  /\ fd \in [Procs -> Created \union {NoFile}]
  /\ handle \in [Procs -> Created \union {NoFile}]

\* The files that the control points need.
Located ==
  \A p \in Procs :
    /\ Creating(p) \/ pc[p] \in {"stat", "map"} => fd[p] \in Created
    /\ Returned(p) => handle[p] \in Created

\* A file has one process at most that initializes it, and its bit is on until
\* this process turns it off.
OneCreator ==
  /\ \A p \in Procs : Creating(p) => xbit[fd[p]]
  /\ \A p, q \in Procs : Creating(p) /\ Creating(q) /\ fd[p] = fd[q] => p = q
  /\ \A p \in Procs : pc[p] = "chmod" => content[fd[p]] = "initialized"

\* The bit of a file is off only when the file is initialized.
BitTells == \A f \in Created : ~xbit[f] => content[f] = "initialized"

\* A process that has seen the bit off, and whose file has kept the name, has
\* seen the bit of its own file.
SeenOwn ==
  \A p \in Procs :
    /\ pc[p] = "map" /\ fd[p] = path => ~xbit[path]
    /\ Returned(p) /\ handle[p] = path => ~xbit[path]

\* In sem_open.
MagicKept ==
  kind = "sem" => \A p \in Procs : /\ pc[p] # "map"
                                   /\ pc[p] = "open" => magic[handle[p]]

IInv == Typed /\ Located /\ OneCreator /\ BitTells /\ SeenOwn /\ MagicKept

\* The inductive invariant holds initially.
LEMMA InitIInv == Init => IInv
BY DEF Init, IInv, Typed, Located, OneCreator, BitTells, SeenOwn, MagicKept, Created,
       Creating, Returned, NoFile, Files

\* Every step of a caller, every failure and every removal preserves the
\* inductive invariant.
LEMMA NextIInv == IInv /\ [Next]_vars => IInv'
<1> SUFFICES ASSUME IInv, [Next]_vars PROVE IInv'
  OBVIOUS
<1> USE MappedOpenAssumption DEF IInv, files, args, local, bounds, Fails
<1>0. NoFile \notin Files
  BY DEF NoFile, Files
<1>1. ASSUME NEW p \in Procs, NoCreate(p) PROVE IInv'
  BY <1>1 DEF NoCreate, Typed, Located, OneCreator, BitTells, SeenOwn, MagicKept, Created,
       Creating, Returned, NoFile, Goto
<1>2. ASSUME NEW p \in Procs, Create(p) PROVE IInv'
  <2> DEFINE new == nfiles + 1
  <2>1. new \in Files /\ new \notin Created /\ new # NoFile
    BY <1>2 DEF Create, Typed, Created, Files, NoFile
  <2>2. Created' = Created \union {new}
    BY <1>2, <2>1 DEF Create, Typed, Created, Files
  <2> HIDE DEF new
  <2>3. /\ nfiles' = new /\ path' = new
        /\ xbit' = [xbit EXCEPT ![new] = TRUE]
        /\ fd' = [fd EXCEPT ![p] = new]
        /\ pc' = [pc EXCEPT ![p] = "size"]
        /\ UNCHANGED <<kind, content, magic, handle>>
    BY <1>2 DEF Create, Goto, new
  <2>4. Typed'
    BY <2>1, <2>2, <2>3 DEF Typed, new
  <2>5. Located' /\ OneCreator'
    BY <2>1, <2>2, <2>3 DEF Typed, Located, OneCreator, Creating, Returned
  <2>6. BitTells' /\ SeenOwn' /\ MagicKept'
    BY <2>1, <2>2, <2>3 DEF Typed, Located, BitTells, SeenOwn, MagicKept, Returned
  <2> QED
    BY <2>4, <2>5, <2>6
<1>3. ASSUME NEW p \in Procs, CreateExists(p) PROVE IInv'
  BY <1>3 DEF CreateExists, Typed, Located, OneCreator, BitTells, SeenOwn, MagicKept, Created,
       Creating, Returned, NoFile, Goto
<1>4. ASSUME NEW p \in Procs, SetSize(p) PROVE IInv'
  BY <1>4 DEF SetSize, Typed, Located, OneCreator, BitTells, SeenOwn, MagicKept, Created,
       Creating, Returned, NoFile, Goto
<1>5. ASSUME NEW p \in Procs, MapNew(p) PROVE IInv'
  BY <1>5 DEF MapNew, Typed, Located, OneCreator, BitTells, SeenOwn, MagicKept, Created,
       Creating, Returned, NoFile, Goto
<1>6. ASSUME NEW p \in Procs, Initialize(p) PROVE IInv'
  BY <1>6 DEF Initialize, Typed, Located, OneCreator, BitTells, SeenOwn, MagicKept, Created,
       Creating, Returned, NoFile, Goto
<1>7. ASSUME NEW p \in Procs, TurnOffBit(p) PROVE IInv'
  BY <1>7 DEF TurnOffBit, Typed, Located, OneCreator, BitTells, SeenOwn, MagicKept, Created,
       Creating, Returned, NoFile, Goto, Close
<1>8. ASSUME NEW p \in Procs, SetMagic(p) PROVE IInv'
  BY <1>8 DEF SetMagic, Typed, Located, OneCreator, BitTells, SeenOwn, MagicKept, Created,
       Creating, Returned, NoFile, Goto
<1>9. ASSUME NEW p \in Procs, OpenExisting(p) PROVE IInv'
  BY <1>9 DEF OpenExisting, Typed, Located, OneCreator, BitTells, SeenOwn, MagicKept, Created,
       Creating, Returned, NoFile, Goto
<1>10. ASSUME NEW p \in Procs, OpenNone(p) PROVE IInv'
  BY <1>10 DEF OpenNone, Typed, Located, OneCreator, BitTells, SeenOwn, MagicKept, Created,
       Creating, Returned, NoFile, Goto
<1>11. ASSUME NEW p \in Procs, StatNone(p) PROVE IInv'
  BY <1>11 DEF StatNone, Typed, Located, OneCreator, BitTells, SeenOwn, MagicKept, Created,
       Creating, Returned, NoFile, Goto, Close
<1>12. ASSUME NEW p \in Procs, StatBusy(p) PROVE IInv'
  BY <1>12 DEF StatBusy, Typed, Located, OneCreator, BitTells, SeenOwn, MagicKept, Created,
       Creating, Returned, NoFile, Goto
<1>13. ASSUME NEW p \in Procs, StatReady(p) PROVE IInv'
  <2>1. CASE kind = "mq"
    BY <1>13, <2>1 DEF StatReady, Typed, Located, OneCreator, BitTells, SeenOwn,
       MagicKept, Created, Creating, Returned, Goto
  <2>2. CASE kind = "sem"
    <3>1. /\ magic' = [magic EXCEPT ![fd[p]] = TRUE]
          /\ handle' = [handle EXCEPT ![p] = fd[p]]
          /\ pc' = [pc EXCEPT ![p] = "open"]
          /\ UNCHANGED <<kind, path, nfiles, content, xbit, fd>>
          /\ pc[p] = "stat" /\ path # NoFile /\ ~xbit[path]
      BY <1>13, <2>2 DEF StatReady, Goto
    <3>2. Typed' /\ Located' /\ OneCreator' /\ BitTells'
      BY <3>1 DEF Typed, Located, OneCreator, BitTells, Created, Creating, Returned
    <3>3. SeenOwn'
      BY <3>1 DEF Typed, Located, SeenOwn, Created, Returned
    <3>4. MagicKept'
      BY <3>1 DEF Typed, Located, MagicKept, Created, Returned
    <3> QED
      BY <3>2, <3>3, <3>4
  <2> QED
    BY <2>1, <2>2 DEF Typed
<1>14. ASSUME NEW p \in Procs, TimedOut(p) PROVE IInv'
  BY <1>14 DEF TimedOut, Typed, Located, OneCreator, BitTells, SeenOwn, MagicKept, Created,
       Creating, Returned, NoFile, Goto
<1>15. ASSUME NEW p \in Procs, MapExisting(p) PROVE IInv'
  BY <1>15 DEF MapExisting, Typed, Located, OneCreator, BitTells, SeenOwn, MagicKept, Created,
       Creating, Returned, NoFile, Goto, Close
<1>16. ASSUME NEW p \in Procs, Err(p) PROVE IInv'
  BY <1>0, <1>16 DEF Err, Typed, Located, OneCreator, BitTells, SeenOwn, MagicKept, Created,
       Creating, Returned, NoFile, Goto, Close
<1>17. ASSUME NEW p \in Procs, CreatorFails(p) PROVE IInv'
  BY <1>17 DEF CreatorFails, Typed, Located, OneCreator, BitTells, SeenOwn, MagicKept, Created,
       Creating, Returned, NoFile, Goto
<1>18. ASSUME NEW p \in Procs, MapFails(p) PROVE IInv'
  BY <1>18 DEF MapFails, Typed, Located, OneCreator, BitTells, SeenOwn, MagicKept, Created,
       Creating, Returned, NoFile, Goto, Close
<1>19. ASSUME NEW p \in Procs, Die(p) PROVE IInv'
  BY <1>19 DEF Die, Typed, Located, OneCreator, BitTells, SeenOwn, MagicKept, Created,
       Creating, Returned, NoFile, Goto
<1>20. CASE Unlink
  BY <1>0, <1>20 DEF Unlink, Typed, Located, OneCreator, BitTells, SeenOwn, MagicKept, Created,
       Creating, Returned, NoFile, Goto
<1>21. CASE UNCHANGED vars
  BY <1>21 DEF vars, Typed, Located, OneCreator, BitTells, SeenOwn, MagicKept, Created,
       Creating, Returned, NoFile, Goto
<1> QED
  BY <1>1, <1>2, <1>3, <1>4, <1>5, <1>6, <1>7, <1>8, <1>9, <1>10, <1>11, <1>12, <1>13, <1>14, <1>15, <1>16, <1>17, <1>18, <1>19, <1>20, <1>21 DEF Next, Step

\* IInv holds in every state.
THEOREM Invariance == Spec => []IInv
<1>1. Init => IInv
  BY InitIInv
<1>2. IInv /\ [Next]_vars => IInv'
  BY NextIInv
<1> QED
  BY <1>1, <1>2, PTL DEF Spec

\* A handle of the file that has the name is for an initialized file, however
\* creators fail or are killed and whoever removes the name.
THEOREM LinkedReady == Spec => []LinkedHandleReady
<1>1. IInv => LinkedHandleReady
  BY DEF IInv, LinkedHandleReady, Open, Typed, Located, BitTells, SeenOwn, Returned
<1> QED
  BY <1>1, Invariance, PTL

\* Every handle that sem_open returns passes the test of the magic number in
\* sem_post, sem_wait and the others.
THEOREM MagicAlwaysSet == Spec => []MagicSet
<1>1. IInv => MagicSet
  BY DEF IInv, MagicKept, MagicSet, Open
<1> QED
  BY <1>1, Invariance, PTL

-----------------------------------------------------------------------------
(***************************************************************************)
(* The rest of the state: what each call has open and mapped, and who made  *)
(* the file that has the name.                                              *)
(***************************************************************************)
TypedLocals ==
  /\ oflag \in [Procs -> Flags]
  /\ created \in [Procs -> BOOLEAN]
  /\ fds \in [Procs -> SUBSET Files]
  /\ maps \in [Procs -> SUBSET Files]
  /\ tries \in [Procs -> 0..MAX_TRIES]
  /\ unlinks \in 0..MaxUnlinks
  /\ failures \in 0..MaxFailures
  /\ nfiles \in 0..(MaxUnlinks + MaxFailures + 1)

\* A creator never opens another file, so its file stays its own; and until
\* somebody removes the name, the name is for the file of the creator that has
\* not returned.
Creators ==
  /\ \A p \in Procs : Creating(p) => created[p]
  /\ \A p \in Procs : created[p] =>
       fd[p] \in Created /\ pc[p] \notin {"again", "exists", "stat", "map"}
  /\ \A p, q \in Procs : created[p] /\ created[q] /\ fd[p] = fd[q] => p = q
  /\ unlinks = 0 => \A p \in Procs :
       created[p] /\ (Creating(p) \/ pc[p] = "err") => path = fd[p]

\* What a call of mq_open has open and mapped at each of its points.
Holds ==
  kind = "mq" => \A p \in Procs :
    /\ pc[p] # "magic"
    /\ pc[p] \in {"again", "exists", "failed"} => fds[p] = {} /\ maps[p] = {}
    /\ pc[p] \in {"size", "mmap", "stat", "map"} => fds[p] = {fd[p]} /\ maps[p] = {}
    /\ pc[p] \in {"init", "chmod"} => fds[p] = {fd[p]} /\ maps[p] = {fd[p]}
    /\ pc[p] = "open" => fds[p] = {} /\ maps[p] = {handle[p]}
    /\ pc[p] = "err" => fds[p] \subseteq {fd[p]} /\ maps[p] \subseteq {fd[p]}

HInv == TypedLocals /\ Creators /\ Holds

\* The second invariant holds initially.
LEMMA InitHInv == Init => HInv
BY MappedOpenAssumption DEF Init, HInv, TypedLocals, Creators, Holds, Created, Creating,
       NoFile, Files

\* munmap leaves nothing mapped when one file was.
LEMMA UnmapOne ==
  ASSUME NEW S \in SUBSET Nat, NEW f \in Nat, S \subseteq {f}
  PROVE  {g \in S : \E h \in S : h > g} = {}
<1> SUFFICES ASSUME NEW g \in S, NEW h \in S, h > g PROVE FALSE
  OBVIOUS
<1>1. g = f /\ h = f
  OBVIOUS
<1> QED
  BY <1>1

\* Every step preserves the types of the local variables.
LEMMA NextTypedLocals == IInv /\ HInv /\ [Next]_vars => TypedLocals'
<1> SUFFICES ASSUME IInv, HInv, [Next]_vars PROVE TypedLocals'
  OBVIOUS
<1> USE MappedOpenAssumption DEF IInv, HInv, files, args, local, bounds, Fails
<1>1. ASSUME NEW p \in Procs, NoCreate(p) PROVE TypedLocals'
  BY <1>1 DEF NoCreate, Typed, TypedLocals, Located, Created, Creating, Files, NoFile, Goto, Close
<1>2. ASSUME NEW p \in Procs, Create(p) PROVE TypedLocals'
  BY <1>2 DEF Create, Typed, TypedLocals, Located, Created, Creating, Files, NoFile, Goto, Close
<1>3. ASSUME NEW p \in Procs, CreateExists(p) PROVE TypedLocals'
  BY <1>3 DEF CreateExists, Typed, TypedLocals, Located, Created, Creating, Files, NoFile, Goto, Close
<1>4. ASSUME NEW p \in Procs, SetSize(p) PROVE TypedLocals'
  BY <1>4 DEF SetSize, Typed, TypedLocals, Located, Created, Creating, Files, NoFile, Goto, Close
<1>5. ASSUME NEW p \in Procs, MapNew(p) PROVE TypedLocals'
  BY <1>5 DEF MapNew, Typed, TypedLocals, Located, Created, Creating, Files, NoFile, Goto, Close
<1>6. ASSUME NEW p \in Procs, Initialize(p) PROVE TypedLocals'
  BY <1>6 DEF Initialize, Typed, TypedLocals, Located, Created, Creating, Files, NoFile, Goto, Close
<1>7. ASSUME NEW p \in Procs, TurnOffBit(p) PROVE TypedLocals'
  BY <1>7 DEF TurnOffBit, Typed, TypedLocals, Located, Created, Creating, Files, NoFile, Goto, Close
<1>8. ASSUME NEW p \in Procs, SetMagic(p) PROVE TypedLocals'
  BY <1>8 DEF SetMagic, Typed, TypedLocals, Located, Created, Creating, Files, NoFile, Goto, Close
<1>9. ASSUME NEW p \in Procs, OpenExisting(p) PROVE TypedLocals'
  BY <1>9 DEF OpenExisting, Typed, TypedLocals, Located, Created, Creating, Files, NoFile, Goto, Close
<1>10. ASSUME NEW p \in Procs, OpenNone(p) PROVE TypedLocals'
  BY <1>10 DEF OpenNone, Typed, TypedLocals, Located, Created, Creating, Files, NoFile, Goto, Close
<1>11. ASSUME NEW p \in Procs, StatNone(p) PROVE TypedLocals'
  <2>1. fds' \in [Procs -> SUBSET Files]
    BY <1>11 DEF StatNone, TypedLocals, Close
  <2>2. maps' \in [Procs -> SUBSET Files]
    BY <1>11 DEF StatNone, Typed, TypedLocals, Located, Created
  <2> QED
    BY <1>11, <2>1, <2>2 DEF StatNone, TypedLocals
<1>12. ASSUME NEW p \in Procs, StatBusy(p) PROVE TypedLocals'
  BY <1>12 DEF StatBusy, Typed, TypedLocals, Located, Created, Creating, Files, NoFile, Goto, Close
<1>13. ASSUME NEW p \in Procs, StatReady(p) PROVE TypedLocals'
  <2>1. fds' \in [Procs -> SUBSET Files]
    BY <1>13 DEF StatReady, TypedLocals, Close
  <2>2. maps' \in [Procs -> SUBSET Files]
    BY <1>13 DEF StatReady, Typed, TypedLocals, Located, Created
  <2> QED
    BY <1>13, <2>1, <2>2 DEF StatReady, TypedLocals
<1>14. ASSUME NEW p \in Procs, TimedOut(p) PROVE TypedLocals'
  BY <1>14 DEF TimedOut, Typed, TypedLocals, Located, Created, Creating, Files, NoFile, Goto, Close
<1>15. ASSUME NEW p \in Procs, MapExisting(p) PROVE TypedLocals'
  BY <1>15 DEF MapExisting, Typed, TypedLocals, Located, Created, Creating, Files, NoFile, Goto, Close
<1>16. ASSUME NEW p \in Procs, Err(p) PROVE TypedLocals'
  BY <1>16 DEF Err, Typed, TypedLocals, Located, Created, Creating, Files, NoFile, Goto, Close
<1>17. ASSUME NEW p \in Procs, CreatorFails(p) PROVE TypedLocals'
  BY <1>17 DEF CreatorFails, Typed, TypedLocals, Located, Created, Creating, Files, NoFile, Goto, Close
<1>18. ASSUME NEW p \in Procs, MapFails(p) PROVE TypedLocals'
  <2>1. fds' \in [Procs -> SUBSET Files]
    BY <1>18 DEF MapFails, TypedLocals, Close
  <2>2. maps' \in [Procs -> SUBSET Files]
    BY <1>18 DEF MapFails, Typed, TypedLocals, Located, Created
  <2> QED
    BY <1>18, <2>1, <2>2 DEF MapFails, TypedLocals
<1>19. ASSUME NEW p \in Procs, Die(p) PROVE TypedLocals'
  BY <1>19 DEF Die, Typed, TypedLocals, Located, Created, Creating, Files, NoFile, Goto, Close
<1>20. CASE Unlink
  BY <1>20 DEF Unlink, TypedLocals
<1>21. CASE UNCHANGED vars
  BY <1>21 DEF vars, TypedLocals
<1> QED
  BY <1>1, <1>2, <1>3, <1>4, <1>5, <1>6, <1>7, <1>8, <1>9, <1>10, <1>11, <1>12, <1>13, <1>14, <1>15, <1>16, <1>17, <1>18, <1>19, <1>20, <1>21 DEF Next, Step

\* Every step keeps creators and their files apart, and the name with them.
LEMMA NextCreators == IInv /\ HInv /\ [Next]_vars => Creators'
<1> SUFFICES ASSUME IInv, HInv, [Next]_vars PROVE Creators'
  OBVIOUS
<1> USE MappedOpenAssumption DEF IInv, HInv, files, args, local, bounds, Fails
<1>0. NoFile \notin Files
  BY DEF NoFile, Files
<1>1. ASSUME NEW p \in Procs, NoCreate(p) PROVE Creators'
  BY <1>0, <1>1 DEF NoCreate, Typed, TypedLocals, Located, Creators, Created, Creating, Goto, Close
<1>2. ASSUME NEW p \in Procs, Create(p) PROVE Creators'
  <2> DEFINE new == nfiles + 1
  <2>1. new \in Files /\ new \notin Created /\ new # NoFile
    BY <1>2 DEF Create, Typed, Created, Files, NoFile
  <2>2. Created' = Created \union {new}
    BY <1>2, <2>1 DEF Create, Typed, Created, Files
  <2> HIDE DEF new
  <2>3. /\ path = NoFile /\ path' = new
        /\ fd' = [fd EXCEPT ![p] = new]
        /\ created' = [created EXCEPT ![p] = TRUE]
        /\ pc[p] = "again" /\ pc' = [pc EXCEPT ![p] = "size"]
        /\ unlinks' = unlinks
    BY <1>2 DEF Create, Goto, new
  <2>4. unlinks = 0 => \A q \in Procs : created[q] => ~Creating(q) /\ pc[q] # "err"
    BY <1>0, <2>3 DEF Creators, Created
  <2> QED
    BY <2>1, <2>2, <2>3, <2>4 DEF Typed, TypedLocals, Creators, Creating
<1>3. ASSUME NEW p \in Procs, CreateExists(p) PROVE Creators'
  BY <1>0, <1>3 DEF CreateExists, Typed, TypedLocals, Located, Creators, Created, Creating, Goto, Close
<1>4. ASSUME NEW p \in Procs, SetSize(p) PROVE Creators'
  BY <1>0, <1>4 DEF SetSize, Typed, TypedLocals, Located, Creators, Created, Creating, Goto, Close
<1>5. ASSUME NEW p \in Procs, MapNew(p) PROVE Creators'
  BY <1>0, <1>5 DEF MapNew, Typed, TypedLocals, Located, Creators, Created, Creating, Goto, Close
<1>6. ASSUME NEW p \in Procs, Initialize(p) PROVE Creators'
  BY <1>0, <1>6 DEF Initialize, Typed, TypedLocals, Located, Creators, Created, Creating, Goto, Close
<1>7. ASSUME NEW p \in Procs, TurnOffBit(p) PROVE Creators'
  BY <1>0, <1>7 DEF TurnOffBit, Typed, TypedLocals, Located, Creators, Created, Creating, Goto, Close
<1>8. ASSUME NEW p \in Procs, SetMagic(p) PROVE Creators'
  BY <1>0, <1>8 DEF SetMagic, Typed, TypedLocals, Located, Creators, Created, Creating, Goto, Close
<1>9. ASSUME NEW p \in Procs, OpenExisting(p) PROVE Creators'
  BY <1>0, <1>9 DEF OpenExisting, Typed, TypedLocals, Located, Creators, Created, Creating, Goto, Close
<1>10. ASSUME NEW p \in Procs, OpenNone(p) PROVE Creators'
  BY <1>0, <1>10 DEF OpenNone, Typed, TypedLocals, Located, Creators, Created, Creating, Goto, Close
<1>11. ASSUME NEW p \in Procs, StatNone(p) PROVE Creators'
  BY <1>0, <1>11 DEF StatNone, Typed, TypedLocals, Located, Creators, Created, Creating, Goto, Close
<1>12. ASSUME NEW p \in Procs, StatBusy(p) PROVE Creators'
  BY <1>0, <1>12 DEF StatBusy, Typed, TypedLocals, Located, Creators, Created, Creating, Goto, Close
<1>13. ASSUME NEW p \in Procs, StatReady(p) PROVE Creators'
  BY <1>0, <1>13 DEF StatReady, Typed, TypedLocals, Located, Creators, Created, Creating, Goto, Close
<1>14. ASSUME NEW p \in Procs, TimedOut(p) PROVE Creators'
  BY <1>0, <1>14 DEF TimedOut, Typed, TypedLocals, Located, Creators, Created, Creating, Goto, Close
<1>15. ASSUME NEW p \in Procs, MapExisting(p) PROVE Creators'
  BY <1>0, <1>15 DEF MapExisting, Typed, TypedLocals, Located, Creators, Created, Creating, Goto, Close
<1>16. ASSUME NEW p \in Procs, Err(p) PROVE Creators'
  BY <1>0, <1>16 DEF Err, Typed, TypedLocals, Located, Creators, Created, Creating, Goto, Close
<1>17. ASSUME NEW p \in Procs, CreatorFails(p) PROVE Creators'
  BY <1>0, <1>17 DEF CreatorFails, Typed, TypedLocals, Located, Creators, Created, Creating, Goto, Close
<1>18. ASSUME NEW p \in Procs, MapFails(p) PROVE Creators'
  <2>1. /\ pc[p] = "map" /\ pc' = [pc EXCEPT ![p] = "err"]
        /\ UNCHANGED <<path, nfiles, created, fd, unlinks>>
    BY <1>18 DEF MapFails, Goto
  <2> QED
    BY <2>1 DEF Typed, Creators, Created, Creating
<1>19. ASSUME NEW p \in Procs, Die(p) PROVE Creators'
  BY <1>0, <1>19 DEF Die, Typed, TypedLocals, Located, Creators, Created, Creating, Goto, Close
<1>20. CASE Unlink
  <2>1. unlinks' # 0 /\ UNCHANGED <<pc, created, fd, nfiles>>
    BY <1>20 DEF Unlink, TypedLocals
  <2> QED
    BY <2>1 DEF Creators, Created, Creating
<1>21. CASE UNCHANGED vars
  BY <1>21 DEF vars, Creators, Created, Creating
<1> QED
  BY <1>1, <1>2, <1>3, <1>4, <1>5, <1>6, <1>7, <1>8, <1>9, <1>10, <1>11, <1>12, <1>13, <1>14, <1>15, <1>16, <1>17, <1>18, <1>19, <1>20, <1>21 DEF Next, Step

\* No step changes which of the two functions is called.
LEMMA KindKept == [Next]_vars => kind' = kind
<1> USE DEF args, local
<1>1. ASSUME NEW p \in Procs, NoCreate(p) \/ Create(p) \/ CreateExists(p) \/ SetSize(p)
      PROVE  kind' = kind
  BY <1>1 DEF NoCreate, Create, CreateExists, SetSize
<1>2. ASSUME NEW p \in Procs, MapNew(p) \/ Initialize(p) \/ TurnOffBit(p) \/ SetMagic(p)
      PROVE  kind' = kind
  BY <1>2 DEF MapNew, Initialize, TurnOffBit, SetMagic
<1>3. ASSUME NEW p \in Procs, OpenExisting(p) \/ OpenNone(p) \/ StatNone(p) \/ StatBusy(p)
      PROVE  kind' = kind
  BY <1>3 DEF OpenExisting, OpenNone, StatNone, StatBusy
<1>4. ASSUME NEW p \in Procs, StatReady(p) \/ TimedOut(p) \/ MapExisting(p) \/ Err(p)
      PROVE  kind' = kind
  BY <1>4 DEF StatReady, TimedOut, MapExisting, Err
<1>5. ASSUME NEW p \in Procs, CreatorFails(p) \/ MapFails(p) \/ Die(p)
      PROVE  kind' = kind
  BY <1>5 DEF CreatorFails, MapFails, Die
<1>6. Unlink \/ UNCHANGED vars => kind' = kind
  BY DEF Unlink, vars
<1> QED
  BY <1>1, <1>2, <1>3, <1>4, <1>5, <1>6 DEF Next, Step

\* The name is given and taken away in three places only.
LEMMA PathKept ==
  ASSUME [Next]_vars, path' # path
  PROVE  Unlink \/ \E p \in Procs : Create(p) \/ Err(p)
<1> USE DEF files
<1>1. ASSUME NEW p \in Procs, NoCreate(p) \/ CreateExists(p) \/ SetSize(p) \/ MapNew(p)
      PROVE  path' = path
  BY <1>1 DEF NoCreate, CreateExists, SetSize, MapNew
<1>2. ASSUME NEW p \in Procs, Initialize(p) \/ TurnOffBit(p) \/ SetMagic(p) \/ OpenExisting(p)
      PROVE  path' = path
  BY <1>2 DEF Initialize, TurnOffBit, SetMagic, OpenExisting
<1>3. ASSUME NEW p \in Procs, OpenNone(p) \/ StatNone(p) \/ StatBusy(p) \/ StatReady(p)
      PROVE  path' = path
  BY <1>3 DEF OpenNone, StatNone, StatBusy, StatReady
<1>4. ASSUME NEW p \in Procs, TimedOut(p) \/ MapExisting(p) \/ CreatorFails(p) \/ MapFails(p)
      PROVE  path' = path
  BY <1>4 DEF TimedOut, MapExisting, CreatorFails, MapFails
<1>5. ASSUME NEW p \in Procs, Die(p) PROVE path' = path
  BY <1>5 DEF Die
<1>6. UNCHANGED vars => path' = path
  BY DEF vars
<1> QED
  BY <1>1, <1>2, <1>3, <1>4, <1>5, <1>6 DEF Next, Step

\* Every step keeps account of what mq_open has open and mapped.
LEMMA NextHolds == IInv /\ HInv /\ [Next]_vars => Holds'
<1> SUFFICES ASSUME IInv, HInv, [Next]_vars, kind = "mq" PROVE Holds'
  BY KindKept DEF Holds
<1> USE MappedOpenAssumption DEF IInv, HInv, files, args, local, bounds, Fails
<1>1. ASSUME NEW p \in Procs, NoCreate(p) PROVE Holds'
  BY <1>1 DEF NoCreate, Typed, TypedLocals, Holds, Goto, Close
<1>2. ASSUME NEW p \in Procs, Create(p) PROVE Holds'
  <2> DEFINE new == nfiles + 1
  <2>1. /\ pc[p] = "again" /\ pc' = [pc EXCEPT ![p] = "size"]
        /\ fd' = [fd EXCEPT ![p] = new] /\ fds' = [fds EXCEPT ![p] = @ \union {new}]
        /\ UNCHANGED <<kind, maps, handle>>
    BY <1>2 DEF Create, Goto
  <2>2. fds[p] = {} /\ maps[p] = {}
    BY <2>1 DEF Holds
  <2> HIDE DEF new
  <2> QED
    BY <2>1, <2>2 DEF Typed, TypedLocals, Holds
<1>3. ASSUME NEW p \in Procs, CreateExists(p) PROVE Holds'
  BY <1>3 DEF CreateExists, Typed, TypedLocals, Holds, Goto, Close
<1>4. ASSUME NEW p \in Procs, SetSize(p) PROVE Holds'
  BY <1>4 DEF SetSize, Typed, TypedLocals, Holds, Goto, Close
<1>5. ASSUME NEW p \in Procs, MapNew(p) PROVE Holds'
  BY <1>5 DEF MapNew, Typed, TypedLocals, Holds, Goto, Close
<1>6. ASSUME NEW p \in Procs, Initialize(p) PROVE Holds'
  BY <1>6 DEF Initialize, Typed, TypedLocals, Holds, Goto, Close
<1>7. ASSUME NEW p \in Procs, TurnOffBit(p) PROVE Holds'
  BY <1>7 DEF TurnOffBit, Typed, TypedLocals, Holds, Goto, Close
<1>8. ASSUME NEW p \in Procs, SetMagic(p) PROVE Holds'
  BY <1>8 DEF SetMagic, Typed, TypedLocals, Holds, Goto, Close
<1>9. ASSUME NEW p \in Procs, OpenExisting(p) PROVE Holds'
  BY <1>9 DEF OpenExisting, Typed, TypedLocals, Holds, Goto, Close
<1>10. ASSUME NEW p \in Procs, OpenNone(p) PROVE Holds'
  BY <1>10 DEF OpenNone, Typed, TypedLocals, Holds, Goto, Close
<1>11. ASSUME NEW p \in Procs, StatNone(p) PROVE Holds'
  BY <1>11 DEF StatNone, Typed, TypedLocals, Holds, Goto, Close
<1>12. ASSUME NEW p \in Procs, StatBusy(p) PROVE Holds'
  BY <1>12 DEF StatBusy, Typed, TypedLocals, Holds, Goto, Close
<1>13. ASSUME NEW p \in Procs, StatReady(p) PROVE Holds'
  BY <1>13 DEF StatReady, Typed, TypedLocals, Holds, Goto, Close
<1>14. ASSUME NEW p \in Procs, TimedOut(p) PROVE Holds'
  BY <1>14 DEF TimedOut, Typed, TypedLocals, Holds, Goto, Close
<1>15. ASSUME NEW p \in Procs, MapExisting(p) PROVE Holds'
  BY <1>15 DEF MapExisting, Typed, TypedLocals, Holds, Goto, Close
<1>16. ASSUME NEW p \in Procs, Err(p) PROVE Holds'
  <2>1. pc[p] = "err" /\ fds[p] \subseteq {fd[p]} /\ maps[p] \subseteq {fd[p]}
    BY <1>16 DEF Err, Holds
  <2>2. maps[p] \in SUBSET Nat /\ fd[p] \in Nat
    BY DEF Typed, TypedLocals, Created, Files, NoFile
  <2>3. {f \in maps[p] : \E g \in maps[p] : g > f} = {}
    BY <2>1, <2>2, UnmapOne
  <2>4. /\ maps' = [maps EXCEPT ![p] = {}]
        /\ fds' = [fds EXCEPT ![p] = {}]
        /\ pc' = [pc EXCEPT ![p] = "failed"]
        /\ UNCHANGED <<kind, fd, handle>>
    BY <1>16, <2>1, <2>3 DEF Err, Close, Goto, TypedLocals
  <2> QED
    BY <2>4 DEF Typed, TypedLocals, Holds
<1>17. ASSUME NEW p \in Procs, CreatorFails(p) PROVE Holds'
  BY <1>17 DEF CreatorFails, Typed, TypedLocals, Holds, Goto, Close
<1>18. ASSUME NEW p \in Procs, MapFails(p) PROVE Holds'
  <2>1. /\ pc[p] = "map" /\ pc' = [pc EXCEPT ![p] = "err"]
        /\ UNCHANGED <<kind, fd, handle>>
    BY <1>18 DEF MapFails, Goto
  <2>2. fds[p] = {fd[p]} /\ maps[p] = {}
    BY <2>1 DEF Holds
  <2>3. /\ fds'[p] \subseteq {fd[p]} /\ maps'[p] \subseteq {fd[p]}
        /\ \A q \in Procs \ {p} : fds'[q] = fds[q] /\ maps'[q] = maps[q]
    BY <1>18, <2>2 DEF MapFails, Close, TypedLocals
  <2>4. pc'[p] = "err" /\ \A q \in Procs \ {p} : pc'[q] = pc[q]
    BY <2>1 DEF Typed
  <2> QED
    BY <2>1, <2>3, <2>4 DEF Holds
<1>19. ASSUME NEW p \in Procs, Die(p) PROVE Holds'
  BY <1>19 DEF Die, Typed, TypedLocals, Holds, Goto, Close
<1>20. CASE Unlink
  BY <1>20 DEF Unlink, Holds
<1>21. CASE UNCHANGED vars
  BY <1>21 DEF vars, Holds
<1> QED
  BY <1>1, <1>2, <1>3, <1>4, <1>5, <1>6, <1>7, <1>8, <1>9, <1>10, <1>11, <1>12, <1>13, <1>14, <1>15, <1>16, <1>17, <1>18, <1>19, <1>20, <1>21 DEF Next, Step

\* HInv holds in every state.
THEOREM HoldsInvariance == Spec => []HInv
<1>1. IInv /\ HInv /\ [Next]_vars => HInv'
  BY NextTypedLocals, NextCreators, NextHolds DEF HInv
<1> QED
  BY <1>1, InitHInv, Invariance, PTL DEF Spec

\* A call of mq_open that returns has closed the file, and keeps no mapping but
\* that of its handle, wherever it failed and however often it started again.
THEOREM NothingLeaks == Spec => []ResourcesReleased
<1>1. IInv /\ HInv => ResourcesReleased
  <2> SUFFICES ASSUME IInv, HInv PROVE ResourcesReleased
    OBVIOUS
  <2> USE MappedOpenAssumption DEF IInv, HInv
  <2>1. Cardinality(Files) = MaxUnlinks + MaxFailures + 1
    BY FS_Interval DEF Files
  <2>2. TypeOK
    BY <2>1 DEF TypeOK, Typed, TypedLocals, Created
  <2> QED
    BY <2>2 DEF ResourcesReleased, Holds, Open
<1> QED
  BY <1>1, Invariance, HoldsInvariance, PTL

\* As long as nobody unlinks, a name goes away only in the err part of the call
\* that made it: a caller that gives up leaves the file of a slow creator alone.
THEOREM OwnRemoved == Spec => FailureRemovesOwn
<1>1. ASSUME IInv, HInv, [Next]_vars, path # NoFile, path' # path, unlinks' = 0
      PROVE  \E p \in Procs : pc[p] = "err" /\ created[p] /\ fd[p] = path
  <2> USE MappedOpenAssumption DEF IInv, HInv
  <2>1. ~Unlink
    BY <1>1 DEF Unlink, TypedLocals
  <2>2. PICK p \in Procs : Err(p)
    BY <1>1, <2>1, PathKept DEF Create
  <2> QED
    BY <1>1, <2>2 DEF Err, Creators, bounds
<1>2. IInv /\ HInv /\ [Next]_vars =>
        [path # NoFile /\ path' # path /\ unlinks' = 0 =>
           \E p \in Procs : pc[p] = "err" /\ created[p] /\ fd[p] = path]_vars
  BY <1>1
<1> QED
  BY <1>2, Invariance, HoldsInvariance, PTL DEF Spec, FailureRemovesOwn
=============================================================================
