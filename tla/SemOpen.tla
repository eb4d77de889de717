------------------------------ MODULE SemOpen ------------------------------
(***************************************************************************)
(* sem_open, sem_close, sem_unlink, sem_getvalue and sem_trywait of the     *)
(* semaphores built of System V semaphores (my_pxsem_svsem), of fifos       *)
(* (my_pxsem_fifo) and of memory-mapped files (my_pxsem_mmap, whose         *)
(* sem_open is the subject of MappedOpen and is one step here), called by   *)
(* several processes at once with and without O_CREAT and O_EXCL, while     *)
(* another removes the name.  Each opener posts or waits once and closes.   *)
(* testsem is the case that all create and wait.                            *)
(*                                                                         *)
(* A file is what the pathname denotes; a System V semaphore belongs to the *)
(* key that ftok makes of a file and can be removed and made again, so that *)
(* files and semaphores are numbered apart.                                 *)
(***************************************************************************)
EXTENDS Integers, FiniteSets

CONSTANTS Openers, OpenTries, InitVal, MaxUnlink,
          MaxFiles      \* bound: files and semaphores made

ASSUME SemOpenAssumption ==
  IsFiniteSet(Openers) /\ {OpenTries, InitVal, MaxUnlink, MaxFiles} \subseteq Nat

VARIABLES okind,        \* "svsem", "fifo", "mmap" or "none"
          oflags, oop,  \* the arguments of each opener, and what it does then
          opath,        \* the file of the pathname, or 0
          nofiles,
          okey,         \* the semaphore of each file, or 0
          oval, ootime, \* of each semaphore
          ogone,        \* by whom a semaphore was removed: "no", "unlink", "creator", "timeout" or "other"
          onet,         \* posts less waits on each semaphore, by those who have it open
          opc, ofile, osem, owfd, ocreated, otry,
          ufile, upc, nunlinks,
          oshown        \* what testsem prints, or -1

soVars == <<okind, oflags, oop, opath, nofiles, okey, oval, ootime, ogone, onet, opc, ofile, osem, owfd,
            ocreated, otry, ufile, upc, nunlinks, oshown>>
callVars == <<okind, oflags, oop>>
nameVars == <<opath, nofiles>>
valVars == <<okey, oval, ootime, ogone, onet>>
procVars == <<ofile, osem, owfd, ocreated, otry>>
unlVars == <<ufile, upc, nunlinks>>

OFiles == 1..MaxFiles
SemFlags == {"open", "creat", "excl"}
OpenEnded == {"closed", "failed"}

SoInit ==
  /\ okind \in {"svsem", "fifo", "mmap", "none"}
  /\ oflags \in (IF okind = "none" THEN {[p \in Openers |-> "open"]} ELSE [Openers -> SemFlags])
  /\ oop \in (IF okind = "none" THEN {[p \in Openers |-> "wait"]} ELSE [Openers -> {"wait", "post"}])
  /\ opath = 0 /\ nofiles = 0
  /\ okey = [f \in OFiles |-> 0]
  /\ oval = [s \in OFiles |-> 0]
  /\ ootime = [s \in OFiles |-> FALSE]
  /\ ogone = [s \in OFiles |-> "no"]
  /\ onet = [s \in OFiles |-> 0]
  /\ opc = [p \in Openers |-> IF okind = "none" THEN "closed" ELSE "call"]
  /\ ofile = [p \in Openers |-> 0]
  /\ osem = [p \in Openers |-> 0]
  /\ owfd = [p \in Openers |-> 0]
  /\ ocreated = [p \in Openers |-> FALSE]
  /\ otry = [p \in Openers |-> 0]
  /\ ufile = 0 /\ upc = "idle" /\ nunlinks = 0
  /\ oshown = -1

OGoto(p, l) == opc' = [opc EXCEPT ![p] = l]

\* The semaphore that is made next
NewSem == Cardinality({s \in OFiles : ootime[s] \/ ogone[s] # "no" \/ \E f \in OFiles : okey[f] = s}) + 1

-----------------------------------------------------------------------------
(***************************************************************************)
(* my_pxsem_svsem                                                           *)
(***************************************************************************)
\* open with O_CREAT and ftok, or ftok alone
SvOpenFile(p) ==
  /\ okind = "svsem" /\ opc[p] = "call"
  /\ IF oflags[p] = "open"
     THEN /\ IF opath = 0 THEN OGoto(p, "failed") /\ UNCHANGED ofile
             ELSE OGoto(p, "lookup") /\ ofile' = [ofile EXCEPT ![p] = opath]
          /\ UNCHANGED nameVars
     ELSE IF opath # 0
     THEN /\ IF oflags[p] = "excl" THEN OGoto(p, "failed") /\ UNCHANGED ofile
             ELSE OGoto(p, "semget") /\ ofile' = [ofile EXCEPT ![p] = opath]
          /\ UNCHANGED nameVars
     ELSE /\ nofiles < MaxFiles
          /\ nofiles' = nofiles + 1 /\ opath' = nofiles + 1
          /\ ofile' = [ofile EXCEPT ![p] = nofiles + 1]
          /\ OGoto(p, "semget")
  /\ UNCHANGED <<callVars, valVars, osem, owfd, ocreated, otry, unlVars, oshown>>

\* semget with IPC_CREAT and IPC_EXCL
SvSemget(p) ==
  /\ opc[p] = "semget"
  /\ IF okey[ofile[p]] # 0
     THEN /\ OGoto(p, IF oflags[p] = "excl" THEN "failed" ELSE "lookup")
          /\ UNCHANGED <<okey, osem, ocreated>>
     ELSE /\ NewSem \in OFiles
          /\ okey' = [okey EXCEPT ![ofile[p]] = NewSem]
          /\ osem' = [osem EXCEPT ![p] = NewSem]
          /\ ocreated' = [ocreated EXCEPT ![p] = TRUE]
          /\ OGoto(p, "setval")
  /\ UNCHANGED <<callVars, nameVars, oval, ootime, ogone, onet, ofile, owfd, otry, unlVars, oshown>>

\* SETVAL of 0, and semop of value, which sets sem_otime
SvInitialize(p) ==
  /\ opc[p] \in {"setval", "semop"}
  /\ IF ogone[osem[p]] # "no"
     THEN OGoto(p, "failed") /\ UNCHANGED <<oval, ootime>>
     ELSE IF opc[p] = "setval"
     THEN oval' = [oval EXCEPT ![osem[p]] = 0] /\ OGoto(p, "semop") /\ UNCHANGED ootime
     ELSE /\ oval' = [oval EXCEPT ![osem[p]] = @ + InitVal]
          /\ ootime' = [ootime EXCEPT ![osem[p]] = TRUE]
          /\ OGoto(p, "opened")
  /\ UNCHANGED <<callVars, nameVars, okey, ogone, onet, procVars, unlVars, oshown>>

\* ftok again, and semget of a semaphore that exists
SvLookup(p) ==
  /\ opc[p] = "lookup"
  /\ IF opath = 0 \/ (opath # 0 /\ okey[opath] = 0)
     THEN OGoto(p, "failed") /\ UNCHANGED osem
     ELSE OGoto(p, "stat") /\ osem' = [osem EXCEPT ![p] = okey[opath]]
  /\ UNCHANGED <<callVars, nameVars, valVars, ofile, owfd, ocreated, otry, unlVars, oshown>>

\* Mutant: sem_otime is not looked at.
SvStatAnyway(p) ==
  /\ opc[p] = "stat"
  /\ OGoto(p, "opened")
  /\ UNCHANGED <<callVars, nameVars, valVars, procVars, unlVars, oshown>>

\* Mutant: the loop goes on for ever.
SvStatEver(p) ==
  /\ opc[p] = "stat"
  /\ OGoto(p, IF ogone[osem[p]] = "no" /\ ootime[osem[p]] THEN "opened" ELSE "stat")
  /\ UNCHANGED <<callVars, nameVars, valVars, procVars, unlVars, oshown>>

\* IPC_STAT up to MAX_TRIES times, until sem_otime is set
SvStat(p) ==
  /\ opc[p] = "stat"
  /\ IF otry[p] = OpenTries \/ ogone[osem[p]] # "no"
     THEN OGoto(p, "err") /\ UNCHANGED otry
     ELSE IF ootime[osem[p]] THEN OGoto(p, "opened") /\ UNCHANGED otry
     ELSE otry' = [otry EXCEPT ![p] = @ + 1] /\ UNCHANGED opc
  /\ UNCHANGED <<callVars, nameVars, valVars, ofile, osem, owfd, ocreated, unlVars, oshown>>

\* The semaphore s is removed, and its key is free.
Rmid(s, why) ==
  /\ ogone' = [ogone EXCEPT ![s] = IF @ = "no" THEN why ELSE @]
  /\ okey' = [f \in OFiles |-> IF okey[f] = s THEN 0 ELSE okey[f]]

\* err: IPC_RMID of the semaphore, whoever created it
SvErr(p) ==
  /\ opc[p] = "err" /\ okind = "svsem"
  /\ Rmid(osem[p], IF ocreated[p] THEN "creator" ELSE "timeout")
  /\ OGoto(p, "failed")
  /\ UNCHANGED <<callVars, nameVars, oval, ootime, onet, procVars, unlVars, oshown>>

-----------------------------------------------------------------------------
(***************************************************************************)
(* my_pxsem_fifo                                                            *)
(***************************************************************************)
\* The openers that have the fifo s open, other than p
HaveOpen(s, p) == {q \in Openers \ {p} : s \in {osem[q], owfd[q]} /\ opc[q] \notin OpenEnded}

\* mkfifo
FifoMake(p) ==
  /\ okind = "fifo" /\ opc[p] = "call"
  /\ IF oflags[p] = "open" \/ (oflags[p] = "creat" /\ opath # 0)
     THEN OGoto(p, "rdopen") /\ UNCHANGED <<nameVars, okey, ofile, ocreated>>
     ELSE IF opath # 0
     THEN OGoto(p, "failed") /\ UNCHANGED <<nameVars, okey, ofile, ocreated>>
     ELSE /\ nofiles < MaxFiles
          /\ nofiles' = nofiles + 1 /\ opath' = nofiles + 1
          /\ okey' = [okey EXCEPT ![nofiles + 1] = nofiles + 1]
          /\ ofile' = [ofile EXCEPT ![p] = nofiles + 1]
          /\ ocreated' = [ocreated EXCEPT ![p] = TRUE]
          /\ OGoto(p, "rdopen")
  /\ UNCHANGED <<callVars, oval, ootime, ogone, onet, osem, owfd, otry, unlVars, oshown>>

\* The two opens of the pathname: the second finds no reader when the name went to a new fifo.
FifoOpen(p) ==
  /\ opc[p] \in {"rdopen", "wropen"}
  /\ IF opath = 0 \/ (opc[p] = "wropen" /\ opath # osem[p] /\ HaveOpen(opath, p) = {})
     THEN OGoto(p, "err") /\ UNCHANGED <<osem, owfd>>
     ELSE IF opc[p] = "rdopen"
     THEN osem' = [osem EXCEPT ![p] = opath] /\ OGoto(p, "wropen") /\ UNCHANGED owfd
     ELSE /\ owfd' = [owfd EXCEPT ![p] = opath]
          /\ OGoto(p, IF ocreated[p] THEN "fill" ELSE "opened")
          /\ UNCHANGED osem
  /\ UNCHANGED <<callVars, nameVars, valVars, ofile, ocreated, otry, unlVars, oshown>>

\* The creator writes a byte for each unit.
FifoFill(p) ==
  /\ opc[p] = "fill"
  /\ IF otry[p] = InitVal
     THEN /\ OGoto(p, "opened")
          /\ ootime' = [ootime EXCEPT ![owfd[p]] = TRUE]
          /\ UNCHANGED <<oval, otry>>
     ELSE /\ otry' = [otry EXCEPT ![p] = @ + 1]
          /\ oval' = [oval EXCEPT ![owfd[p]] = @ + 1]
          /\ UNCHANGED <<opc, ootime>>
  /\ UNCHANGED <<callVars, nameVars, okey, ogone, onet, ofile, osem, owfd, ocreated, unlVars, oshown>>

\* A fifo that nobody has open is empty, whatever was written.
Drained(p) == {s \in OFiles : s \in {osem[p], owfd[p]} /\ HaveOpen(s, p) = {}}

Drain(p) ==
  /\ oval' = [s \in OFiles |-> IF s \in Drained(p) THEN 0 ELSE oval[s]]
  /\ onet' = [s \in OFiles |-> IF s \in Drained(p) THEN 0 ELSE onet[s]]
  /\ ootime' = [s \in OFiles |-> IF s \in Drained(p) THEN FALSE ELSE ootime[s]]

\* Mutant: the name is removed whoever made the fifo.
FifoErrAlways(p) ==
  /\ opc[p] = "err" /\ okind = "fifo"
  /\ opath' = 0
  /\ ogone' = [s \in OFiles |-> IF s = opath THEN (IF s = ofile[p] THEN "creator" ELSE "other") ELSE ogone[s]]
  /\ Drain(p)
  /\ OGoto(p, "failed")
  /\ UNCHANGED <<callVars, nofiles, okey, procVars, unlVars, oshown>>

\* error: the name is removed by one that made a fifo, whichever fifo the name denotes now
FifoErr(p) ==
  /\ opc[p] = "err" /\ okind = "fifo"
  /\ opath' = (IF ocreated[p] THEN 0 ELSE opath)
  /\ ogone' = [s \in OFiles |-> IF s = opath /\ ocreated[p]
                               THEN (IF s = ofile[p] THEN "creator" ELSE "other") ELSE ogone[s]]
  /\ Drain(p)
  /\ OGoto(p, "failed")
  /\ UNCHANGED <<callVars, nofiles, okey, procVars, unlVars, oshown>>

-----------------------------------------------------------------------------
\* sem_open of my_pxsem_mmap, in a run without timeouts
MmapOpen(p) ==
  /\ okind = "mmap" /\ opc[p] = "call"
  /\ IF opath = 0 /\ oflags[p] # "open"
     THEN /\ nofiles < MaxFiles
          /\ nofiles' = nofiles + 1 /\ opath' = nofiles + 1
          /\ osem' = [osem EXCEPT ![p] = nofiles + 1]
          /\ okey' = [okey EXCEPT ![nofiles + 1] = nofiles + 1]
          /\ oval' = [oval EXCEPT ![nofiles + 1] = InitVal]
          /\ ootime' = [ootime EXCEPT ![nofiles + 1] = TRUE]
          /\ ocreated' = [ocreated EXCEPT ![p] = TRUE]
          /\ OGoto(p, "opened")
     ELSE /\ IF opath # 0 /\ oflags[p] # "excl"
             THEN osem' = [osem EXCEPT ![p] = opath] /\ OGoto(p, "opened")
             ELSE OGoto(p, "failed") /\ UNCHANGED osem
          /\ UNCHANGED <<nameVars, okey, oval, ootime, ocreated>>
  /\ UNCHANGED <<callVars, ogone, onet, ofile, owfd, otry, unlVars, oshown>>

-----------------------------------------------------------------------------
(***************************************************************************)
(* The use of a semaphore                                                   *)
(***************************************************************************)
\* Mysem_post, or Mysem_wait that need not wait.  Of a System V semaphore that was removed
\* both fail.
SemUse(p) ==
  /\ opc[p] = "opened"
  /\ LET s == IF oop[p] = "post" /\ okind = "fifo" THEN owfd[p] ELSE osem[p] IN
     IF okind = "svsem" /\ ogone[s] # "no"
     THEN OGoto(p, "failed") /\ UNCHANGED <<oval, onet>>
     ELSE LET n == IF oop[p] = "post" THEN 1 ELSE -1 IN
          /\ oval[s] + n >= 0
          /\ oval' = [oval EXCEPT ![s] = @ + n]
          /\ onet' = [onet EXCEPT ![s] = @ + n]
          /\ OGoto(p, "used")
  /\ UNCHANGED <<callVars, nameVars, okey, ootime, ogone, procVars, unlVars, oshown>>

\* mysem_trywait of a count of zero: EAGAIN, and the caller does without
TrywaitAgain(p) ==
  /\ opc[p] = "opened" /\ oop[p] = "wait"
  /\ oval[osem[p]] = 0
  /\ OGoto(p, "used")
  /\ UNCHANGED <<callVars, nameVars, valVars, procVars, unlVars, oshown>>

svsem_trywait(p) == okind = "svsem" /\ opc[p] = "opened" /\ ogone[osem[p]] = "no" /\ TrywaitAgain(p)
mmap_trywait(p) == okind = "mmap" /\ TrywaitAgain(p)

\* free, munmap, or close of the two descriptors
svsem_close == okind = "svsem" /\ UNCHANGED <<oval, onet, ootime>>
mmap_close == okind = "mmap" /\ UNCHANGED <<oval, onet, ootime>>
fifo_close(p) == okind = "fifo" /\ Drain(p)

mysem_close(p) ==
  /\ opc[p] = "used"
  /\ OGoto(p, "closed")
  /\ svsem_close \/ mmap_close \/ fifo_close(p)
  /\ UNCHANGED <<callVars, nameVars, okey, ogone, procVars, unlVars, oshown>>

\* mysem_unlink of a fifo or a mapped file: the name goes, those who have it open keep it.
UnlinkName ==
  /\ opath # 0 /\ nunlinks < MaxUnlink
  /\ nunlinks' = nunlinks + 1
  /\ opath' = 0
  /\ ogone' = [ogone EXCEPT ![opath] = "unlink"]
  /\ UNCHANGED <<callVars, nofiles, okey, oval, ootime, onet, opc, procVars, ufile, upc, oshown>>

fifo_unlink == okind = "fifo" /\ UnlinkName
mmap_unlink == okind = "mmap" /\ UnlinkName

\* That of a System V semaphore: ftok, unlink of the pathname, and the removal of the
\* semaphore of the key
UnlinkFtok ==
  /\ okind = "svsem" /\ upc = "idle" /\ nunlinks < MaxUnlink /\ opath # 0
  /\ nunlinks' = nunlinks + 1
  /\ ufile' = opath
  /\ upc' = "unlink"
  /\ UNCHANGED <<callVars, nameVars, valVars, opc, procVars, oshown>>

svsem_unlink ==
  /\ upc = "unlink"
  /\ opath' = 0
  /\ upc' = (IF opath = 0 THEN "idle" ELSE "rmid")
  /\ UNCHANGED <<callVars, nofiles, valVars, opc, procVars, ufile, nunlinks, oshown>>

UnlinkRmid ==
  /\ upc = "rmid"
  /\ IF okey[ufile] # 0 THEN Rmid(okey[ufile], "unlink") ELSE UNCHANGED <<okey, ogone>>
  /\ upc' = "idle"
  /\ UNCHANGED <<callVars, nameVars, oval, ootime, onet, opc, procVars, ufile, nunlinks, oshown>>

\* testsem: every thread creates the semaphore and waits
AllCreateAndWait == oflags = [p \in Openers |-> "creat"] /\ oop = [p \in Openers |-> "wait"]
svsem_testsem == okind = "svsem" /\ AllCreateAndWait
mmap_testsem == okind = "mmap" /\ AllCreateAndWait

\* Its main thread, once it joined the threads: Mysem_getvalue, which is GETVAL or sem_count
GetvalueOnce ==
  /\ oshown = -1 /\ nunlinks = 0
  /\ \A p \in Openers : opc[p] \in {"used", "closed"}
  /\ \E p \in Openers : opc[p] = "used" /\ oshown' = oval[osem[p]]
  /\ UNCHANGED <<callVars, nameVars, valVars, opc, procVars, unlVars>>

svsem_getvalue == svsem_testsem /\ GetvalueOnce
mmap_getvalue == mmap_testsem /\ GetvalueOnce

-----------------------------------------------------------------------------
SoStep(p) ==
  \/ SvOpenFile(p) \/ SvSemget(p) \/ SvInitialize(p) \/ SvLookup(p) \/ SvStat(p) \/ SvErr(p)
  \/ FifoMake(p) \/ FifoOpen(p) \/ FifoFill(p) \/ FifoErr(p) \/ MmapOpen(p)
  \/ SemUse(p) \/ mysem_close(p)

SoNext ==
  \/ \E p \in Openers : SoStep(p) \/ svsem_trywait(p) \/ mmap_trywait(p)
  \/ fifo_unlink \/ mmap_unlink \/ UnlinkFtok \/ svsem_unlink \/ UnlinkRmid
  \/ svsem_getvalue \/ mmap_getvalue

SoFairness ==
  /\ \A p \in Openers : WF_soVars(SoStep(p))
  /\ WF_soVars(svsem_unlink) /\ WF_soVars(UnlinkRmid)

-----------------------------------------------------------------------------
SoTypeOK ==
  /\ opath \in 0..MaxFiles /\ okey \in [OFiles -> 0..MaxFiles]
  /\ oval \in [OFiles -> Nat] /\ ogone \in [OFiles -> {"no", "unlink", "creator", "timeout", "other"}]
  /\ osem \in [Openers -> 0..MaxFiles] /\ owfd \in [Openers -> 0..MaxFiles]

\* Whoever has a System V or mapped semaphore open has one that was initialized, whose value is
\* the initial value and what the openers posted and took: no post is lost to the SETVAL of a
\* creator that is late.  A fifo has that value when its creator is through and somebody kept
\* it open, unless the name went to another fifo meanwhile.  "final values should be" of testsem:
\* none of the threads' waits is lost.
SemOpenSound ==
  /\ SoTypeOK
  /\ \A p \in Openers : opc[p] \in {"opened", "used"} /\ okind # "fifo" => ootime[osem[p]]
  /\ \A s \in OFiles : ootime[s] /\ (okind = "fifo" => nunlinks = 0) => oval[s] = InitVal + onet[s]
  /\ oshown # -1 => \/ oshown = InitVal - Cardinality(Openers)
                    \/ InitVal < Cardinality(Openers)
                    \/ \E s \in OFiles : ogone[s] # "no"

\* A semaphore goes away by sem_unlink, by its creator's failure or, with System V semaphores,
\* by an opener that gave up waiting; by the failure of another's sem_open only if that one had
\* made a fifo itself, whose name was removed before.
RemovedByOwner ==
  \A s \in OFiles :
    /\ ogone[s] = "other" => nunlinks > 0 /\ \E p \in Openers : ocreated[p] /\ ofile[p] # s /\ opc[p] = "failed"
    /\ ogone[s] = "timeout" => okind = "svsem" /\ \E p \in Openers : opc[p] = "failed" /\ osem[p] = s

\* Every sem_open returned, also when the creator of the semaphore failed before it initialized it.
OpensReturned == \A p \in Openers : opc[p] \in OpenEnded \cup {"opened", "used"}
=============================================================================
