-------------------------------- MODULE SemSysv --------------------------------
(******************************************************************************)
(* unpv22e/my_pxsem_svsem: POSIX semaphores on top of System V semaphores.    *)
(* The name is a file, ftok turns it into a key, semget turns the key into a  *)
(* semaphore.  Creating and initialising are separate system calls; sem_otime *)
(* becomes nonzero with the last of them, and whoever opens an existing       *)
(* semaphore polls for that.  Every system call is a step.                    *)
(******************************************************************************)
EXTENDS Integers, FiniteSets

CONSTANTS
  SvProc,      \* the processes
  SvValue,     \* the initial value given to sem_open
  SV_TRIES,    \* MAX_TRIES
  SvMaxIds,    \* bound: files and semaphores created
  SvFailures   \* bound: malloc failures

ASSUME SvAssumption ==
  IsFiniteSet(SvProc) /\ SvValue \in Nat /\ SV_TRIES \in Nat \ {0} /\ SvMaxIds \in Nat /\ SvFailures \in Nat

SvId == 1 .. SvMaxIds

VARIABLES
  svPath,      \* the file of the name, 0 if none
  svFiles,     \* files created so far
  svKey,       \* [SvId (of a file) -> the semaphore of its key, 0 if none]
  svIds,       \* semaphores created so far
  svAlive,     \* the semaphores not removed
  semval,      \* [SvId -> the value]
  sem_otime,   \* the semaphores on which a semop was done
  svPc, svOflag, svTries,
  svFile,      \* [SvProc -> the file ftok found]
  sem_semid,   \* [SvProc -> the semaphore it works on, 0 for -1]
  svFailed,    \* malloc failures so far
  svRemover    \* a sem_open that failed, or a sem_unlink, has removed a semaphore

svKernel == <<svPath, svFiles, svKey, svIds, svAlive, semval, sem_otime>>
svCall == <<svOflag, svTries, svFile, sem_semid>>
svVars == <<svKernel, svPc, svCall, svFailed, svRemover>>

SvOpening == {"open", "ftok", "semget", "setval", "initop", "ftok2", "semget2", "stat",
              "finish", "err", "unlink", "unsemget"}
SvHandles == {"ready", "blocked", "held"}
SvOn(i, S) == {p \in SvProc : svPc[p] \in S /\ sem_semid[p] = i}

\* The types of the name, the kernel's semaphores and the processes.
SvTypeOK ==
  /\ svPath \in 0 .. svFiles /\ svFiles \in 0 .. SvMaxIds /\ svIds \in 0 .. SvMaxIds
  /\ svKey \in [SvId -> 0 .. SvMaxIds] /\ svAlive \subseteq SvId
  /\ semval \in [SvId -> Nat] /\ sem_otime \subseteq SvId
  /\ svPc \in [SvProc -> {"idle"} \union SvOpening \union SvHandles]
  /\ svTries \in [SvProc -> 0 .. SV_TRIES - 1]
  /\ svFile \in [SvProc -> 0 .. SvMaxIds] /\ sem_semid \in [SvProc -> 0 .. SvMaxIds]

SvInit ==
  /\ svPath = 0 /\ svFiles = 0 /\ svKey = [f \in SvId |-> 0]
  /\ svIds = 0 /\ svAlive = {} /\ semval = [i \in SvId |-> 0] /\ sem_otime = {}
  /\ svPc = [p \in SvProc |-> "idle"] /\ svOflag = [p \in SvProc |-> {}]
  /\ svTries = [p \in SvProc |-> 0] /\ svFile = [p \in SvProc |-> 0]
  /\ sem_semid = [p \in SvProc |-> 0]
  /\ svFailed = 0 /\ svRemover = FALSE

--------------------------------------------------------------------------------
(* sem_open                                                                   *)

SvGoes(p, from, to) == svPc[p] = from /\ svPc' = [svPc EXCEPT ![p] = to]

\* The call ends without a semaphore.
SvNothing(p) ==
  /\ svPc' = [svPc EXCEPT ![p] = "idle"]
  /\ svOflag' = [svOflag EXCEPT ![p] = {}] /\ svTries' = [svTries EXCEPT ![p] = 0]
  /\ svFile' = [svFile EXCEPT ![p] = 0] /\ sem_semid' = [sem_semid EXCEPT ![p] = 0]

SvCallOpen(p) ==
  /\ \E flags \in {{}, {"O_CREAT"}, {"O_CREAT", "O_EXCL"}} :
       /\ svOflag' = [svOflag EXCEPT ![p] = flags]
       /\ SvGoes(p, "idle", IF flags = {} THEN "ftok2" ELSE "open")
  /\ UNCHANGED <<svKernel, svTries, svFile, sem_semid, svFailed, svRemover>>

\* open(pathname, oflag, mode): make the file if it is not there.
SvOpenFile(p) ==
  /\ \/ /\ svPath = 0 /\ svFiles < SvMaxIds
        /\ svFiles' = svFiles + 1 /\ svPath' = svFiles + 1
        /\ SvGoes(p, "open", "ftok")
        /\ UNCHANGED svCall
     \/ /\ svPath # 0 /\ "O_EXCL" \notin svOflag[p]
        /\ SvGoes(p, "open", "ftok")
        /\ UNCHANGED <<svPath, svFiles, svCall>>
     \/ /\ svPc[p] = "open" /\ svPath # 0 /\ "O_EXCL" \in svOflag[p]
        /\ SvNothing(p)
        /\ UNCHANGED <<svPath, svFiles>>
  /\ UNCHANGED <<svKey, svIds, svAlive, semval, sem_otime, svFailed, svRemover>>

\* ftok fails if the name is gone; the second one does so with semid = -1.
SvFtok(p) ==
  /\ \E place \in {<<"ftok", "semget">>, <<"ftok2", "semget2">>} :
       \/ /\ svPath # 0
          /\ SvGoes(p, place[1], place[2])
          /\ svFile' = [svFile EXCEPT ![p] = svPath]
          /\ UNCHANGED <<svOflag, svTries, sem_semid>>
       \/ svPath = 0 /\ svPc[p] = place[1] /\ SvNothing(p)
  /\ UNCHANGED <<svKernel, svFailed, svRemover>>

\* semget with IPC_CREAT | IPC_EXCL: the first one creates.
SvSemgetCreate(p) ==
  /\ svPc[p] = "semget"
  /\ \/ /\ svKey[svFile[p]] = 0 /\ svIds < SvMaxIds
        /\ SvGoes(p, "semget", "setval")
        /\ svIds' = svIds + 1 /\ svAlive' = svAlive \union {svIds + 1}
        /\ svKey' = [svKey EXCEPT ![svFile[p]] = svIds + 1]
        /\ sem_semid' = [sem_semid EXCEPT ![p] = svIds + 1]
        /\ UNCHANGED <<svOflag, svTries, svFile>>
     \/ /\ svKey[svFile[p]] # 0 /\ "O_EXCL" \notin svOflag[p]
        /\ SvGoes(p, "semget", "ftok2")
        /\ UNCHANGED <<svIds, svAlive, svKey, svCall>>
     \/ /\ svKey[svFile[p]] # 0 /\ "O_EXCL" \in svOflag[p]
        /\ SvNothing(p)
        /\ UNCHANGED <<svIds, svAlive, svKey>>
  /\ UNCHANGED <<svPath, svFiles, semval, sem_otime, svFailed, svRemover>>

\* A system call on a semaphore that was removed in the meantime fails.
SvOrErr(p, place, doing) ==
  /\ svPc[p] = place
  /\ IF sem_semid[p] \in svAlive THEN doing
     ELSE /\ svPc' = [svPc EXCEPT ![p] = "err"]
          /\ UNCHANGED <<semval, sem_otime, svTries>>
  /\ UNCHANGED <<svPath, svFiles, svKey, svIds, svAlive, svOflag, svFile, sem_semid,
                 svFailed, svRemover>>

\* semctl(SETVAL) to 0.
SvSetval(p) ==
  SvOrErr(p, "setval",
    /\ svPc' = [svPc EXCEPT ![p] = "initop"]
    /\ semval' = [semval EXCEPT ![sem_semid[p]] = 0]
    /\ UNCHANGED <<sem_otime, svTries>>)

\* semop by value, which makes sem_otime nonzero.
SvInitop(p) ==
  SvOrErr(p, "initop",
    /\ svPc' = [svPc EXCEPT ![p] = "finish"]
    /\ semval' = [semval EXCEPT ![sem_semid[p]] = @ + SvValue]
    /\ sem_otime' = sem_otime \union {sem_semid[p]}
    /\ UNCHANGED svTries)

\* semget(key, 0, semflag) of an existing semaphore.
SvSemget(p) ==
  /\ svPc[p] = "semget2"
  /\ \/ /\ svKey[svFile[p]] # 0
        /\ SvGoes(p, "semget2", "stat")
        /\ sem_semid' = [sem_semid EXCEPT ![p] = svKey[svFile[p]]]
        /\ UNCHANGED <<svOflag, svTries, svFile>>
     \/ svKey[svFile[p]] = 0 /\ SvNothing(p)
  /\ UNCHANGED <<svKernel, svFailed, svRemover>>

SvAnyTime(p) == TRUE        \* mutant: no look at sem_otime
SvInitialised(p) == sem_semid[p] \in sem_otime

SvLeft(p) == svTries[p] + 1 < SV_TRIES

\* A round of the polling loop.
SvStat(p) ==
  SvOrErr(p, "stat",
    /\ UNCHANGED <<semval, sem_otime>>
    /\ \/ /\ SvInitialised(p)
          /\ svPc' = [svPc EXCEPT ![p] = "finish"]
          /\ svTries' = [svTries EXCEPT ![p] = 0]
       \/ /\ ~SvInitialised(p) /\ SvLeft(p)
          /\ svTries' = [svTries EXCEPT ![p] = @ + 1]
          /\ UNCHANGED svPc
       \/ /\ ~SvInitialised(p) /\ ~SvLeft(p)
          /\ svPc' = [svPc EXCEPT ![p] = "err"]
          /\ svTries' = [svTries EXCEPT ![p] = 0])

\* finish: the handle, or no memory for it.
SvFinish(p) ==
  /\ \/ /\ SvGoes(p, "finish", "ready")
        /\ svOflag' = [svOflag EXCEPT ![p] = {}] /\ svFile' = [svFile EXCEPT ![p] = 0]
        /\ UNCHANGED svFailed
     \/ /\ SvGoes(p, "finish", "err")
        /\ svFailed < SvFailures /\ svFailed' = svFailed + 1
        /\ UNCHANGED <<svOflag, svFile>>
  /\ UNCHANGED <<svKernel, svTries, sem_semid, svRemover>>

SvRemoved(i) ==
  /\ svAlive' = svAlive \ {i}
  /\ svKey' = [f \in SvId |-> IF svKey[f] = i THEN 0 ELSE svKey[f]]

\* err: semctl(IPC_RMID), also by a process that did not create the semaphore.  The end of
\* sem_unlink is the same.
SvErr(p) ==
  /\ svPc[p] = "err"
  /\ SvRemoved(sem_semid[p])
  /\ SvNothing(p)
  /\ svRemover' = TRUE
  /\ UNCHANGED <<svPath, svFiles, svIds, semval, sem_otime, svFailed>>

--------------------------------------------------------------------------------
(* The other operations                                                       *)

\* sem_unlink: ftok, unlink, semget, semctl(IPC_RMID); a failure of one ends the call.
SvUnlinkFtok(p) ==
  /\ svPath # 0
  /\ SvGoes(p, "idle", "unlink")
  /\ svFile' = [svFile EXCEPT ![p] = svPath]
  /\ UNCHANGED <<svKernel, svOflag, svTries, sem_semid, svFailed, svRemover>>

SvUnlinkName(p) ==
  /\ svPc[p] = "unlink"
  /\ IF svPath = 0 THEN SvNothing(p)
     ELSE svPc' = [svPc EXCEPT ![p] = "unsemget"] /\ UNCHANGED svCall
  /\ svPath' = 0
  /\ UNCHANGED <<svFiles, svKey, svIds, svAlive, semval, sem_otime, svFailed, svRemover>>

SvUnlinkSemget(p) ==
  /\ svPc[p] = "unsemget"
  /\ IF svKey[svFile[p]] = 0 THEN SvNothing(p)
     ELSE /\ svPc' = [svPc EXCEPT ![p] = "err"]
          /\ sem_semid' = [sem_semid EXCEPT ![p] = svKey[svFile[p]]]
          /\ UNCHANGED <<svOflag, svTries, svFile>>
  /\ UNCHANGED <<svKernel, svFailed, svRemover>>

SvHas(p) == sem_semid[p] \in svAlive
SvRest == UNCHANGED <<svPath, svFiles, svKey, svIds, svAlive, svCall, svFailed, svRemover>>

\* sem_wait and sem_trywait: semop(-1), with IPC_NOWAIT or not.
SvWait(p) ==
  /\ svPc[p] \in {"ready", "blocked"} /\ SvHas(p)
  /\ \/ /\ semval[sem_semid[p]] > 0
        /\ svPc' = [svPc EXCEPT ![p] = "held"]
        /\ semval' = [semval EXCEPT ![sem_semid[p]] = @ - 1]
        /\ sem_otime' = sem_otime \union {sem_semid[p]}
     \/ /\ semval[sem_semid[p]] = 0
        /\ svPc' = [svPc EXCEPT ![p] = "blocked"]
        /\ UNCHANGED <<semval, sem_otime>>
  /\ SvRest

SvPost(p) ==
  /\ SvGoes(p, "held", "ready") /\ SvHas(p)
  /\ semval' = [semval EXCEPT ![sem_semid[p]] = @ + 1]
  /\ sem_otime' = sem_otime \union {sem_semid[p]}
  /\ SvRest

\* A semop on a removed semaphore returns -1; a sleeper is woken with EIDRM.
SvGone(p) ==
  /\ svPc[p] \in {"blocked", "held"} /\ ~SvHas(p)
  /\ svPc' = [svPc EXCEPT ![p] = "ready"]
  /\ UNCHANGED <<semval, sem_otime>>
  /\ SvRest

SvClose(p) ==
  /\ svPc[p] = "ready"
  /\ SvNothing(p)
  /\ UNCHANGED <<svKernel, svFailed, svRemover>>

SvOpenStep(p) ==
  \/ SvOpenFile(p) \/ SvFtok(p) \/ SvSemgetCreate(p) \/ SvSetval(p) \/ SvInitop(p)
  \/ SvSemget(p) \/ SvStat(p) \/ SvFinish(p) \/ SvErr(p)

SvNext ==
  \E p \in SvProc :
    \/ SvCallOpen(p) \/ SvOpenStep(p)
    \/ SvUnlinkFtok(p) \/ SvUnlinkName(p) \/ SvUnlinkSemget(p)
    \/ SvWait(p) \/ SvPost(p) \/ SvGone(p) \/ SvClose(p)

SvSpec == SvInit /\ [][SvNext]_svVars

--------------------------------------------------------------------------------
(* Properties                                                                 *)

\* The initialisation by the creator does not undo a wait or a post of anyone else: value and
\* holders of an initialised semaphore make up the initial value.
SvConserved ==
  \A i \in svAlive \intersect sem_otime :
    semval[i] + Cardinality(SvOn(i, {"held"})) = SvValue

\* A handle is for an initialised semaphore; and the semaphore is there, as long as no sem_open
\* fails with a semaphore in hand and nobody unlinks.
SvReadyWhenOpen ==
  \A p \in SvProc : svPc[p] \in SvHandles =>
    /\ sem_semid[p] \in sem_otime
    /\ ~svRemover => sem_semid[p] \in svAlive

\* What sem_open promises though creating and initialising are several system calls, any of which
\* may fail: an open semaphore is initialised, and its value is right.
SvSafe == SvTypeOK /\ SvConserved /\ SvReadyWhenOpen
================================================================================
