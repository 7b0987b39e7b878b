-------------------------------- MODULE SemMmap --------------------------------
(******************************************************************************)
(* unpv22e/my_pxsem_mmap: POSIX semaphores in a mapped file.  The file is     *)
(* created with the user-execute bit on, which its creator turns off when the *)
(* semaphore is initialised; whoever opens an existing file polls for that.   *)
(*                                                                            *)
(* A process opens the semaphore, takes it (wait, trywait) and gives it back  *)
(* (post), closes it.  The sections under sem_mutex are single steps.         *)
(******************************************************************************)
EXTENDS Integers, FiniteSets

CONSTANTS
  SmProc,       \* the processes
  SmValue,      \* the initial value given to sem_open
  SM_TRIES,     \* MAX_TRIES
  SmMaxFiles,   \* bound: files created
  SmMaxDeaths   \* bound: processes killed inside sem_open

ASSUME SmAssumption ==
  /\ IsFiniteSet(SmProc)
  /\ SmValue \in Nat /\ SM_TRIES \in Nat \ {0} /\ SmMaxFiles \in Nat /\ SmMaxDeaths \in Nat

SmFile == 1 .. SmMaxFiles

VARIABLES
  smPath,      \* the file the name stands for, 0 if none
  smFiles,     \* files created so far
  smXusr,      \* the files with S_IXUSR on
  smReady,     \* the files whose mutex, condition variable and count are initialised
  sem_count,   \* [SmFile -> the value]
  smPc,        \* [SmProc -> its place in the calls]
  smFd,        \* [SmProc -> the file it has open or mapped]
  smOflag,     \* [SmProc -> O_CREAT and O_EXCL of its call]
  smTries,     \* [SmProc -> i of the polling loop]
  smUnlinked,  \* the name was removed at some time
  smCrowd      \* two processes have slept on one sem_cond at the same time

smDisk == <<smPath, smFiles, smXusr, smReady, sem_count>>
smCall == <<smFd, smOflag, smTries>>
smVars == <<smDisk, smPc, smCall, smUnlinked, smCrowd>>

SmOpening == {"again", "fill", "chmod", "exists", "stat"}
SmMapped == {"open", "asleep", "woken", "held"}
SmAt(S) == {p \in SmProc : smPc[p] \in S}
SmOn(f, S) == {p \in SmAt(S) : smFd[p] = f}

\* The types of the file, the name and the processes of the mapped semaphore.
SmTypeOK ==
  /\ smPath \in 0 .. smFiles /\ smFiles \in 0 .. SmMaxFiles
  /\ smXusr \subseteq SmFile /\ smReady \subseteq SmFile /\ sem_count \in [SmFile -> Nat]
  /\ smPc \in [SmProc -> SmOpening \union SmMapped \union {"idle", "dead"}]
  /\ smFd \in [SmProc -> 0 .. smFiles] /\ smTries \in [SmProc -> 0 .. SM_TRIES - 1]
  /\ smOflag \in [SmProc -> SUBSET {"O_CREAT", "O_EXCL"}]

SmInit ==
  /\ smPath = 0 /\ smFiles = 0 /\ smXusr = {} /\ smReady = {}
  /\ sem_count = [f \in SmFile |-> 0]
  /\ smPc = [p \in SmProc |-> "idle"] /\ smFd = [p \in SmProc |-> 0]
  /\ smOflag = [p \in SmProc |-> {}] /\ smTries = [p \in SmProc |-> 0]
  /\ smUnlinked = FALSE /\ smCrowd = FALSE

--------------------------------------------------------------------------------
(* sem_open                                                                   *)

SmGoes(p, from, to) == smPc[p] = from /\ smPc' = [smPc EXCEPT ![p] = to]

\* The end of a call: its flags and its loop counter are gone.
SmReturns(p) == smOflag' = [smOflag EXCEPT ![p] = {}] /\ smTries' = [smTries EXCEPT ![p] = 0]

\* sem_open without flags, with O_CREAT, with O_CREAT and O_EXCL.
SemOpen(p) ==
  /\ \E flags \in {{}, {"O_CREAT"}, {"O_CREAT", "O_EXCL"}} :
       /\ smOflag' = [smOflag EXCEPT ![p] = flags]
       /\ SmGoes(p, "idle", IF flags = {} THEN "exists" ELSE "again")
  /\ UNCHANGED <<smDisk, smFd, smTries, smUnlinked, smCrowd>>

\* again: open with O_EXCL, in any case.
SmCreate(p) ==
  /\ \/ /\ smPath = 0 /\ smFiles < SmMaxFiles
        /\ smFiles' = smFiles + 1 /\ smPath' = smFiles + 1
        /\ smXusr' = smXusr \union {smFiles + 1}
        /\ smFd' = [smFd EXCEPT ![p] = smFiles + 1]
        /\ SmGoes(p, "again", "fill")
        /\ UNCHANGED <<smOflag, smTries>>
     \/ /\ smPath # 0
        /\ IF "O_EXCL" \in smOflag[p]
             THEN SmGoes(p, "again", "idle") /\ SmReturns(p)
             ELSE SmGoes(p, "again", "exists") /\ UNCHANGED <<smOflag, smTries>>
        /\ UNCHANGED <<smPath, smFiles, smXusr, smFd>>
  /\ UNCHANGED <<smReady, sem_count, smUnlinked, smCrowd>>

\* err: the creator removes the name (whatever it stands for by now); all return SEM_FAILED.
SmFails(p, created) ==
  /\ smPc' = [smPc EXCEPT ![p] = "idle"]
  /\ smFd' = [smFd EXCEPT ![p] = 0]
  /\ SmReturns(p)
  /\ smPath' = IF created THEN 0 ELSE smPath
  /\ smUnlinked' = (smUnlinked \/ created)
  /\ UNCHANGED <<smFiles, smXusr, smReady, sem_count, smCrowd>>

\* Write zeros, map the file, initialise mutex, condition variable and value.
SmFill(p) ==
  \/ /\ SmGoes(p, "fill", "chmod")
     /\ smReady' = smReady \union {smFd[p]}
     /\ sem_count' = [sem_count EXCEPT ![smFd[p]] = SmValue]
     /\ UNCHANGED <<smPath, smFiles, smXusr, smCall, smUnlinked, smCrowd>>
  \/ smPc[p] = "fill" /\ SmFails(p, TRUE)

\* fchmod turns the bit off.
SmChmod(p) ==
  \/ /\ SmGoes(p, "chmod", "open")
     /\ smXusr' = smXusr \ {smFd[p]}
     /\ SmReturns(p)
     /\ UNCHANGED <<smPath, smFiles, smReady, sem_count, smFd, smUnlinked, smCrowd>>
  \/ smPc[p] = "chmod" /\ SmFails(p, TRUE)

\* exists: open the file and map it.
SmExists(p) ==
  \/ /\ smPath # 0
     /\ SmGoes(p, "exists", "stat")
     /\ smFd' = [smFd EXCEPT ![p] = smPath]
     /\ UNCHANGED <<smDisk, smOflag, smTries, smUnlinked, smCrowd>>
  \/ /\ smPath = 0 /\ "O_CREAT" \in smOflag[p]
     /\ SmGoes(p, "exists", "again")
     /\ UNCHANGED <<smDisk, smCall, smUnlinked, smCrowd>>
  \/ /\ smPc[p] = "exists" /\ smPath = 0 /\ "O_CREAT" \notin smOflag[p]
     /\ SmFails(p, FALSE)

SmIsThere == smPath # 0        \* mutant: the bit is not looked at
SmIsReady == smPath # 0 /\ smPath \notin smXusr

SmPollsOn(p) == UNCHANGED smTries        \* mutant: the loop does not count
SmPolled(p) == smTries' = [smTries EXCEPT ![p] = @ + 1]

\* One round of the polling loop: stat of the name, not of the file that was opened.
SmStat(p) ==
  \/ /\ SmIsReady
     /\ SmGoes(p, "stat", "open")
     /\ SmReturns(p)
     /\ UNCHANGED <<smDisk, smFd, smUnlinked, smCrowd>>
  \/ /\ smPath \in smXusr /\ smTries[p] + 1 < SM_TRIES
     /\ SmGoes(p, "stat", "stat")
     /\ SmPolled(p)
     /\ UNCHANGED <<smDisk, smFd, smOflag, smUnlinked, smCrowd>>
  \/ /\ smPath = 0 /\ "O_CREAT" \in smOflag[p]
     /\ SmGoes(p, "stat", "again")
     /\ smFd' = [smFd EXCEPT ![p] = 0] /\ smTries' = [smTries EXCEPT ![p] = 0]
     /\ UNCHANGED <<smDisk, smOflag, smUnlinked, smCrowd>>
  \/ /\ smPc[p] = "stat"
     /\ \/ smPath \in smXusr /\ smTries[p] + 1 = SM_TRIES
        \/ smPath = 0 /\ "O_CREAT" \notin smOflag[p]
     /\ SmFails(p, FALSE)

SemUnlink ==
  /\ smPath # 0
  /\ smPath' = 0 /\ smUnlinked' = TRUE
  /\ UNCHANGED <<smFiles, smXusr, smReady, sem_count, smPc, smCall, smCrowd>>

\* A process is killed inside sem_open.
SmDie(p) ==
  /\ smPc[p] \in SmOpening /\ Cardinality(SmAt({"dead"})) < SmMaxDeaths
  /\ smPc' = [smPc EXCEPT ![p] = "dead"]
  /\ UNCHANGED <<smDisk, smCall, smUnlinked, smCrowd>>

--------------------------------------------------------------------------------
(* The operations of an open semaphore                                        *)

SmRest == UNCHANGED <<smPath, smFiles, smXusr, smReady, smCall, smUnlinked>>

\* sem_wait, and its loop after a wakeup.
SemWait(p) ==
  /\ smPc[p] \in {"open", "woken"}
  /\ LET f == smFd[p]
     IN  \/ /\ sem_count[f] > 0
            /\ sem_count' = [sem_count EXCEPT ![f] = @ - 1]
            /\ smPc' = [smPc EXCEPT ![p] = "held"]
            /\ UNCHANGED smCrowd
         \/ /\ sem_count[f] = 0
            /\ smPc' = [smPc EXCEPT ![p] = "asleep"]
            /\ smCrowd' = (smCrowd \/ SmOn(f, {"asleep"}) # {})
            /\ UNCHANGED sem_count
  /\ SmRest

\* sem_trywait takes the semaphore or returns EAGAIN.
SemTrywait(p) ==
  /\ SmGoes(p, "open", "held")
  /\ sem_count[smFd[p]] > 0
  /\ sem_count' = [sem_count EXCEPT ![smFd[p]] = @ - 1]
  /\ UNCHANGED smCrowd
  /\ SmRest

SmSignals(f) == sem_count[f] = 0

\* sem_post signals only a count of zero.
SemPost(p) ==
  /\ smPc[p] = "held"
  /\ LET f == smFd[p]
         done == [smPc EXCEPT ![p] = "open"]
         asleep == SmOn(f, {"asleep"})
     IN  /\ IF SmSignals(f) /\ asleep # {}
              THEN \E q \in asleep : smPc' = [done EXCEPT ![q] = "woken"]
              ELSE smPc' = done
         /\ sem_count' = [sem_count EXCEPT ![f] = @ + 1]
  /\ UNCHANGED smCrowd
  /\ SmRest

SemClose(p) ==
  /\ SmGoes(p, "open", "idle")
  /\ smFd' = [smFd EXCEPT ![p] = 0]
  /\ UNCHANGED <<smDisk, smOflag, smTries, smUnlinked, smCrowd>>

SmOpenStep(p) == SmCreate(p) \/ SmFill(p) \/ SmChmod(p) \/ SmExists(p) \/ SmStat(p)

SmNext ==
  \/ SemUnlink
  \/ \E p \in SmProc :
       \/ SemOpen(p) \/ SmOpenStep(p) \/ SmDie(p)
       \/ SemWait(p) \/ SemTrywait(p) \/ SemPost(p) \/ SemClose(p)

SmSpec == SmInit /\ [][SmNext]_smVars

\* A process inside sem_open goes on.
SmFairness == \A p \in SmProc : WF_smVars(SmOpenStep(p))

--------------------------------------------------------------------------------
(* Properties                                                                 *)

\* "make certain initialization is complete" (sem_open.c:92): nobody has a semaphore that is
\* not initialised, and all that opened the name have the same one, as long as the name is not
\* removed.
SmReadyWhenOpen ==
  ~smUnlinked =>
    /\ \A p \in SmAt(SmMapped) : smFd[p] \in smReady
    /\ \A p, q \in SmAt(SmMapped) : smFd[p] = smFd[q]

\* Nobody is lost and nobody counted twice: value and holders make up the initial value, so no
\* more than SmValue processes hold a semaphore.
SmConserved ==
  \A f \in smReady : ~smUnlinked => sem_count[f] + Cardinality(SmOn(f, {"held"})) = SmValue

\* As long as no two processes sleep at once and the name is not removed, nobody sleeps while
\* the value is positive, unless one is awake to take it.
SmNoLostWakeup ==
  ~smCrowd /\ ~smUnlinked => \A p \in SmAt({"asleep"}) :
    sem_count[smFd[p]] > 0 => SmOn(smFd[p], {"woken"}) # {}

\* Every sem_open returns, whoever else creates, removes or dies meanwhile; it is stopped only
\* by the bound on files.
SmOpenReturns ==
  \A p \in SmProc :
    smPc[p] \in SmOpening ~>
      smPc[p] \notin SmOpening \/ (smPc[p] = "again" /\ smFiles = SmMaxFiles)

\* What the semaphores promise in every state, through creation, removal and death at any step of
\* sem_open: initialised when open, nothing lost or counted twice, no sleep beside a free one.
SmSafe == SmTypeOK /\ SmReadyWhenOpen /\ SmConserved /\ SmNoLostWakeup
================================================================================
