--------------------------------- MODULE RwLock --------------------------------
(******************************************************************************)
(* The read-write lock of unpv22e/my_rwlock, and its version with             *)
(* cancellation handlers in unpv22e/my_rwlock_cancel.  RwThread are threads   *)
(* that take and release the lock RwCalls times; as in testcancel.c the main  *)
(* thread joins them and then destroys the lock.                              *)
(*                                                                            *)
(* Every access to the structure is made between pthread_mutex_lock and the   *)
(* next pthread_cond_wait or pthread_mutex_unlock on rw_mutex (destroy, which *)
(* takes no mutex, runs after the joins), so each such section is one step.   *)
(******************************************************************************)
EXTENDS Integers, FiniteSets

CONSTANTS
  RwThread,   \* the threads that use the lock
  RwCalls     \* bound: lock calls of a thread

ASSUME RwThreadAssumption == IsFiniteSet(RwThread)
ASSUME RwCallsAssumption == RwCalls \in Nat

RwFree == "free"
ASSUME RwFreeAssumption == RwFree \notin RwThread

VARIABLES
  cleanup,          \* which library is linked: TRUE for my_rwlock_cancel; never changes
  rw_magic,         \* the magic number is in place
  rw_mutex,         \* RwFree, or the dead thread that took rw_mutex with it
  rw_nwaitreaders, rw_nwaitwriters, rw_refcount,
  rwPc,             \* [RwThread -> where it is in the calls]
  rwLeft,           \* [RwThread -> lock calls still to make]
  rwCancelled,      \* the threads that were cancelled
  rwMain            \* what the main thread is at: "join", or what destroy returned

rwCounts == <<rw_nwaitreaders, rw_nwaitwriters, rw_refcount>>
rwVars == <<cleanup, rw_magic, rw_mutex, rwCounts, rwPc, rwLeft, rwCancelled, rwMain>>

\* "rdwait": asleep on rw_condreaders.  "rdwoken": awake, needs rw_mutex to return from
\* pthread_cond_wait.  "rdcancel": cancelled there, needs rw_mutex to run its handler.
RwWaiting == [rd |-> {"rdwait", "rdwoken", "rdcancel"},
              wr |-> {"wrwait", "wrwoken", "wrcancel"}]
RwPc == {"idle", "reading", "writing", "done"} \union RwWaiting.rd \union RwWaiting.wr

RwAt(S) == {t \in RwThread : rwPc[t] \in S}

\* The types of the variables of the model of pthread_rwlock_t and its callers.
RwTypeOK ==
  /\ cleanup \in BOOLEAN /\ rw_magic \in BOOLEAN
  /\ rw_mutex \in RwThread \union {RwFree}
  /\ rw_nwaitreaders \in Nat /\ rw_nwaitwriters \in Nat
  /\ rw_refcount \in Int /\ rw_refcount >= -1
  /\ rwPc \in [RwThread -> RwPc]
  /\ rwLeft \in [RwThread -> 0 .. RwCalls]
  /\ rwCancelled \subseteq RwThread
  /\ rwMain \in {"join", "destroyed", "EBUSY"}

\* pthread_rwlock_init, or PTHREAD_RWLOCK_INITIALIZER.
RwInit ==
  /\ cleanup \in BOOLEAN
  /\ rw_magic = TRUE
  /\ rw_mutex = RwFree
  /\ rw_nwaitreaders = 0 /\ rw_nwaitwriters = 0 /\ rw_refcount = 0
  /\ rwPc = [t \in RwThread |-> "idle"]
  /\ rwLeft = [t \in RwThread |-> RwCalls]
  /\ rwCancelled = {} /\ rwMain = "join"

--------------------------------------------------------------------------------

RwGoes(t, to) == rwPc' = [rwPc EXCEPT ![t] = to]
RwSame == UNCHANGED <<cleanup, rw_magic, rw_mutex, rwCancelled, rwMain>>

\* A thread calls one of the four lock functions.
RwCalling(t) ==
  /\ rwPc[t] = "idle" /\ rwLeft[t] > 0 /\ rw_magic /\ rw_mutex = RwFree
  /\ rwLeft' = [rwLeft EXCEPT ![t] = @ - 1]
  /\ RwSame

\* A thread is back from pthread_cond_wait.
RwReturns(t, woken) ==
  /\ rwPc[t] = woken /\ rw_mutex = RwFree
  /\ UNCHANGED rwLeft
  /\ RwSame

ReadersWait == rw_refcount < 0 \/ rw_nwaitwriters > 0
WritersWaitWriters == rw_refcount < 0          \* mutant: a writer joins the readers
WritersWait == rw_refcount # 0

Rdlock(t) ==
  /\ RwCalling(t)
  /\ \/ /\ ReadersWait
        /\ rw_nwaitreaders' = rw_nwaitreaders + 1
        /\ RwGoes(t, "rdwait")
        /\ UNCHANGED <<rw_nwaitwriters, rw_refcount>>
     \/ /\ ~ReadersWait
        /\ rw_refcount' = rw_refcount + 1
        /\ RwGoes(t, "reading")
        /\ UNCHANGED <<rw_nwaitreaders, rw_nwaitwriters>>

\* nwaitreaders-- and once more round the loop.
RdlockAgain(t) ==
  /\ RwReturns(t, "rdwoken")
  /\ \/ /\ ReadersWait
        /\ RwGoes(t, "rdwait")
        /\ UNCHANGED rwCounts
     \/ /\ ~ReadersWait
        /\ rw_nwaitreaders' = rw_nwaitreaders - 1
        /\ rw_refcount' = rw_refcount + 1
        /\ RwGoes(t, "reading")
        /\ UNCHANGED rw_nwaitwriters

Wrlock(t) ==
  /\ RwCalling(t)
  /\ \/ /\ WritersWait
        /\ rw_nwaitwriters' = rw_nwaitwriters + 1
        /\ RwGoes(t, "wrwait")
        /\ UNCHANGED <<rw_nwaitreaders, rw_refcount>>
     \/ /\ ~WritersWait
        /\ rw_refcount' = -1
        /\ RwGoes(t, "writing")
        /\ UNCHANGED <<rw_nwaitreaders, rw_nwaitwriters>>

WrlockAgain(t) ==
  /\ RwReturns(t, "wrwoken")
  /\ \/ /\ WritersWait
        /\ RwGoes(t, "wrwait")
        /\ UNCHANGED rwCounts
     \/ /\ ~WritersWait
        /\ rw_nwaitwriters' = rw_nwaitwriters - 1
        /\ rw_refcount' = -1
        /\ RwGoes(t, "writing")
        /\ UNCHANGED rw_nwaitreaders


\* The two try functions return EBUSY where the others wait.
Tryrdlock(t) ==
  /\ RwCalling(t)
  /\ rw_refcount' = IF ReadersWait THEN rw_refcount ELSE rw_refcount + 1
  /\ RwGoes(t, IF ReadersWait THEN "idle" ELSE "reading")
  /\ UNCHANGED <<rw_nwaitreaders, rw_nwaitwriters>>

Trywrlock(t) ==
  /\ RwCalling(t)
  /\ rw_refcount' = IF WritersWait THEN rw_refcount ELSE -1
  /\ RwGoes(t, IF WritersWait THEN "idle" ELSE "writing")
  /\ UNCHANGED <<rw_nwaitreaders, rw_nwaitwriters>>

--------------------------------------------------------------------------------

\* pthread_cond_signal(&rw_condwriters) and pthread_cond_broadcast(&rw_condreaders), pc being
\* the places of the threads after the caller's own move.
SignalWriters(pc) ==
  IF RwAt({"wrwait"}) = {} THEN rwPc' = pc
  ELSE \E w \in RwAt({"wrwait"}) : rwPc' = [pc EXCEPT ![w] = "wrwoken"]
BroadcastReaders(pc) ==
  rwPc' = [t \in RwThread |-> IF rwPc[t] = "rdwait" THEN "rdwoken" ELSE pc[t]]

\* Whom the unlock that leaves rw_refcount = left wakes.
UnlockWakes(left, pc) ==
  IF rw_nwaitwriters > 0
    THEN IF left = 0 THEN SignalWriters(pc) ELSE rwPc' = pc
    ELSE IF rw_nwaitreaders > 0 THEN BroadcastReaders(pc) ELSE rwPc' = pc

\* The same in my_rwlock_cancel, which signals a writer whatever the count.
UnlockWakesCancel(left, pc) ==
  IF rw_nwaitwriters > 0
    THEN SignalWriters(pc)
    ELSE IF rw_nwaitreaders > 0 THEN BroadcastReaders(pc) ELSE rwPc' = pc

RefcountUnlocked == IF rw_refcount > 0 THEN rw_refcount - 1 ELSE 0

\* err_dump is not modelled: RwExclusion excludes a count of zero here.
Unlock(t) ==
  /\ rwPc[t] \in {"reading", "writing"} /\ rw_magic /\ rw_mutex = RwFree
  /\ LET left == RefcountUnlocked
         pc == [rwPc EXCEPT ![t] = "idle"]
     IN  /\ rw_refcount' = left
         /\ IF cleanup THEN UnlockWakesCancel(left, pc) ELSE UnlockWakes(left, pc)
  /\ UNCHANGED <<rw_nwaitreaders, rw_nwaitwriters, rwLeft>>
  /\ RwSame

--------------------------------------------------------------------------------

\* pthread_cond_wait may return without a signal.
SpuriousWakeup(t) ==
  /\ \/ rwPc[t] = "rdwait" /\ RwGoes(t, "rdwoken")
     \/ rwPc[t] = "wrwait" /\ RwGoes(t, "wrwoken")
  /\ UNCHANGED <<rwCounts, rwLeft>>
  /\ RwSame

\* pthread_cancel reaches a thread in pthread_cond_wait, which then waits for rw_mutex.
Cancel(t) ==
  /\ \/ rwPc[t] \in {"rdwait", "rdwoken"} /\ RwGoes(t, "rdcancel")
     \/ rwPc[t] \in {"wrwait", "wrwoken"} /\ RwGoes(t, "wrcancel")
  /\ rwCancelled' = rwCancelled \union {t}
  /\ UNCHANGED <<cleanup, rw_magic, rw_mutex, rwCounts, rwLeft, rwMain>>

CancelActs(t, place) ==
  /\ rwPc[t] \in place /\ rw_mutex = RwFree
  /\ RwGoes(t, "done")
  /\ UNCHANGED <<cleanup, rw_magic, rw_refcount, rwLeft, rwCancelled, rwMain>>

\* The handlers: the thread takes itself off the count and unlocks rw_mutex.
CancelRdwait(t) ==
  /\ cleanup /\ CancelActs(t, {"rdcancel"})
  /\ rw_nwaitreaders' = rw_nwaitreaders - 1
  /\ UNCHANGED <<rw_nwaitwriters, rw_mutex>>

CancelWrwait(t) ==
  /\ cleanup /\ CancelActs(t, {"wrcancel"})
  /\ rw_nwaitwriters' = rw_nwaitwriters - 1
  /\ UNCHANGED <<rw_nwaitreaders, rw_mutex>>

\* my_rwlock has no handler: the thread ends with rw_mutex locked and itself counted.
CancelNoCleanup(t) ==
  /\ ~cleanup /\ CancelActs(t, {"rdcancel", "wrcancel"})
  /\ rw_mutex' = t
  /\ UNCHANGED <<rw_nwaitreaders, rw_nwaitwriters>>

ThreadEnds(t) ==
  /\ rwPc[t] = "idle"
  /\ RwGoes(t, "done")
  /\ UNCHANGED <<rwCounts, rwLeft>>
  /\ RwSame

RwAllDone == \A t \in RwThread : rwPc[t] = "done"

\* main: Pthread_join of all, then pthread_rwlock_destroy.
Destroy ==
  /\ RwAllDone /\ rwMain = "join" /\ rw_magic
  /\ LET busy == rw_refcount # 0 \/ rw_nwaitreaders # 0 \/ rw_nwaitwriters # 0
     IN  /\ rwMain' = IF busy THEN "EBUSY" ELSE "destroyed"
         /\ rw_magic' = busy
  /\ UNCHANGED <<cleanup, rw_mutex, rwCounts, rwPc, rwLeft, rwCancelled>>

RwThreadStep(t) ==
  \/ Rdlock(t) \/ Wrlock(t) \/ Tryrdlock(t) \/ Trywrlock(t) \/ Unlock(t)
  \/ RdlockAgain(t) \/ WrlockAgain(t)
  \/ CancelRdwait(t) \/ CancelWrwait(t) \/ CancelNoCleanup(t) \/ ThreadEnds(t)

RwNext ==
  \/ Destroy
  \/ \E t \in RwThread : RwThreadStep(t) \/ Cancel(t) \/ SpuriousWakeup(t)

RwSpec == RwInit /\ [][RwNext]_rwVars

\* Threads run and holders release; wakeups without a signal and cancellations need not happen.
RwFairness == WF_rwVars(Destroy) /\ \A t \in RwThread : WF_rwVars(RwThreadStep(t))

--------------------------------------------------------------------------------
(* Properties                                                                 *)

\* rw_refcount tells who holds the lock: -1 for exactly one writer and no reader, else the
\* number of readers and no writer.  So err_quit of test1.c and err_dump of unlock are
\* never reached.
RwExclusion ==
  \/ /\ rw_refcount = -1
     /\ \E w \in RwThread : RwAt({"writing"}) = {w}
     /\ RwAt({"reading"}) = {}
  \/ /\ rw_refcount = Cardinality(RwAt({"reading"}))
     /\ RwAt({"writing"}) = {}

\* With the handlers each thread in pthread_cond_wait is counted once, whatever signals, spurious
\* wakeups and cancellations do, and destroy never returns EBUSY after the joins.
RwWaitersCounted ==
  cleanup => /\ rw_nwaitreaders = Cardinality(RwAt(RwWaiting.rd))
             /\ rw_nwaitwriters = Cardinality(RwAt(RwWaiting.wr))
             /\ rwMain # "EBUSY"

\* No wakeup is lost while no thread is cancelled: if the lock is free and some thread sleeps,
\* some thread is on its way to the lock; and readers sleep only behind a writer.
RwNoLostWakeup ==
  rwCancelled = {} =>
    /\ rw_refcount = 0 /\ RwAt({"rdwait", "wrwait"}) # {} => RwAt({"rdwoken", "wrwoken"}) # {}
    /\ RwAt({"rdwait"}) # {} => rw_refcount = -1 \/ rw_nwaitwriters > 0


\* What the lock promises in every state, for both libraries.
RwSafe == RwTypeOK /\ RwExclusion /\ RwWaitersCounted /\ RwNoLostWakeup
================================================================================
