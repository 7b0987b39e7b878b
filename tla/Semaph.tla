---------------------------------- MODULE Semaph --------------------------------
(******************************************************************************)
(* apue.3e/lib/semaph.c: counting semaphores over sets of three System V      *)
(* semaphores: the value, a counter of the processes that use the set, which  *)
(* the last one removes, and a lock for creation and removal.  Every semop    *)
(* carries SEM_UNDO, so that the kernel takes back what a process that dies   *)
(* has done.  External: the kernel's semget, semop (all operations of one     *)
(* call or none), semctl, its undo, and its errors: EINVAL for a set that is  *)
(* gone, EIDRM for one removed while the caller sleeps.                       *)
(******************************************************************************)
EXTENDS Integers, FiniteSets

CONSTANTS
  SpProc,       \* processes
  SpOpener,     \* those of them that call sem_open; the others call sem_create
  SpInitval,    \* the value the semaphore is created with
  BIGCOUNT,     \* initial value of process counter
  SpMaxSets,    \* bound: sets created
  SpMaxDeaths   \* bound: deaths of processes

ASSUME SpAssumption ==
  /\ SpInitval \in Nat /\ BIGCOUNT \in Nat /\ IsFiniteSet(SpProc) /\ SpOpener \subseteq SpProc /\ BIGCOUNT > Cardinality(SpProc)
  /\ SpMaxSets \in Nat /\ SpMaxDeaths \in Nat

VARIABLES
  spSet,        \* the set of the key: [id, val, count, lock]; id 0 when there is none
  spLast,       \* the last id given
  spPc,         \* where each process is
  spId,         \* the id it has
  spAdj,        \* its undo entries for the set: [val, count, lock]
  spHeld,       \* how often it has done sem_wait without sem_signal
  spDeaths

spVars == <<spSet, spLast, spPc, spId, spAdj, spHeld, spDeaths>>

NoSet == [id |-> 0, val |-> 0, count |-> 0, lock |-> 0]
NoAdj == [val |-> 0, count |-> 0, lock |-> 0]

SpInit ==
  /\ spSet = NoSet /\ spLast = 0 /\ spDeaths = 0
  /\ spPc = [p \in SpProc |-> "out"] /\ spId = [p \in SpProc |-> 0]
  /\ spAdj = [p \in SpProc |-> NoAdj] /\ spHeld = [p \in SpProc |-> 0]

SpGoes(p, from, to) == spPc[p] = from /\ spPc' = [spPc EXCEPT ![p] = to]
Gone(p) == spId[p] # spSet.id

\* A semop on the set, with the changes to val, count and lock, and their undo.
Semop(p, val, count, lock) ==
  /\ spSet' = [spSet EXCEPT !.val = @ + val, !.count = @ + count, !.lock = @ + lock]
  /\ spAdj' = [spAdj EXCEPT ![p] = [val |-> @.val - val, count |-> @.count - count, lock |-> @.lock - lock]]

\* sem_create: semget makes the set if there is none, with all values 0.
SpCreate(p) ==
  /\ p \notin SpOpener /\ SpGoes(p, "out", "create")
  /\ IF spSet.id = 0
     THEN /\ spLast < SpMaxSets
          /\ spLast' = spLast + 1 /\ spSet' = [NoSet EXCEPT !.id = spLast + 1]
          /\ spId' = [spId EXCEPT ![p] = spLast + 1]
     ELSE spId' = [spId EXCEPT ![p] = spSet.id] /\ UNCHANGED <<spSet, spLast>>
  /\ UNCHANGED <<spAdj, spHeld, spDeaths>>

\* It locks the set, goes to sleep for the lock, or starts again when the set is gone.
SpLock(p) ==
  /\ \/ /\ ~Gone(p) /\ spSet.lock = 0
        /\ SpGoes(p, "create", "locked") /\ Semop(p, 0, 0, 1)
     \/ ~Gone(p) /\ spSet.lock # 0 /\ SpGoes(p, "create", "asleep") /\ UNCHANGED <<spSet, spAdj>>
     \/ Gone(p) /\ SpGoes(p, "create", "out") /\ UNCHANGED <<spSet, spAdj>>
  /\ UNCHANGED <<spLast, spId, spHeld, spDeaths>>

\* The sleep ends with the lock, or with EIDRM, which is fatal.
SpLockWakes(p) ==
  /\ \/ ~Gone(p) /\ spSet.lock = 0 /\ SpGoes(p, "asleep", "locked") /\ Semop(p, 0, 0, 1)
     \/ Gone(p) /\ SpGoes(p, "asleep", "cantlock") /\ UNCHANGED <<spSet, spAdj>>
  /\ UNCHANGED <<spLast, spId, spHeld, spDeaths>>

SpFirst == spSet.count = 0

\* GETVAL, and the two SETVALs of the first process; a SETVAL clears the undo entries of all.
SpGetval(p) ==
  /\ SpGoes(p, "locked", IF SpFirst THEN "setval" ELSE "end")
  /\ UNCHANGED <<spSet, spLast, spId, spAdj, spHeld, spDeaths>>

SpSetval(p) ==
  /\ SpGoes(p, "setval", "setcount")
  /\ spSet' = [spSet EXCEPT !.val = SpInitval]
  /\ spAdj' = [q \in SpProc |-> [spAdj[q] EXCEPT !.val = 0]]
  /\ UNCHANGED <<spLast, spId, spHeld, spDeaths>>

SpSetcount(p) ==
  /\ SpGoes(p, "setcount", "end")
  /\ spSet' = [spSet EXCEPT !.count = BIGCOUNT]
  /\ spAdj' = [q \in SpProc |-> [spAdj[q] EXCEPT !.count = 0]]
  /\ UNCHANGED <<spLast, spId, spHeld, spDeaths>>

SpEndcreate(p) ==
  /\ spSet.count >= 1
  /\ SpGoes(p, "end", "in") /\ Semop(p, 0, -1, -1)
  /\ UNCHANGED <<spLast, spId, spHeld, spDeaths>>

\* sem_open: the set must exist; the counter is decremented without the lock, and waits to be set.
SpOpen(p) ==
  /\ p \in SpOpener /\ spSet.id # 0 /\ SpGoes(p, "out", "open")
  /\ spId' = [spId EXCEPT ![p] = spSet.id]
  /\ UNCHANGED <<spSet, spLast, spAdj, spHeld, spDeaths>>

SpOpenCounts(p) ==
  /\ \/ ~Gone(p) /\ spSet.count >= 1 /\ SpGoes(p, "open", "in") /\ Semop(p, 0, -1, 0)
     \/ Gone(p) /\ SpGoes(p, "open", "exit") /\ UNCHANGED <<spSet, spAdj>>
  /\ UNCHANGED <<spLast, spId, spHeld, spDeaths>>

\* sem_wait and sem_signal (sem_op of -1 and 1).
SpWait(p) ==
  /\ ~Gone(p) /\ spSet.val >= 1 /\ SpGoes(p, "in", "in") /\ Semop(p, -1, 0, 0)
  /\ spHeld[p] < SpInitval /\ spHeld' = [spHeld EXCEPT ![p] = @ + 1]
  /\ UNCHANGED <<spLast, spId, spDeaths>>

SpSignal(p) ==
  /\ ~Gone(p) /\ spHeld[p] > 0 /\ SpGoes(p, "in", "in") /\ Semop(p, 1, 0, 0)
  /\ spHeld' = [spHeld EXCEPT ![p] = @ - 1]
  /\ UNCHANGED <<spLast, spId, spDeaths>>

\* sem_close: the lock and the counter in one semop; then, by the counter, the set is removed or unlocked.
\* (A counter above BIGCOUNT is an err_dump, which SpTypeOK excludes.)
SpClose(p) ==
  /\ ~Gone(p) /\ spHeld[p] = 0 /\ spSet.lock = 0
  /\ SpGoes(p, "in", "closing") /\ Semop(p, 0, 1, 1)
  /\ UNCHANGED <<spLast, spId, spHeld, spDeaths>>

SpLastUserButOne == spSet.count >= BIGCOUNT - 1        \* mutant: off by one
SpLastUser == spSet.count = BIGCOUNT

SpCloseChecks(p) ==
  /\ \/ SpLastUser /\ SpGoes(p, "closing", "remove") /\ UNCHANGED <<spSet, spAdj>>
     \/ ~SpLastUser /\ SpGoes(p, "closing", "out") /\ Semop(p, 0, 0, -1)
  /\ UNCHANGED <<spLast, spId, spHeld, spDeaths>>

\* sem_rm.
SpRemove(p) ==
  /\ SpGoes(p, "remove", "out")
  /\ spSet' = NoSet /\ spAdj' = [q \in SpProc |-> NoAdj]
  /\ UNCHANGED <<spLast, spId, spHeld, spDeaths>>

\* Any operation on a set that is gone is fatal.
SpOpFails(p) ==
  /\ Gone(p) /\ SpGoes(p, "in", "exit")
  /\ UNCHANGED <<spSet, spLast, spId, spAdj, spHeld, spDeaths>>

\* External: a process ends, by itself in err_sys or killed; the kernel undoes what it did, and another
\* process takes its place.
SpEnds(p) ==
  /\ \/ spPc[p] \in {"cantlock", "exit"} /\ UNCHANGED spDeaths
     \/ spPc[p] # "out" /\ spDeaths < SpMaxDeaths /\ spDeaths' = spDeaths + 1
  /\ spPc' = [spPc EXCEPT ![p] = "out"]
  /\ spSet' = IF spSet.id = 0 THEN spSet
              ELSE [spSet EXCEPT !.val = @ + spAdj[p].val, !.count = @ + spAdj[p].count, !.lock = @ + spAdj[p].lock]
  /\ spAdj' = [spAdj EXCEPT ![p] = NoAdj] /\ spHeld' = [spHeld EXCEPT ![p] = 0]
  /\ UNCHANGED <<spLast, spId>>

SpNext ==
  \E p \in SpProc :
     \/ SpCreate(p) \/ SpLock(p) \/ SpLockWakes(p) \/ SpGetval(p) \/ SpSetval(p) \/ SpSetcount(p)
     \/ SpEndcreate(p) \/ SpOpen(p) \/ SpOpenCounts(p) \/ SpWait(p) \/ SpSignal(p)
     \/ SpClose(p) \/ SpCloseChecks(p) \/ SpRemove(p) \/ SpOpFails(p) \/ SpEnds(p)

SpSpec == SpInit /\ [][SpNext]_spVars

--------------------------------------------------------------------------------
(* Properties                                                                 *)

Users == {p \in SpProc : spPc[p] = "in" /\ ~Gone(p)}

\* Each variable has its type.
SpTypeOK ==
  /\ spSet \in [id : 0 .. SpMaxSets, val : 0 .. SpInitval, count : 0 .. BIGCOUNT, lock : 0 .. 1]
  /\ spLast \in 0 .. SpMaxSets /\ spDeaths \in 0 .. SpMaxDeaths
  /\ spPc \in [SpProc -> {"out", "create", "asleep", "cantlock", "locked", "setval", "setcount", "end",
                          "open", "in", "closing", "remove", "exit"}]
  /\ spId \in [SpProc -> 0 .. SpMaxSets] /\ spHeld \in [SpProc -> 0 .. SpInitval]
  /\ \A p \in SpProc : spAdj[p] \in [val : 0 .. SpInitval, count : -1 .. 1, lock : -1 .. 1]

InSet(p) == spPc[p] \in {"locked", "setval", "setcount", "end", "in", "closing", "remove"}

\* No process that came through sem_create is left with a set removed under it: the lock keeps creation
\* and removal apart, and deaths and opens at the same time do not deceive the process that removes.
SpCreatorsKeepSet == \A p \in SpProc \ SpOpener : InSet(p) => ~Gone(p)

\* A process in the semaphore finds it initialized, and what the users hold is missing from its value:
\* it is initialized once, though a process may die at any point of creation, and a death gives back
\* what was held.
SpConserved ==
  \A p \in Users : Cardinality({e \in Users \X (1 .. SpInitval) : e[2] <= spHeld[e[1]]}) + spSet.val = SpInitval

\* While nobody is in creation or removal the counter is BIGCOUNT less the users, or 0 in a set whose
\* creator died.
SpCountsUsers ==
  spSet.id # 0 /\ spSet.lock = 0
    => \/ spSet.count = BIGCOUNT - Cardinality(Users)
       \/ spSet.count = 0 /\ Users = {}

\* The lock is always somebody's: a process that dies does not leave the set locked.
SpLockHeld ==
  spSet.lock = 1
    => \E p \in SpProc : ~Gone(p) /\ spPc[p] \in {"locked", "setval", "setcount", "end", "closing", "remove", "exit"}

\* What semaph.c promises through creation, removal and death at any step: the set stays while it
\* is used, its value and its counter are right, and its lock is not left behind.
SpSafe == SpTypeOK /\ SpCreatorsKeepSet /\ SpConserved /\ SpCountsUsers /\ SpLockHeld
================================================================================
