------------------------------ MODULE RwLockProofs ------------------------------
(******************************************************************************)
(* Proofs about the read-write locks, for every set of threads and number of  *)
(* calls, with and without the cancellation handlers: types, exclusion, the   *)
(* counts of waiting threads, and that no wakeup is lost.                     *)
(******************************************************************************)
EXTENDS RwLock, FiniteSetTheorems, TLAPS

Readers == RwAt({"reading"})
Writers == RwAt({"writing"})
RdWaiters == RwAt(RwWaiting.rd)
WrWaiters == RwAt(RwWaiting.wr)

\* The counts: a thread that ended in pthread_cond_wait without a handler stays counted.
RwBook ==
  /\ rw_nwaitreaders >= Cardinality(RdWaiters) /\ rw_nwaitwriters >= Cardinality(WrWaiters)
  /\ cleanup \/ rwCancelled = {} => /\ rw_nwaitreaders = Cardinality(RdWaiters)
                                    /\ rw_nwaitwriters = Cardinality(WrWaiters)
  /\ cleanup => rwMain # "EBUSY"

\* While no thread is cancelled, a free lock with waiting writers has one awake, and readers
\* sleep only behind a writer.  RwNoLostWakeup alone is not inductive: the woken thread it
\* promises could be a reader, which goes back to sleep when a writer waits.
RwWakes ==
  /\ RwAt({"rdcancel", "wrcancel"}) \subseteq rwCancelled
  /\ rwCancelled = {} =>
       /\ rw_refcount = 0 /\ rw_nwaitwriters > 0 => RwAt({"wrwoken"}) # {}
       /\ RwAt({"rdwait"}) # {} => rw_refcount = -1 \/ rw_nwaitwriters > 0

RwIInv == RwTypeOK /\ RwExclusion /\ RwBook /\ RwWakes

--------------------------------------------------------------------------------
\* The threads at given places are finitely many.
LEMMA AtFinite == \A S : IsFiniteSet(RwAt(S)) /\ Cardinality(RwAt(S)) \in Nat
<1> TAKE S
<1>1. RwAt(S) \subseteq RwThread
  BY DEF RwAt
<1> QED
  BY <1>1, RwThreadAssumption, FS_Subset, FS_CardinalityType

\* What a move of one thread does to the set of those at places S.
LEMMA MoveStays ==
  ASSUME RwTypeOK, NEW t \in RwThread, NEW to, RwGoes(t, to), NEW S, rwPc[t] \in S <=> to \in S
  PROVE  RwAt(S)' = RwAt(S)
BY DEF RwTypeOK, RwGoes, RwAt

\* A thread that comes to a place of S adds one to those at S.
LEMMA MoveEnters ==
  ASSUME RwTypeOK, NEW t \in RwThread, NEW to, RwGoes(t, to), NEW S, rwPc[t] \notin S, to \in S
  PROVE  /\ RwAt(S)' = RwAt(S) \union {t} /\ t \notin RwAt(S)
         /\ Cardinality(RwAt(S)') = Cardinality(RwAt(S)) + 1
<1>1. RwAt(S)' = RwAt(S) \union {t} /\ t \notin RwAt(S)
  BY DEF RwTypeOK, RwGoes, RwAt
<1> QED
  BY <1>1, AtFinite, FS_AddElement

\* A thread that leaves the places S takes one from those at S.
LEMMA MoveLeaves ==
  ASSUME RwTypeOK, NEW t \in RwThread, NEW to, RwGoes(t, to), NEW S, rwPc[t] \in S, to \notin S
  PROVE  /\ RwAt(S)' = RwAt(S) \ {t} /\ t \in RwAt(S)
         /\ Cardinality(RwAt(S)') = Cardinality(RwAt(S)) - 1
<1>1. RwAt(S)' = RwAt(S) \ {t} /\ t \in RwAt(S)
  BY DEF RwTypeOK, RwGoes, RwAt
<1> QED
  BY <1>1, AtFinite, FS_RemoveElement

\* Unlock moves its thread to idle and may wake sleepers; it moves nobody else.
LEMMA UnlockPlaces ==
  ASSUME RwTypeOK, NEW t \in RwThread, Unlock(t)
  PROVE  /\ rwPc' \in [RwThread -> RwPc] /\ rwPc'[t] = "idle"
         /\ \A u \in RwThread \ {t} :
              \/ rwPc'[u] = rwPc[u]
              \/ rwPc[u] = "rdwait" /\ rwPc'[u] = "rdwoken"
              \/ rwPc[u] = "wrwait" /\ rwPc'[u] = "wrwoken"
<1> DEFINE pc == [rwPc EXCEPT ![t] = "idle"]
<1>1. /\ rwPc \in [RwThread -> RwPc] /\ pc \in [RwThread -> RwPc] /\ pc[t] = "idle"
      /\ rwPc[t] \in {"reading", "writing"} /\ \A u \in RwThread \ {t} : pc[u] = rwPc[u]
  BY DEF RwTypeOK, Unlock, RwPc
<1>2. {"rdwoken", "wrwoken"} \subseteq RwPc
  BY DEF RwPc, RwWaiting
<1>3. \/ rwPc' = pc \/ BroadcastReaders(pc)
      \/ \E w \in RwAt({"wrwait"}) : rwPc' = [pc EXCEPT ![w] = "wrwoken"]
  BY DEF Unlock, UnlockWakes, UnlockWakesCancel, SignalWriters
<1>4. CASE rwPc' = pc
  BY <1>1, <1>4
<1>5. CASE BroadcastReaders(pc)
  <2>1. rwPc' = [u \in RwThread |-> IF rwPc[u] = "rdwait" THEN "rdwoken" ELSE pc[u]]
    BY <1>5 DEF BroadcastReaders
  <2> QED
    BY <1>1, <1>2, <2>1
<1>6. ASSUME NEW w \in RwAt({"wrwait"}), rwPc' = [pc EXCEPT ![w] = "wrwoken"]
      PROVE  /\ rwPc' \in [RwThread -> RwPc] /\ rwPc'[t] = "idle"
             /\ \A u \in RwThread \ {t} :
                  rwPc'[u] = rwPc[u] \/ (rwPc[u] = "wrwait" /\ rwPc'[u] = "wrwoken")
  <2>1. w \in RwThread /\ rwPc[w] = "wrwait" /\ w # t
    BY <1>1 DEF RwAt
  <2> HIDE DEF pc
  <2>2. rwPc' \in [RwThread -> RwPc] /\ \A u \in RwThread : rwPc'[u] = IF u = w THEN "wrwoken" ELSE pc[u]
    BY <1>1, <1>2, <1>6, <2>1
  <2> QED
    BY <1>1, <2>1, <2>2
<1> HIDE DEF pc
<1> QED
  BY <1>3, <1>4, <1>5, <1>6

\* What an unlock does to the set of those at places S.
LEMMA UnlockSets ==
  ASSUME RwTypeOK, NEW t \in RwThread, Unlock(t)
  PROVE  /\ Readers' = Readers \ {t} /\ Writers' = Writers \ {t}
         /\ RdWaiters' = RdWaiters /\ WrWaiters' = WrWaiters
         /\ RwAt({"rdcancel", "wrcancel"})' = RwAt({"rdcancel", "wrcancel"})
         /\ RwAt({"rdwait"})' \subseteq RwAt({"rdwait"})
<1>1. rwPc[t] \in {"reading", "writing"}
  BY DEF Unlock
<1> QED
  BY <1>1, UnlockPlaces DEF Readers, Writers, RdWaiters, WrWaiters, RwAt, RwWaiting

--------------------------------------------------------------------------------
(* Types                                                                      *)

\* A thread that waits is counted.
LEMMA Waiting ==
  ASSUME RwTypeOK, RwBook, NEW t \in RwThread
  PROVE  /\ rwPc[t] \in RwWaiting.rd => rw_nwaitreaders > 0
         /\ rwPc[t] \in RwWaiting.wr => rw_nwaitwriters > 0
<1>1. \A S : rwPc[t] \in S => Cardinality(RwAt(S)) > 0
  <2> TAKE S
  <2> HAVE rwPc[t] \in S
  <2>1. RwAt(S) # {}
    BY DEF RwAt
  <2> QED
    BY <2>1, AtFinite, FS_EmptySet
<1>2. /\ rwPc[t] \in RwWaiting.rd => Cardinality(RdWaiters) > 0
      /\ rwPc[t] \in RwWaiting.wr => Cardinality(WrWaiters) > 0
  BY <1>1 DEF RdWaiters, WrWaiters
<1>3. Cardinality(RdWaiters) \in Nat /\ Cardinality(WrWaiters) \in Nat
  BY AtFinite DEF RdWaiters, WrWaiters
<1> QED
  BY <1>2, <1>3 DEF RwBook, RwTypeOK

\* A move of one thread keeps the type of rwPc.
LEMMA GoesType ==
  ASSUME RwTypeOK, NEW t \in RwThread, NEW to \in RwPc, RwGoes(t, to)
  PROVE  rwPc' \in [RwThread -> RwPc]
BY DEF RwTypeOK, RwGoes

\* A call keeps the type of rwLeft.
LEMMA CallingType ==
  ASSUME RwTypeOK, NEW t \in RwThread, RwCalling(t)
  PROVE  rwLeft' \in [RwThread -> 0 .. RwCalls]
BY RwCallsAssumption DEF RwTypeOK, RwCalling

\* Every step keeps the types; the counts of waiters stay above zero by RwBook.
LEMMA TypeStep == RwTypeOK /\ RwBook /\ [RwNext]_rwVars => RwTypeOK'
<1> SUFFICES ASSUME RwTypeOK, RwBook, [RwNext]_rwVars PROVE RwTypeOK'
  OBVIOUS
<1> DEFINE Counts == /\ rw_nwaitreaders \in Nat /\ rw_nwaitwriters \in Nat
                     /\ rw_refcount \in Int /\ rw_refcount >= -1
           Places == rwPc \in [RwThread -> RwPc] /\ rwLeft \in [RwThread -> 0 .. RwCalls]
           Others == /\ cleanup \in BOOLEAN /\ rw_magic \in BOOLEAN
                     /\ rw_mutex \in RwThread \union {RwFree} /\ rwCancelled \subseteq RwThread
                     /\ rwMain \in {"join", "destroyed", "EBUSY"}
<1>a. Counts /\ Places /\ Others
  BY DEF RwTypeOK
<1>p. RwPc = {"idle", "reading", "writing", "done", "rdwait", "rdwoken", "rdcancel",
              "wrwait", "wrwoken", "wrcancel"}
  BY DEF RwPc, RwWaiting
<1>s. RwSame => Others'
  BY <1>a DEF RwSame
<1> HIDE DEF Counts, Places, Others
<1> SUFFICES Counts' /\ Places' /\ Others'
  BY DEF RwTypeOK, Counts, Places, Others
<1>0. CASE UNCHANGED rwVars
  BY <1>0, <1>a DEF rwVars, rwCounts, Counts, Places, Others
<1>1. CASE Destroy
  <2>1. Others'
    BY <1>1, <1>a DEF Destroy, Others
  <2> QED
    BY <1>1, <1>a, <2>1 DEF Destroy, rwCounts, Counts, Places
<1>2. ASSUME NEW t \in RwThread, RwThreadStep(t) \/ Cancel(t) \/ SpuriousWakeup(t)
      PROVE  Counts' /\ Places' /\ Others'
  <2>1. CASE Rdlock(t) \/ Wrlock(t) \/ Tryrdlock(t) \/ Trywrlock(t)
    <3>1. RwCalling(t) /\ RwSame
      BY <2>1 DEF Rdlock, Wrlock, Tryrdlock, Trywrlock, RwCalling
    <3>2. \E to \in {"rdwait", "reading", "wrwait", "writing", "idle"} : RwGoes(t, to)
      BY <2>1 DEF Rdlock, Wrlock, Tryrdlock, Trywrlock
    <3>3. Places'
      BY <3>1, <3>2, <1>p, GoesType, CallingType DEF Places
    <3>4. Counts'
      BY <2>1, <1>a DEF Rdlock, Wrlock, Tryrdlock, Trywrlock, ReadersWait, WritersWait, Counts
    <3> QED
      BY <3>1, <3>3, <3>4, <1>s
  <2>2. CASE RdlockAgain(t) \/ WrlockAgain(t)
    <3>1. RwSame /\ UNCHANGED rwLeft
      BY <2>2 DEF RdlockAgain, WrlockAgain, RwReturns
    <3>2. \E to \in {"rdwait", "reading", "wrwait", "writing"} : RwGoes(t, to)
      BY <2>2 DEF RdlockAgain, WrlockAgain
    <3>3. Places'
      BY <3>1, <3>2, <1>a, <1>p, GoesType DEF Places
    <3>4. /\ RdlockAgain(t) => rw_nwaitreaders > 0
          /\ WrlockAgain(t) => rw_nwaitwriters > 0
      BY Waiting DEF RdlockAgain, WrlockAgain, RwReturns, RwWaiting
    <3>5. Counts'
      BY <2>2, <1>a, <3>4 DEF RdlockAgain, WrlockAgain, ReadersWait, WritersWait, rwCounts, Counts
    <3> QED
      BY <3>1, <3>3, <3>5, <1>s
  <2>3. CASE Unlock(t)
    <3>1. Places'
      BY <2>3, <1>a, UnlockPlaces DEF Unlock, Places
    <3>2. RwSame /\ UNCHANGED <<rw_nwaitreaders, rw_nwaitwriters>> /\ rw_refcount' = RefcountUnlocked
      BY <2>3 DEF Unlock
    <3>3. Counts'
      BY <1>a, <3>2 DEF RefcountUnlocked, Counts
    <3> QED
      BY <3>1, <3>2, <3>3, <1>s
  <2>4. CASE CancelRdwait(t) \/ CancelWrwait(t) \/ CancelNoCleanup(t)
    <3>1. CancelActs(t, {"rdcancel"}) \/ CancelActs(t, {"wrcancel"}) \/ CancelActs(t, {"rdcancel", "wrcancel"})
      BY <2>4 DEF CancelRdwait, CancelWrwait, CancelNoCleanup
    <3>2. Places'
      BY <3>1, <1>a, <1>p, GoesType DEF CancelActs, Places
    <3>3. Others'
      BY <2>4, <3>1, <1>a DEF CancelRdwait, CancelWrwait, CancelNoCleanup, CancelActs, Others
    <3>4. /\ CancelRdwait(t) => rw_nwaitreaders > 0
          /\ CancelWrwait(t) => rw_nwaitwriters > 0
      BY Waiting DEF CancelRdwait, CancelWrwait, CancelActs, RwWaiting
    <3>5. Counts'
      BY <2>4, <3>1, <3>4, <1>a DEF CancelRdwait, CancelWrwait, CancelNoCleanup, CancelActs, Counts
    <3> QED
      BY <3>2, <3>3, <3>5
  <2>5. CASE ThreadEnds(t) \/ SpuriousWakeup(t)
    <3>1. RwSame /\ UNCHANGED <<rwCounts, rwLeft>>
      BY <2>5 DEF ThreadEnds, SpuriousWakeup
    <3>2. \E to \in {"done", "rdwoken", "wrwoken"} : RwGoes(t, to)
      BY <2>5 DEF ThreadEnds, SpuriousWakeup
    <3>3. Places'
      BY <3>1, <3>2, <1>a, <1>p, GoesType DEF Places
    <3> QED
      BY <3>1, <3>3, <1>a, <1>s DEF rwCounts, Counts
  <2>6. CASE Cancel(t)
    <3>1. \E to \in {"rdcancel", "wrcancel"} : RwGoes(t, to)
      BY <2>6 DEF Cancel
    <3>2. Places'
      BY <2>6, <3>1, <1>a, <1>p, GoesType DEF Cancel, Places
    <3>3. Others'
      BY <2>6, <1>a DEF Cancel, Others
    <3> QED
      BY <2>6, <3>2, <3>3, <1>a DEF Cancel, rwCounts, Counts
  <2> QED
    BY <1>2, <2>1, <2>2, <2>3, <2>4, <2>5, <2>6 DEF RwThreadStep
<1> QED
  BY <1>0, <1>1, <1>2 DEF RwNext
--------------------------------------------------------------------------------
(* Exclusion                                                                  *)

\* What a step may do to the holders of the lock.
LEMMA HolderMoves ==
  ASSUME RwTypeOK, [RwNext]_rwVars
  PROVE  \/ rw_refcount' = rw_refcount /\ Readers' = Readers /\ Writers' = Writers
         \/ \E t \in RwThread \ Readers :
              /\ ~ReadersWait /\ rw_refcount' = rw_refcount + 1
              /\ Readers' = Readers \union {t} /\ Writers' = Writers
         \/ \E t \in RwThread :
              /\ ~WritersWait /\ rw_refcount' = -1
              /\ Readers' = Readers /\ Writers' = Writers \union {t}
         \/ \E t \in Readers \union Writers :
              /\ rw_refcount' = RefcountUnlocked
              /\ Readers' = Readers \ {t} /\ Writers' = Writers \ {t}
<1> DEFINE Quiet == rw_refcount' = rw_refcount /\ Readers' = Readers /\ Writers' = Writers
           Reads(t) == /\ ~ReadersWait /\ rw_refcount' = rw_refcount + 1 /\ t \notin Readers
                       /\ Readers' = Readers \union {t} /\ Writers' = Writers
           Writes(t) == /\ ~WritersWait /\ rw_refcount' = -1
                        /\ Readers' = Readers /\ Writers' = Writers \union {t}
           Leaves(t) == /\ rw_refcount' = RefcountUnlocked /\ t \in Readers \union Writers
                        /\ Readers' = Readers \ {t} /\ Writers' = Writers \ {t}
<1>q. ASSUME NEW t \in RwThread, NEW to, RwGoes(t, to), rw_refcount' = rw_refcount,
             rwPc[t] \notin {"reading", "writing"}, to \notin {"reading", "writing"}
      PROVE  Quiet
  BY <1>q, MoveStays DEF Readers, Writers
<1>r. ASSUME NEW t \in RwThread, RwGoes(t, "reading"), rw_refcount' = rw_refcount + 1, ~ReadersWait,
             rwPc[t] \notin {"reading", "writing"}
      PROVE  Reads(t)
  BY <1>r, MoveStays, MoveEnters DEF Readers, Writers
<1>w. ASSUME NEW t \in RwThread, RwGoes(t, "writing"), rw_refcount' = -1, ~WritersWait,
             rwPc[t] \notin {"reading", "writing"}
      PROVE  Writes(t)
  BY <1>w, MoveStays, MoveEnters DEF Readers, Writers
<1>0. CASE UNCHANGED rwVars
  BY <1>0 DEF rwVars, rwCounts, Readers, Writers, RwAt
<1>1. CASE Destroy
  BY <1>1 DEF Destroy, rwCounts, Readers, Writers, RwAt
<1>2. ASSUME NEW t \in RwThread, RwThreadStep(t) \/ Cancel(t) \/ SpuriousWakeup(t)
      PROVE  Quiet \/ Reads(t) \/ Writes(t) \/ Leaves(t)
  <2> HIDE DEF Quiet, Reads, Writes, Leaves
  <2>1. CASE Rdlock(t)
    BY <2>1, <1>q, <1>r DEF Rdlock, RwCalling
  <2>2. CASE RdlockAgain(t)
    BY <2>2, <1>q, <1>r DEF RdlockAgain, RwReturns, rwCounts
  <2>3. CASE Wrlock(t)
    BY <2>3, <1>q, <1>w DEF Wrlock, RwCalling
  <2>4. CASE WrlockAgain(t)
    BY <2>4, <1>q, <1>w DEF WrlockAgain, RwReturns, rwCounts
  <2>5. CASE Tryrdlock(t)
    BY <2>5, <1>q, <1>r DEF Tryrdlock, RwCalling
  <2>6. CASE Trywrlock(t)
    BY <2>6, <1>q, <1>w DEF Trywrlock, RwCalling
  <2>7. CASE Unlock(t)
    <3>1. t \in Readers \union Writers /\ rw_refcount' = RefcountUnlocked
      BY <2>7 DEF Unlock, Readers, Writers, RwAt
    <3> QED
      BY <2>7, <3>1, UnlockSets DEF Leaves
  <2>8. CASE CancelRdwait(t) \/ CancelWrwait(t) \/ CancelNoCleanup(t)
    BY <2>8, <1>q DEF CancelRdwait, CancelWrwait, CancelNoCleanup, CancelActs
  <2>9. CASE ThreadEnds(t) \/ SpuriousWakeup(t) \/ Cancel(t)
    BY <2>9, <1>q DEF ThreadEnds, SpuriousWakeup, Cancel, rwCounts
  <2> QED
    BY <1>2, <2>1, <2>2, <2>3, <2>4, <2>5, <2>6, <2>7, <2>8, <2>9 DEF RwThreadStep
<1>3. Readers \subseteq RwThread /\ Writers \subseteq RwThread
  BY DEF Readers, Writers, RwAt
<1> QED
  BY <1>0, <1>1, <1>2, <1>3 DEF RwNext

\* RwExclusion in terms of the two sets.
LEMMA ExclusionSets ==
  RwExclusion <=> \/ rw_refcount = -1 /\ (\E w \in RwThread : Writers = {w}) /\ Readers = {}
                  \/ rw_refcount = Cardinality(Readers) /\ Writers = {}
BY DEF RwExclusion, Readers, Writers

\* Every step keeps readers and writers apart.
LEMMA ExclusionStep == RwTypeOK /\ RwExclusion /\ [RwNext]_rwVars => RwExclusion'
<1> SUFFICES ASSUME RwTypeOK, RwExclusion, [RwNext]_rwVars PROVE RwExclusion'
  OBVIOUS
<1>1. IsFiniteSet(Readers) /\ Cardinality(Readers) \in Nat /\ rw_refcount \in Int
  BY AtFinite DEF Readers, RwTypeOK
<1>2. \/ rw_refcount = -1 /\ (\E w \in RwThread : Writers = {w}) /\ Readers = {}
      \/ rw_refcount = Cardinality(Readers) /\ Writers = {}
  BY ExclusionSets
<1>3. \/ rw_refcount' = -1 /\ (\E w \in RwThread : Writers' = {w}) /\ Readers' = {}
      \/ rw_refcount' = Cardinality(Readers') /\ Writers' = {}
  <2>1. CASE rw_refcount' = rw_refcount /\ Readers' = Readers /\ Writers' = Writers
    BY <2>1, <1>2
  <2>2. ASSUME NEW t \in RwThread \ Readers, ~ReadersWait, rw_refcount' = rw_refcount + 1,
               Readers' = Readers \union {t}, Writers' = Writers
        PROVE  rw_refcount' = Cardinality(Readers') /\ Writers' = {}
    <3>1. rw_refcount = Cardinality(Readers) /\ Writers = {}
      BY <2>2, <1>1, <1>2 DEF ReadersWait
    <3>2. Cardinality(Readers \union {t}) = Cardinality(Readers) + 1
      BY <1>1, FS_AddElement
    <3> QED
      BY <2>2, <3>1, <3>2
  <2>3. ASSUME NEW t \in RwThread, ~WritersWait, rw_refcount' = -1,
               Readers' = Readers, Writers' = Writers \union {t}
        PROVE  rw_refcount' = -1 /\ (\E w \in RwThread : Writers' = {w}) /\ Readers' = {}
    <3>1. Cardinality(Readers) = 0 /\ Writers = {}
      BY <2>3, <1>1, <1>2 DEF WritersWait
    <3>2. Readers = {}
      BY <3>1, <1>1, FS_EmptySet
    <3> QED
      BY <2>3, <3>1, <3>2
  <2>4. ASSUME NEW t \in Readers \union Writers, rw_refcount' = RefcountUnlocked,
               Readers' = Readers \ {t}, Writers' = Writers \ {t}
        PROVE  rw_refcount' = Cardinality(Readers') /\ Writers' = {}
    <3>1. CASE rw_refcount = -1 /\ (\E w \in RwThread : Writers = {w}) /\ Readers = {}
      <4>1. Cardinality({}) = 0
        BY FS_EmptySet
      <4>2. Readers' = {} /\ Writers' = {}
        BY <2>4, <3>1
      <4> QED
        BY <2>4, <3>1, <4>1, <4>2 DEF RefcountUnlocked
    <3>2. CASE rw_refcount = Cardinality(Readers) /\ Writers = {}
      <4>1. t \in Readers
        BY <3>2
      <4>2. Cardinality(Readers \ {t}) = Cardinality(Readers) - 1
        BY <4>1, <1>1, FS_RemoveElement
      <4>3. Cardinality(Readers) # 0
        BY <4>1, <1>1, FS_EmptySet
      <4> QED
        BY <2>4, <3>2, <4>2, <4>3, <1>1 DEF RefcountUnlocked
    <3> QED
      BY <3>1, <3>2, <1>2
  <2> QED
    BY HolderMoves, <2>1, <2>2, <2>3, <2>4
<1> QED
  BY <1>3 DEF RwExclusion, Readers, Writers
--------------------------------------------------------------------------------
(* The counts                                                                 *)

\* A thread cancelled in pthread_cond_wait is among the cancelled.
LEMMA CancelledThere ==
  ASSUME RwWakes, NEW t \in RwThread, rwPc[t] \in {"rdcancel", "wrcancel"}
  PROVE  rwCancelled # {}
BY DEF RwWakes, RwAt

\* What a step may do to the waiting threads and their counts.
LEMMA WaiterMoves ==
  ASSUME RwTypeOK, RwWakes, [RwNext]_rwVars
  PROVE  \/ /\ UNCHANGED <<rw_nwaitreaders, rw_nwaitwriters>>
            /\ RdWaiters' = RdWaiters /\ WrWaiters' = WrWaiters
         \/ /\ rw_nwaitwriters' = rw_nwaitwriters /\ WrWaiters' = WrWaiters
            /\ \/ /\ rw_nwaitreaders' = rw_nwaitreaders + 1
                  /\ Cardinality(RdWaiters') = Cardinality(RdWaiters) + 1
               \/ /\ rw_nwaitreaders' = rw_nwaitreaders - 1
                  /\ Cardinality(RdWaiters') = Cardinality(RdWaiters) - 1
         \/ /\ rw_nwaitreaders' = rw_nwaitreaders /\ RdWaiters' = RdWaiters
            /\ \/ /\ rw_nwaitwriters' = rw_nwaitwriters + 1
                  /\ Cardinality(WrWaiters') = Cardinality(WrWaiters) + 1
               \/ /\ rw_nwaitwriters' = rw_nwaitwriters - 1
                  /\ Cardinality(WrWaiters') = Cardinality(WrWaiters) - 1
         \/ /\ ~cleanup /\ rwCancelled # {} /\ UNCHANGED <<rw_nwaitreaders, rw_nwaitwriters>>
            /\ RdWaiters' \subseteq RdWaiters /\ WrWaiters' \subseteq WrWaiters
<1> DEFINE Quiet == /\ UNCHANGED <<rw_nwaitreaders, rw_nwaitwriters>>
                    /\ RdWaiters' = RdWaiters /\ WrWaiters' = WrWaiters
           RdIn == /\ rw_nwaitwriters' = rw_nwaitwriters /\ WrWaiters' = WrWaiters
                   /\ rw_nwaitreaders' = rw_nwaitreaders + 1
                   /\ Cardinality(RdWaiters') = Cardinality(RdWaiters) + 1
           RdOut == /\ rw_nwaitwriters' = rw_nwaitwriters /\ WrWaiters' = WrWaiters
                    /\ rw_nwaitreaders' = rw_nwaitreaders - 1
                    /\ Cardinality(RdWaiters') = Cardinality(RdWaiters) - 1
           WrIn == /\ rw_nwaitreaders' = rw_nwaitreaders /\ RdWaiters' = RdWaiters
                   /\ rw_nwaitwriters' = rw_nwaitwriters + 1
                   /\ Cardinality(WrWaiters') = Cardinality(WrWaiters) + 1
           WrOut == /\ rw_nwaitreaders' = rw_nwaitreaders /\ RdWaiters' = RdWaiters
                    /\ rw_nwaitwriters' = rw_nwaitwriters - 1
                    /\ Cardinality(WrWaiters') = Cardinality(WrWaiters) - 1
           Dead == /\ ~cleanup /\ rwCancelled # {} /\ UNCHANGED <<rw_nwaitreaders, rw_nwaitwriters>>
                   /\ RdWaiters' \subseteq RdWaiters /\ WrWaiters' \subseteq WrWaiters
           rd == {"rdwait", "rdwoken", "rdcancel"}
           wr == {"wrwait", "wrwoken", "wrcancel"}
<1>s. RwWaiting.rd = rd /\ RwWaiting.wr = wr
  BY DEF RwWaiting
<1>q. ASSUME NEW t \in RwThread, NEW to, RwGoes(t, to),
             UNCHANGED <<rw_nwaitreaders, rw_nwaitwriters>>,
             rwPc[t] \in rd <=> to \in rd, rwPc[t] \in wr <=> to \in wr
      PROVE  Quiet
  BY <1>q, <1>s, MoveStays DEF RdWaiters, WrWaiters
<1>ri. ASSUME NEW t \in RwThread, RwGoes(t, "rdwait"), rwPc[t] = "idle",
              rw_nwaitreaders' = rw_nwaitreaders + 1, UNCHANGED rw_nwaitwriters
       PROVE  RdIn
  BY <1>ri, <1>s, MoveStays, MoveEnters DEF RdWaiters, WrWaiters
<1>wi. ASSUME NEW t \in RwThread, RwGoes(t, "wrwait"), rwPc[t] = "idle",
              rw_nwaitwriters' = rw_nwaitwriters + 1, UNCHANGED rw_nwaitreaders
       PROVE  WrIn
  BY <1>wi, <1>s, MoveStays, MoveEnters DEF RdWaiters, WrWaiters
<1>ro. ASSUME NEW t \in RwThread, NEW to \in {"reading", "done"}, RwGoes(t, to), rwPc[t] \in rd,
              rw_nwaitreaders' = rw_nwaitreaders - 1, UNCHANGED rw_nwaitwriters
       PROVE  RdOut
  BY <1>ro, <1>s, MoveStays, MoveLeaves DEF RdWaiters, WrWaiters
<1>wo. ASSUME NEW t \in RwThread, NEW to \in {"writing", "done"}, RwGoes(t, to), rwPc[t] \in wr,
              rw_nwaitwriters' = rw_nwaitwriters - 1, UNCHANGED rw_nwaitreaders
       PROVE  WrOut
  BY <1>wo, <1>s, MoveStays, MoveLeaves DEF RdWaiters, WrWaiters
<1>0. CASE UNCHANGED rwVars
  BY <1>0 DEF rwVars, rwCounts, RdWaiters, WrWaiters, RwAt
<1>1. CASE Destroy
  BY <1>1 DEF Destroy, rwCounts, RdWaiters, WrWaiters, RwAt
<1>2. ASSUME NEW t \in RwThread, RwThreadStep(t) \/ Cancel(t) \/ SpuriousWakeup(t)
      PROVE  Quiet \/ RdIn \/ RdOut \/ WrIn \/ WrOut \/ Dead
  <2> HIDE DEF Quiet, RdIn, RdOut, WrIn, WrOut, Dead
  <2>1. CASE Rdlock(t)
    BY <2>1, <1>q, <1>ri DEF Rdlock, RwCalling
  <2>2. CASE RdlockAgain(t)
    BY <2>2, <1>q, <1>ro DEF RdlockAgain, RwReturns, rwCounts
  <2>3. CASE Wrlock(t)
    BY <2>3, <1>q, <1>wi DEF Wrlock, RwCalling
  <2>4. CASE WrlockAgain(t)
    BY <2>4, <1>q, <1>wo DEF WrlockAgain, RwReturns, rwCounts
  <2>5. CASE Tryrdlock(t) \/ Trywrlock(t)
    BY <2>5, <1>q DEF Tryrdlock, Trywrlock, RwCalling
  <2>6. CASE Unlock(t)
    BY <2>6, UnlockSets DEF Unlock, Quiet
  <2>7. CASE CancelRdwait(t)
    BY <2>7, <1>ro DEF CancelRdwait, CancelActs
  <2>8. CASE CancelWrwait(t)
    BY <2>8, <1>wo DEF CancelWrwait, CancelActs
  <2>9. CASE CancelNoCleanup(t)
    <3>1. rwCancelled # {}
      BY <2>9, CancelledThere DEF CancelNoCleanup, CancelActs
    <3>2. RdWaiters' \subseteq RdWaiters /\ WrWaiters' \subseteq WrWaiters
      BY <2>9, <1>s DEF CancelNoCleanup, CancelActs, RwGoes, RwTypeOK, RdWaiters, WrWaiters, RwAt
    <3> QED
      BY <2>9, <3>1, <3>2 DEF CancelNoCleanup, Dead
  <2>10. CASE ThreadEnds(t) \/ SpuriousWakeup(t) \/ Cancel(t)
    BY <2>10, <1>q DEF ThreadEnds, SpuriousWakeup, Cancel, rwCounts
  <2> QED
    BY <1>2, <2>1, <2>2, <2>3, <2>4, <2>5, <2>6, <2>7, <2>8, <2>9, <2>10 DEF RwThreadStep
<1> QED
  BY <1>0, <1>1, <1>2 DEF RwNext

\* Which library is linked does not change, and the cancelled stay so.
LEMMA CancelledStay ==
  ASSUME [RwNext]_rwVars
  PROVE  cleanup' = cleanup /\ rwCancelled \subseteq rwCancelled'
BY DEF RwNext, rwVars, Destroy, RwThreadStep, Rdlock, Wrlock, Tryrdlock, Trywrlock, RdlockAgain, WrlockAgain,
       Unlock, CancelRdwait, CancelWrwait, CancelNoCleanup, CancelActs, ThreadEnds, SpuriousWakeup, Cancel,
       RwCalling, RwReturns, RwSame

\* With the handlers, destroy after the joins finds nobody counted.
LEMMA DestroyFindsNobody ==
  ASSUME RwTypeOK, RwExclusion, RwBook, cleanup, Destroy
  PROVE  rwMain' # "EBUSY"
<1>1. Readers = {} /\ Writers = {} /\ RdWaiters = {} /\ WrWaiters = {}
  BY DEF Destroy, RwAllDone, Readers, Writers, RdWaiters, WrWaiters, RwAt, RwWaiting
<1>2. Cardinality({}) = 0
  BY FS_EmptySet
<1>3. rw_refcount = 0
  BY <1>1, <1>2, ExclusionSets
<1>4. rw_nwaitreaders = 0 /\ rw_nwaitwriters = 0
  BY <1>1, <1>2 DEF RwBook
<1> QED
  BY <1>3, <1>4 DEF Destroy

\* Every step keeps rw_nwaitreaders and rw_nwaitwriters equal to the threads that wait.
LEMMA BookStep == RwIInv /\ [RwNext]_rwVars => RwBook'
<1> SUFFICES ASSUME RwIInv, [RwNext]_rwVars PROVE RwBook'
  OBVIOUS
<1>1. RwTypeOK /\ RwExclusion /\ RwBook /\ RwWakes
  BY DEF RwIInv
<1>2. cleanup' = cleanup /\ (rwCancelled' = {} => rwCancelled = {})
  BY CancelledStay
<1>3. /\ Cardinality(RdWaiters) \in Nat /\ Cardinality(WrWaiters) \in Nat
      /\ IsFiniteSet(RdWaiters) /\ IsFiniteSet(WrWaiters)
      /\ rw_nwaitreaders \in Nat /\ rw_nwaitwriters \in Nat
  BY <1>1, AtFinite DEF RdWaiters, WrWaiters, RwTypeOK
<1>4. /\ RdWaiters' \subseteq RdWaiters => Cardinality(RdWaiters') <= Cardinality(RdWaiters)
      /\ WrWaiters' \subseteq WrWaiters => Cardinality(WrWaiters') <= Cardinality(WrWaiters)
  BY <1>3, FS_Subset
<1>5. Cardinality(RdWaiters') \in Nat /\ Cardinality(WrWaiters') \in Nat
  <2>1. RdWaiters' \subseteq RwThread /\ WrWaiters' \subseteq RwThread
    BY DEF RdWaiters, WrWaiters, RwAt
  <2> QED
    BY <2>1, RwThreadAssumption, FS_Subset, FS_CardinalityType
<1>6. /\ rw_nwaitreaders' >= Cardinality(RdWaiters') /\ rw_nwaitwriters' >= Cardinality(WrWaiters')
      /\ cleanup' \/ rwCancelled' = {} => /\ rw_nwaitreaders' = Cardinality(RdWaiters')
                                          /\ rw_nwaitwriters' = Cardinality(WrWaiters')
  BY <1>1, <1>2, <1>3, <1>4, <1>5, WaiterMoves DEF RwBook
<1>7. cleanup' => rwMain' # "EBUSY"
  <2>1. CASE Destroy
    BY <2>1, <1>1, <1>2, DestroyFindsNobody
  <2>2. CASE ~Destroy
    <3>1. rwMain' = rwMain
      BY <2>2 DEF RwNext, rwVars, RwThreadStep, Rdlock, Wrlock, Tryrdlock, Trywrlock, RdlockAgain, WrlockAgain,
           Unlock, CancelRdwait, CancelWrwait, CancelNoCleanup, CancelActs, ThreadEnds, SpuriousWakeup, Cancel,
           RwCalling, RwReturns, RwSame
    <3> QED
      BY <3>1, <1>1, <1>2 DEF RwBook
  <2> QED
    BY <2>1, <2>2
<1> QED
  BY <1>6, <1>7 DEF RwBook
--------------------------------------------------------------------------------
(* Wakeups                                                                    *)

\* Only a cancelled thread is at a place of cancellation.
LEMMA CancelPlaces ==
  ASSUME RwTypeOK, RwWakes, [RwNext]_rwVars
  PROVE  RwAt({"rdcancel", "wrcancel"})' \subseteq rwCancelled'
<1> DEFINE C == {"rdcancel", "wrcancel"}
<1>1. RwAt(C) \subseteq rwCancelled /\ rwCancelled \subseteq rwCancelled'
  BY CancelledStay DEF RwWakes
<1>2. CASE UNCHANGED rwVars \/ Destroy
  BY <1>1, <1>2 DEF rwVars, Destroy, RwAt
<1>3. ASSUME NEW t \in RwThread, RwThreadStep(t) \/ Cancel(t) \/ SpuriousWakeup(t)
      PROVE  RwAt(C)' \subseteq rwCancelled'
  <2>1. CASE Unlock(t)
    BY <2>1, <1>1, UnlockSets
  <2>2. CASE Cancel(t)
    <3>1. RwAt(C)' \subseteq RwAt(C) \union {t} /\ t \in rwCancelled'
      BY <2>2 DEF Cancel, RwGoes, RwTypeOK, RwAt
    <3> QED
      BY <3>1, <1>1
  <2>3. ASSUME NEW to, RwGoes(t, to), to \notin C
        PROVE  RwAt(C)' \subseteq rwCancelled'
    BY <2>3, <1>1 DEF RwGoes, RwTypeOK, RwAt
  <2> HIDE DEF C
  <2>4. CASE RwThreadStep(t) /\ ~Unlock(t)
    <3>1. \E to \in {"rdwait", "reading", "wrwait", "writing", "idle", "done"} : RwGoes(t, to)
      BY <2>4 DEF RwThreadStep, Rdlock, Wrlock, Tryrdlock, Trywrlock, RdlockAgain, WrlockAgain,
           CancelRdwait, CancelWrwait, CancelNoCleanup, CancelActs, ThreadEnds
    <3> QED
      BY <3>1, <2>3 DEF C
  <2>5. CASE SpuriousWakeup(t)
    BY <2>5, <2>3 DEF SpuriousWakeup, C
  <2> QED
    BY <1>3, <2>1, <2>2, <2>4, <2>5
<1> QED
  BY <1>2, <1>3 DEF RwNext

\* Without a cancellation, a counted writer that does not sleep is awake.
LEMMA CountedWriter ==
  ASSUME RwIInv, rwCancelled = {}, rw_nwaitwriters > 0
  PROVE  RwAt({"wrwait"}) # {} \/ RwAt({"wrwoken"}) # {}
<1>1. rw_nwaitwriters = Cardinality(WrWaiters)
  BY DEF RwIInv, RwBook
<1>2. Cardinality(WrWaiters) # 0
  BY <1>1
<1>3. WrWaiters # {}
  BY <1>2, FS_EmptySet
<1>4. PICK u \in RwThread : rwPc[u] \in {"wrwait", "wrwoken", "wrcancel"}
  BY <1>3 DEF WrWaiters, RwAt, RwWaiting
<1>5. rwPc[u] # "wrcancel"
  BY CancelledThere DEF RwIInv
<1> QED
  BY <1>4, <1>5 DEF RwAt

\* The two facts of RwWakes about a lock whose threads are not cancelled, after an unlock.
LEMMA UnlockWakesUp ==
  ASSUME RwIInv, rwCancelled = {}, NEW t \in RwThread, Unlock(t)
  PROVE  /\ rw_refcount' = 0 /\ rw_nwaitwriters' > 0 => RwAt({"wrwoken"})' # {}
         /\ RwAt({"rdwait"})' # {} => rw_refcount' = -1 \/ rw_nwaitwriters' > 0
<1> DEFINE pc == [rwPc EXCEPT ![t] = "idle"]
<1>1. /\ RwTypeOK /\ RwBook /\ rwPc \in [RwThread -> RwPc] /\ rw_refcount \in Int /\ rw_refcount >= -1
      /\ rw_nwaitreaders \in Nat /\ rw_nwaitwriters \in Nat
  BY DEF RwIInv, RwTypeOK
<1>2. /\ UNCHANGED <<rw_nwaitreaders, rw_nwaitwriters>> /\ rw_refcount' = RefcountUnlocked
      /\ rwPc[t] \in {"reading", "writing"}
      /\ UnlockWakesCancel(rw_refcount', pc) \/ UnlockWakes(rw_refcount', pc)
  BY DEF Unlock
<1> HIDE DEF pc
<1>3. ASSUME rw_refcount' = 0, rw_nwaitwriters' > 0
      PROVE  RwAt({"wrwoken"})' # {}
  <2>1. SignalWriters(pc)
    BY <1>2, <1>3 DEF UnlockWakes, UnlockWakesCancel
  <2>2. CASE RwAt({"wrwait"}) = {}
    <3>1. rwPc' = pc
      BY <2>1, <2>2 DEF SignalWriters
    <3>2. PICK u \in RwThread : rwPc[u] = "wrwoken"
      BY <1>2, <1>3, <2>2, CountedWriter DEF RwAt
    <3>3. rwPc'[u] = "wrwoken"
      BY <1>1, <1>2, <3>1, <3>2 DEF pc
    <3> QED
      BY <3>3 DEF RwAt
  <2>3. CASE RwAt({"wrwait"}) # {}
    <3>1. PICK w \in RwAt({"wrwait"}) : rwPc' = [pc EXCEPT ![w] = "wrwoken"]
      BY <2>1, <2>3 DEF SignalWriters
    <3>2. w \in RwThread
      BY DEF RwAt
    <3>3. rwPc'[w] = "wrwoken"
      BY <1>1, <3>1, <3>2 DEF pc
    <3> QED
      BY <3>2, <3>3 DEF RwAt
  <2> QED
    BY <2>2, <2>3
<1>4. ASSUME RwAt({"rdwait"})' # {}, ~(rw_nwaitwriters' > 0)
      PROVE  FALSE
  <2>1. PICK r \in RwThread : rwPc'[r] = "rdwait"
    BY <1>4 DEF RwAt
  <2>2. rwPc[r] = "rdwait"
    BY <1>1, <2>1, UnlockPlaces
  <2>3. rw_nwaitreaders > 0
    BY <1>1, <2>2, Waiting DEF RwWaiting
  <2>4. BroadcastReaders(pc)
    BY <1>2, <1>4, <2>3 DEF UnlockWakes, UnlockWakesCancel
  <2>5. rwPc'[r] = "rdwoken"
    BY <2>2, <2>4 DEF BroadcastReaders
  <2> QED
    BY <2>1, <2>5
<1> QED
  BY <1>3, <1>4

\* Every step keeps the facts about who is awake.
LEMMA WakesStep == RwIInv /\ [RwNext]_rwVars => RwWakes'
<1> SUFFICES ASSUME RwIInv, [RwNext]_rwVars PROVE RwWakes'
  OBVIOUS
<1>1. RwTypeOK /\ RwWakes
  BY DEF RwIInv
<1>2. RwAt({"rdcancel", "wrcancel"})' \subseteq rwCancelled'
  BY <1>1, CancelPlaces
<1> DEFINE Asleep == RwAt({"rdwait"})
           Awake == RwAt({"wrwoken"})
<1>3. ASSUME rwCancelled' = {}
      PROVE  /\ rw_refcount' = 0 /\ rw_nwaitwriters' > 0 => Awake' # {}
             /\ Asleep' # {} => rw_refcount' = -1 \/ rw_nwaitwriters' > 0
  <2>1. rwCancelled = {}
    BY <1>3, CancelledStay
  <2>2. /\ rw_refcount = 0 /\ rw_nwaitwriters > 0 => Awake # {}
        /\ Asleep # {} => rw_refcount = -1 \/ rw_nwaitwriters > 0
        /\ rw_refcount \in Int /\ rw_refcount >= -1 /\ rw_nwaitwriters \in Nat
    BY <1>1, <2>1 DEF RwWakes, RwTypeOK
  <2>3. CASE UNCHANGED rwVars \/ Destroy
    BY <2>2, <2>3 DEF rwVars, Destroy, rwCounts, RwAt
  <2>4. ASSUME NEW t \in RwThread, RwThreadStep(t) \/ Cancel(t) \/ SpuriousWakeup(t)
        PROVE  /\ rw_refcount' = 0 /\ rw_nwaitwriters' > 0 => Awake' # {}
               /\ Asleep' # {} => rw_refcount' = -1 \/ rw_nwaitwriters' > 0
    <3>m. ASSUME NEW to, RwGoes(t, to), rwPc[t] # "wrwoken", to # "wrwoken"
          PROVE  Awake' = Awake
      BY <3>m, <1>1, MoveStays
    <3>n. ASSUME NEW to, RwGoes(t, to), to # "rdwait"
          PROVE  Asleep' \subseteq Asleep
      BY <3>n, <1>1 DEF RwGoes, RwTypeOK, RwAt
    <3> HIDE DEF Awake, Asleep
    <3>1. CASE Rdlock(t) \/ RdlockAgain(t)
      <4>1. CASE ReadersWait
        <5>1. RwGoes(t, "rdwait") /\ UNCHANGED <<rw_refcount, rw_nwaitwriters>> /\ rwPc[t] # "wrwoken"
          BY <3>1, <4>1 DEF Rdlock, RdlockAgain, RwCalling, RwReturns, rwCounts
        <5>2. Awake' = Awake
          BY <5>1, <3>m
        <5> QED
          BY <4>1, <5>1, <5>2, <2>2 DEF ReadersWait
      <4>2. CASE ~ReadersWait
        <5>1. RwGoes(t, "reading") /\ rw_refcount' = rw_refcount + 1 /\ UNCHANGED rw_nwaitwriters
          BY <3>1, <4>2 DEF Rdlock, RdlockAgain
        <5>2. Asleep' \subseteq Asleep
          BY <5>1, <3>n
        <5> QED
          BY <4>2, <5>1, <5>2, <2>2 DEF ReadersWait
      <4> QED
        BY <4>1, <4>2
    <3>2. CASE Wrlock(t) \/ WrlockAgain(t)
      <4>1. CASE WritersWait
        <5>1. /\ RwGoes(t, "wrwait") /\ UNCHANGED rw_refcount
              /\ rw_nwaitwriters' = rw_nwaitwriters \/ rw_nwaitwriters' = rw_nwaitwriters + 1
          BY <3>2, <4>1 DEF Wrlock, WrlockAgain, rwCounts
        <5>2. Asleep' \subseteq Asleep
          BY <5>1, <3>n
        <5> QED
          BY <4>1, <5>1, <5>2, <2>2 DEF WritersWait
      <4>2. CASE ~WritersWait
        BY <3>2, <4>2 DEF Wrlock, WrlockAgain
      <4> QED
        BY <4>1, <4>2
    <3>3. CASE Tryrdlock(t)
      <4>1. /\ RwGoes(t, IF ReadersWait THEN "idle" ELSE "reading") /\ UNCHANGED rw_nwaitwriters
            /\ rw_refcount' = IF ReadersWait THEN rw_refcount ELSE rw_refcount + 1
            /\ rwPc[t] = "idle"
        BY <3>3 DEF Tryrdlock, RwCalling
      <4>2. Asleep' \subseteq Asleep /\ Awake' = Awake
        BY <4>1, <3>m, <3>n
      <4> QED
        BY <4>1, <4>2, <2>2 DEF ReadersWait
    <3>4. CASE Trywrlock(t)
      <4>1. /\ RwGoes(t, IF WritersWait THEN "idle" ELSE "writing") /\ UNCHANGED rw_nwaitwriters
            /\ rw_refcount' = IF WritersWait THEN rw_refcount ELSE -1
            /\ rwPc[t] = "idle"
        BY <3>4 DEF Trywrlock, RwCalling
      <4>2. Asleep' \subseteq Asleep /\ Awake' = Awake
        BY <4>1, <3>m, <3>n
      <4> QED
        BY <4>1, <4>2, <2>2
    <3>5. CASE Unlock(t)
      BY <3>5, <2>1, UnlockWakesUp DEF Awake, Asleep
    <3>6. CASE CancelRdwait(t) \/ CancelWrwait(t) \/ CancelNoCleanup(t)
      <4>1. rwPc[t] \in {"rdcancel", "wrcancel"}
        BY <3>6 DEF CancelRdwait, CancelWrwait, CancelNoCleanup, CancelActs
      <4> QED
        BY <4>1, <1>1, <2>1, CancelledThere
    <3>7. CASE ThreadEnds(t)
      <4>1. RwGoes(t, "done") /\ UNCHANGED <<rw_refcount, rw_nwaitwriters>> /\ rwPc[t] = "idle"
        BY <3>7 DEF ThreadEnds, rwCounts
      <4>2. Asleep' \subseteq Asleep /\ Awake' = Awake
        BY <4>1, <3>m, <3>n
      <4> QED
        BY <4>1, <4>2, <2>2
    <3>8. CASE SpuriousWakeup(t)
      <4>1. Asleep' \subseteq Asleep /\ Awake \subseteq Awake'
        BY <3>8, <1>1 DEF SpuriousWakeup, RwGoes, RwTypeOK, RwAt, Awake, Asleep
      <4> QED
        BY <3>8, <4>1, <2>2 DEF SpuriousWakeup, rwCounts
    <3>9. CASE Cancel(t)
      BY <3>9, <1>3 DEF Cancel
    <3> QED
      BY <2>4, <3>1, <3>2, <3>3, <3>4, <3>5, <3>6, <3>7, <3>8, <3>9 DEF RwThreadStep
  <2> HIDE DEF Awake, Asleep
  <2> QED
    BY <2>3, <2>4 DEF RwNext
<1> QED
  BY <1>2, <1>3 DEF RwWakes

--------------------------------------------------------------------------------
(* The theorems                                                               *)

\* The inductive invariant holds at the start.
LEMMA RwInitially == RwInit => RwIInv
<1> SUFFICES ASSUME RwInit PROVE RwIInv
  OBVIOUS
<1>1. RwTypeOK
  <2>1. rwPc \in [RwThread -> RwPc] /\ rwLeft \in [RwThread -> 0 .. RwCalls]
    BY RwCallsAssumption DEF RwInit, RwPc
  <2> QED
    BY <2>1 DEF RwInit, RwTypeOK
<1>2. \A S : "idle" \notin S => RwAt(S) = {}
  BY DEF RwInit, RwAt
<1>3. /\ Readers = {} /\ Writers = {} /\ RdWaiters = {} /\ WrWaiters = {}
      /\ RwAt({"rdcancel", "wrcancel"}) = {} /\ RwAt({"rdwait"}) = {}
  BY <1>2 DEF Readers, Writers, RdWaiters, WrWaiters, RwWaiting
<1>4. Cardinality({}) = 0
  BY FS_EmptySet
<1>5. RwExclusion
  BY <1>3, <1>4, ExclusionSets DEF RwInit
<1>6. RwBook
  BY <1>3, <1>4 DEF RwInit, RwBook
<1>7. RwWakes
  BY <1>3 DEF RwInit, RwWakes
<1> QED
  BY <1>1, <1>5, <1>6, <1>7 DEF RwIInv

\* The inductive invariant holds in every state.
THEOREM RwInvariant == RwSpec => []RwIInv
<1>1. RwIInv /\ [RwNext]_rwVars => RwIInv'
  BY TypeStep, ExclusionStep, BookStep, WakesStep DEF RwIInv
<1> QED
  BY <1>1, RwInitially, PTL DEF RwSpec

\* The counters of pthread_rwlock_t keep their types: the counts of waiting threads never go
\* below zero, nor rw_refcount below -1.
THEOREM RwTypes == RwSpec => []RwTypeOK
<1>1. RwIInv => RwTypeOK
  BY DEF RwIInv
<1> QED
  BY <1>1, RwInvariant, PTL

\* A writer holds the lock alone and rw_refcount tells who holds it, for any number of threads,
\* in both libraries and whichever threads are cancelled.
THEOREM RwExcludes == RwSpec => []RwExclusion
<1>1. RwIInv => RwExclusion
  BY DEF RwIInv
<1> QED
  BY <1>1, RwInvariant, PTL

\* With the handlers of my_rwlock_cancel the counts are those of the threads in
\* pthread_cond_wait, and destroy after the joins never returns EBUSY.
THEOREM RwCounts == RwSpec => []RwWaitersCounted
<1>1. RwIInv => RwWaitersCounted
  BY DEF RwIInv, RwBook, RwWaitersCounted, RdWaiters, WrWaiters
<1> QED
  BY <1>1, RwInvariant, PTL

\* As long as no thread is cancelled no wakeup is lost, in either library.
THEOREM RwWakeups == RwSpec => []RwNoLostWakeup
<1>1. RwIInv => RwNoLostWakeup
  <2> SUFFICES ASSUME RwIInv, rwCancelled = {}
               PROVE  /\ rw_refcount = 0 /\ RwAt({"rdwait", "wrwait"}) # {}
                           => RwAt({"rdwoken", "wrwoken"}) # {}
                      /\ RwAt({"rdwait"}) # {} => rw_refcount = -1 \/ rw_nwaitwriters > 0
    BY DEF RwNoLostWakeup
  <2>1. /\ rw_refcount = 0 /\ rw_nwaitwriters > 0 => RwAt({"wrwoken"}) # {}
        /\ RwAt({"rdwait"}) # {} => rw_refcount = -1 \/ rw_nwaitwriters > 0
    BY DEF RwIInv, RwWakes
  <2>2. ASSUME rw_refcount = 0, NEW u \in RwThread, rwPc[u] \in {"rdwait", "wrwait"}
        PROVE  RwAt({"rdwoken", "wrwoken"}) # {}
    <3>1. rwPc[u] = "wrwait" => rw_nwaitwriters > 0
      BY Waiting DEF RwIInv, RwWaiting
    <3>2. rwPc[u] = "rdwait" => rw_nwaitwriters > 0
      BY <2>1, <2>2 DEF RwAt
    <3>3. RwAt({"wrwoken"}) # {}
      BY <2>1, <2>2, <3>1, <3>2
    <3> QED
      BY <3>3 DEF RwAt
  <2> QED
    BY <2>1, <2>2 DEF RwAt
<1> QED
  BY <1>1, RwInvariant, PTL

\* What the lock promises, for any number of threads and calls and in both libraries.
THEOREM RwIsSafe == RwSpec => []RwSafe
<1>1. RwTypeOK /\ RwExclusion /\ RwWaitersCounted /\ RwNoLostWakeup => RwSafe
  BY DEF RwSafe
<1> QED
  BY <1>1, RwTypes, RwExcludes, RwCounts, RwWakeups, PTL
================================================================================
