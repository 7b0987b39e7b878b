-------------------------------- MODULE SemFifo --------------------------------
(******************************************************************************)
(* unpv22e/my_pxsem_fifo: POSIX semaphores in a FIFO.  The value is the       *)
(* number of bytes in the FIFO: post writes one, wait reads one.  The kernel  *)
(* keeps the bytes only while some process has the FIFO open.  Every system   *)
(* call is a step.                                                            *)
(******************************************************************************)
EXTENDS Integers, FiniteSets

CONSTANTS
  FfProc,       \* the processes
  FfValue,      \* the initial value given to sem_open
  FF_CAPACITY,  \* how many bytes a FIFO holds
  FfMaxFifos    \* bound: FIFOs made

ASSUME FfAssumption == IsFiniteSet(FfProc) /\ FfValue \in Nat /\ FF_CAPACITY \in Nat /\ FfMaxFifos \in Nat

FfFifo == 1 .. FfMaxFifos

VARIABLES
  ffPath,     \* the FIFO of the name, 0 if none
  ffFifos,    \* FIFOs made so far
  ffBytes,    \* [FfFifo -> bytes in it]
  ffPc,       \* [FfProc -> its place in the calls]
  ffCreator,  \* the processes whose oflag still has O_CREAT
  ffRd, ffWr, \* sem_fd[0] and sem_fd[1]: [FfProc -> the FIFO, 0 for -1]
  ffToWrite,  \* [FfProc -> bytes still to write in sem_open]
  ffLeft,     \* the FIFOs that at some time were closed by all
  ffUnlinked  \* the name was removed at some time

ffVars == <<ffPath, ffFifos, ffBytes, ffPc, ffCreator, ffRd, ffWr, ffToWrite, ffLeft, ffUnlinked>>

FfOpening == {"rdonly", "wronly", "write"}
FfUsers(f) == {p \in FfProc : ffRd[p] = f \/ ffWr[p] = f}

\* The types of the name, the FIFOs and the processes.
FfTypeOK ==
  /\ ffPath \in 0 .. ffFifos /\ ffFifos \in 0 .. FfMaxFifos
  /\ ffBytes \in [FfFifo -> 0 .. FF_CAPACITY]
  /\ ffPc \in [FfProc -> FfOpening \union {"idle", "open", "reading", "held"}]
  /\ ffCreator \subseteq FfProc /\ ffLeft \subseteq FfFifo /\ ffUnlinked \in BOOLEAN
  /\ ffRd \in [FfProc -> 0 .. ffFifos] /\ ffWr \in [FfProc -> 0 .. ffFifos]
  /\ ffToWrite \in [FfProc -> 0 .. FfValue]

FfInit ==
  /\ ffPath = 0 /\ ffFifos = 0 /\ ffBytes = [f \in FfFifo |-> 0]
  /\ ffPc = [p \in FfProc |-> "idle"] /\ ffCreator = {}
  /\ ffRd = [p \in FfProc |-> 0] /\ ffWr = [p \in FfProc |-> 0]
  /\ ffToWrite = [p \in FfProc |-> 0] /\ ffLeft = {} /\ ffUnlinked = FALSE

--------------------------------------------------------------------------------
(* sem_open                                                                   *)

FfGoes(p, from, to) == ffPc[p] = from /\ ffPc' = [ffPc EXCEPT ![p] = to]

\* The kernel drops the bytes of a FIFO that its last user closes.
FfCloses(p) ==
  /\ ffRd' = [ffRd EXCEPT ![p] = 0] /\ ffWr' = [ffWr EXCEPT ![p] = 0]
  /\ LET left == {f \in FfFifo : FfUsers(f) = {p}}
     IN  /\ ffBytes' = [f \in FfFifo |-> IF f \in left THEN 0 ELSE ffBytes[f]]
         /\ ffLeft' = ffLeft \union left


\* mkfifo; not without O_CREAT, and not if the name is there (an error only with O_EXCL).
FfMkfifo(p) ==
  /\ \/ /\ ffPath = 0 /\ ffFifos < FfMaxFifos
        /\ ffFifos' = ffFifos + 1 /\ ffPath' = ffFifos + 1
        /\ ffCreator' = ffCreator \union {p}
        /\ ffToWrite' = [ffToWrite EXCEPT ![p] = FfValue]
     \/ UNCHANGED <<ffPath, ffFifos, ffCreator, ffToWrite>>
  /\ FfGoes(p, "idle", "rdonly")
  /\ UNCHANGED <<ffBytes, ffRd, ffWr, ffLeft, ffUnlinked>>

\* error: remove the name if this process made the FIFO, close what is open.
FfError(p) ==
  /\ ffPc' = [ffPc EXCEPT ![p] = "idle"]
  /\ ffPath' = IF p \in ffCreator THEN 0 ELSE ffPath
  /\ ffUnlinked' = (ffUnlinked \/ p \in ffCreator)
  /\ ffCreator' = ffCreator \ {p}
  /\ ffToWrite' = [ffToWrite EXCEPT ![p] = 0]
  /\ FfCloses(p)
  /\ UNCHANGED ffFifos

\* open for reading without blocking, then for writing: the second finds the reader.
FfRdonly(p) ==
  \/ /\ ffPath # 0
     /\ FfGoes(p, "rdonly", "wronly")
     /\ ffRd' = [ffRd EXCEPT ![p] = ffPath]
     /\ UNCHANGED <<ffPath, ffFifos, ffBytes, ffCreator, ffWr, ffToWrite, ffLeft, ffUnlinked>>
  \/ ffPath = 0 /\ ffPc[p] = "rdonly" /\ FfError(p)

FfWronly(p) ==
  \/ /\ ffPath # 0 /\ {q \in FfProc : ffRd[q] = ffPath} # {}
     /\ FfGoes(p, "wronly", "write")
     /\ ffWr' = [ffWr EXCEPT ![p] = ffPath]
     /\ UNCHANGED <<ffPath, ffFifos, ffBytes, ffCreator, ffRd, ffToWrite, ffLeft, ffUnlinked>>
  \/ ffPath = 0 /\ ffPc[p] = "wronly" /\ FfError(p)   \* ENOENT
  \/ /\ ffPath # 0 /\ {q \in FfProc : ffRd[q] = ffPath} = {}   \* ENXIO
     /\ ffPc[p] = "wronly" /\ FfError(p)

FfMore(p) == ffToWrite[p] > 0

\* write one byte of the initial value; EAGAIN if the FIFO is full.
FfWrite(p) ==
  \/ /\ ffPc[p] = "write" /\ FfMore(p) /\ ffBytes[ffWr[p]] < FF_CAPACITY
     /\ ffBytes' = [ffBytes EXCEPT ![ffWr[p]] = @ + 1]
     /\ ffToWrite' = [ffToWrite EXCEPT ![p] = @ - 1]
     /\ UNCHANGED <<ffPath, ffFifos, ffPc, ffCreator, ffRd, ffWr, ffLeft, ffUnlinked>>
  \/ /\ ffPc[p] = "write" /\ FfMore(p) /\ ffBytes[ffWr[p]] = FF_CAPACITY
     /\ FfError(p)
  \/ /\ ~FfMore(p)
     /\ FfGoes(p, "write", "open")
     /\ ffCreator' = ffCreator \ {p}
     /\ UNCHANGED <<ffPath, ffFifos, ffBytes, ffRd, ffWr, ffToWrite, ffLeft, ffUnlinked>>

--------------------------------------------------------------------------------
(* The other operations                                                       *)

FfRest == UNCHANGED <<ffPath, ffFifos, ffCreator, ffRd, ffWr, ffToWrite, ffLeft, ffUnlinked>>

\* sem_wait: a read that blocks while the FIFO is empty.
FfWait(p) ==
  /\ ffPc[p] \in {"open", "reading"}
  /\ \/ /\ ffBytes[ffRd[p]] > 0
        /\ ffBytes' = [ffBytes EXCEPT ![ffRd[p]] = @ - 1]
        /\ ffPc' = [ffPc EXCEPT ![p] = "held"]
     \/ /\ ffBytes[ffRd[p]] = 0
        /\ ffPc' = [ffPc EXCEPT ![p] = "reading"]
        /\ UNCHANGED ffBytes
  /\ FfRest

\* sem_post: a write that fails if the FIFO is full.
FfPost(p) ==
  /\ FfGoes(p, "held", "open")
  /\ ffBytes' = IF ffBytes[ffWr[p]] < FF_CAPACITY
                  THEN [ffBytes EXCEPT ![ffWr[p]] = @ + 1] ELSE ffBytes
  /\ FfRest

FfClose(p) ==
  /\ FfGoes(p, "open", "idle")
  /\ FfCloses(p)
  /\ UNCHANGED <<ffPath, ffFifos, ffCreator, ffToWrite, ffUnlinked>>

FfUnlink ==
  /\ ffPath # 0
  /\ ffPath' = 0 /\ ffUnlinked' = TRUE
  /\ UNCHANGED <<ffFifos, ffBytes, ffPc, ffCreator, ffRd, ffWr, ffToWrite, ffLeft>>

FfNext ==
  \/ FfUnlink
  \/ \E p \in FfProc : \/ FfMkfifo(p) \/ FfRdonly(p) \/ FfWronly(p) \/ FfWrite(p)
                       \/ FfWait(p) \/ FfPost(p) \/ FfClose(p)

FfSpec == FfInit /\ [][FfNext]_ffVars

--------------------------------------------------------------------------------
(* Properties                                                                 *)

\* Until the name is removed and while somebody has the FIFO open, the bytes in it, the
\* processes that took one and the bytes the creator has yet to write make up the initial
\* value, although nobody waits for the creator to be done.
FfConserved ==
  ~ffUnlinked /\ ffPath # 0 /\ ffPath \notin ffLeft =>
    LET held == {p \in FfProc : ffPc[p] = "held"}
        toWrite == IF ffCreator = {} THEN 0 ELSE ffToWrite[CHOOSE p \in ffCreator : TRUE]
    IN  /\ Cardinality(ffCreator) <= 1
        /\ ffBytes[ffPath] + Cardinality(held) + toWrite = FfValue

================================================================================
