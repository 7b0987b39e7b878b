---------------------------------- MODULE DgEcho --------------------------------
(******************************************************************************)
(* unpv13e/sigio/dgecho01.c: an echo server with signal-driven I/O.  The      *)
(* handler of SIGIO reads all datagrams there are into a ring; the main loop  *)
(* sends them back.  SIGIO is blocked while the main loop tests and changes   *)
(* nqueue; between, the handler can run at any point.  The process's signals, *)
(* of which at most one SIGIO is pending, and the socket are external.        *)
(******************************************************************************)
EXTENDS Integers, Sequences

CONSTANTS
  QSIZE,        \* size of input queue
  DgDatagrams   \* bound: datagrams the clients send

ASSUME DgAssumption == QSIZE \in Nat \ {0} /\ DgDatagrams \in Nat

VARIABLES
  dg,                   \* the ring: [0 .. QSIZE - 1 -> datagram, 0 before the first]
  iget, iput, nqueue,
  dgSocket,             \* received by the kernel and not yet read
  dgPending,            \* a SIGIO is pending
  dgMain,               \* the main loop: "test", "suspend", "send", "advance", "block"
  dgHandler,            \* "none", "read" (in sig_io), "quit" (receive overflow)
  dgArrived,            \* how many datagrams have arrived; they are numbered from 1
  dgEchoed              \* the datagrams sent back

dgRing == <<dg, iget, iput, nqueue>>
dgVars == <<dgRing, dgSocket, dgPending, dgMain, dgHandler, dgArrived, dgEchoed>>

DgInit ==
  /\ dg = [i \in 0 .. QSIZE - 1 |-> 0] /\ iget = 0 /\ iput = 0 /\ nqueue = 0
  /\ dgSocket = <<>> /\ dgPending = FALSE /\ dgMain = "test" /\ dgHandler = "none"
  /\ dgArrived = 0 /\ dgEchoed = <<>>

\* A datagram arrives, and SIGIO is sent.
Arrive ==
  /\ dgArrived < DgDatagrams
  /\ dgArrived' = dgArrived + 1
  /\ dgSocket' = Append(dgSocket, dgArrived + 1) /\ dgPending' = TRUE
  /\ UNCHANGED <<dgRing, dgMain, dgHandler, dgEchoed>>

UnblockedAwake == dgMain \in {"send", "advance", "block"}        \* mutant: sigsuspend with the wrong mask

\* SIGIO is blocked but while the main loop is suspended, sends or advances.
Unblocked == dgMain \in {"suspend", "send", "advance", "block"}

\* The handler starts; sigsuspend returns when it is done.
SigIo ==
  /\ dgHandler = "none" /\ dgPending /\ Unblocked
  /\ dgPending' = FALSE /\ dgHandler' = "read"
  /\ dgMain' = IF dgMain = "suspend" THEN "test" ELSE dgMain
  /\ UNCHANGED <<dgRing, dgSocket, dgArrived, dgEchoed>>

DgFull == nqueue >= QSIZE

DgReadsOnce == dgHandler' = "none"        \* mutant: one datagram per signal
DgReadsOn == UNCHANGED dgHandler

\* One round of the handler's loop.
SigIoReads ==
  /\ dgHandler = "read"
  /\ \/ /\ DgFull
        /\ dgHandler' = "quit"
        /\ UNCHANGED <<dg, iput, nqueue, dgSocket>>
     \/ /\ ~DgFull /\ dgSocket = <<>>
        /\ dgHandler' = "none"
        /\ UNCHANGED <<dg, iput, nqueue, dgSocket>>
     \/ /\ ~DgFull /\ dgSocket # <<>>
        /\ dg' = [dg EXCEPT ![iput] = Head(dgSocket)] /\ dgSocket' = Tail(dgSocket)
        /\ nqueue' = nqueue + 1 /\ iput' = (iput + 1) % QSIZE
        /\ DgReadsOn
  /\ UNCHANGED <<iget, dgPending, dgMain, dgArrived, dgEchoed>>

\* A step of the main loop, which the handler interrupts.
MainGoes(from, to) == dgHandler = "none" /\ dgMain = from /\ dgMain' = to

\* nqueue is tested and the process suspended in one step of the signals' world: SIGIO is blocked
\* until sigsuspend unblocks it.
TestQueue ==
  /\ MainGoes("test", IF nqueue = 0 THEN "suspend" ELSE "send")
  /\ UNCHANGED <<dgRing, dgSocket, dgPending, dgHandler, dgArrived, dgEchoed>>

Sendto ==
  /\ MainGoes("send", "advance")
  /\ dgEchoed' = Append(dgEchoed, dg[iget])
  /\ UNCHANGED <<dgRing, dgSocket, dgPending, dgHandler, dgArrived>>

AdvanceIget ==
  /\ MainGoes("advance", "block")
  /\ iget' = (iget + 1) % QSIZE
  /\ UNCHANGED <<dg, iput, nqueue, dgSocket, dgPending, dgHandler, dgArrived, dgEchoed>>

\* SIGIO is blocked and nqueue decremented.
BlockAndCount ==
  /\ MainGoes("block", "test")
  /\ nqueue' = nqueue - 1
  /\ UNCHANGED <<dg, iget, iput, dgSocket, dgPending, dgHandler, dgArrived, dgEchoed>>

DgStep == SigIo \/ SigIoReads \/ TestQueue \/ Sendto \/ AdvanceIget \/ BlockAndCount

DgNext == Arrive \/ DgStep

DgSpec == DgInit /\ [][DgNext]_dgVars
DgFairness == WF_dgVars(DgStep)

--------------------------------------------------------------------------------
(* Properties                                                                 *)

\* Each variable has its type.
DgTypeOK ==
  /\ dg \in [0 .. QSIZE - 1 -> 0 .. dgArrived]
  /\ iget \in 0 .. QSIZE - 1 /\ iput \in 0 .. QSIZE - 1 /\ nqueue \in 0 .. QSIZE
  /\ dgSocket \in Seq(1 .. dgArrived) /\ dgPending \in BOOLEAN
  /\ dgMain \in {"test", "suspend", "send", "advance", "block"}
  /\ dgHandler \in {"none", "read", "quit"} /\ dgArrived \in 0 .. DgDatagrams

\* The datagrams go back in the order they came, each once: the handler, which runs while the main
\* loop sends and moves iget, never writes the slot being sent, and nqueue is never off by one.
DgInOrder == \A n \in DOMAIN dgEchoed : dgEchoed[n] = n

\* A datagram waits in the socket only with a SIGIO on its way or the handler at work: no signal
\* merged with another leaves a datagram behind.
DgSignalled == dgSocket # <<>> => dgPending \/ dgHandler # "none"

\* Every datagram is sent back, unless the server stops on a full ring.
DgAllEchoed == \A n \in 1 .. DgDatagrams : dgArrived = n ~> Len(dgEchoed) >= n \/ dgHandler = "quit"

\* Handler and main loop share the ring without losing, doubling or forgetting a datagram.
DgSafe == DgTypeOK /\ DgInOrder /\ DgSignalled
================================================================================
