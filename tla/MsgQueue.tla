-------------------------------- MODULE MsgQueue -------------------------------
(******************************************************************************)
(* unpv22e/my_pxmsg_mmap: POSIX message queues in a mapped file.  The file    *)
(* holds a header and MQ_MAXMSG slots, threaded on two lists: the messages,   *)
(* from mqh_head, and the free slots, from mqh_free.  One mutex guards it,    *)
(* and one condition variable serves senders and receivers alike.             *)
(*                                                                            *)
(* A call holds mqh_lock from its first access to its last but for            *)
(* pthread_cond_wait, so the sections between are single steps.  Calls that   *)
(* fail (EBADF, EMSGSIZE, EAGAIN, EBUSY) change nothing and take no step.     *)
(******************************************************************************)
EXTENDS Integers, Sequences, FiniteSets

CONSTANTS
  MqProc,      \* the processes that have the queue open, one thread each
  MQ_MAXMSG,   \* mq_maxmsg of the queue
  MqPrio,      \* the priorities in use
  MqListener,  \* bound: the processes that call mq_notify and mq_setattr and may be killed
  MaxSends,    \* bound: messages sent
  MaxMqDeaths  \* bound: processes that are killed

ASSUME MqAssumption ==
  /\ IsFiniteSet(MqProc) /\ MQ_MAXMSG \in Nat \ {0} /\ MqPrio \subseteq Nat
  /\ MqListener \subseteq MqProc
  /\ MaxSends \in Nat /\ MaxMqDeaths \in Nat

MqSlot == 1 .. MQ_MAXMSG     \* the index of a mymsg_hdr; 0 ends a list
MqIndex == 0 .. MQ_MAXMSG
MqMessage == [prio : MqPrio, n : 1 .. MaxSends]   \* n tells the messages apart

VARIABLES
  mq_curmsgs, mqh_head, mqh_free, mqh_nwait,
  mqh_pid,     \* {} or {the process registered for a notification}
  msg_next,    \* [MqSlot -> MqIndex]
  msg,         \* [MqSlot -> MqMessage, or <<>> if never filled]
  mqi_flags,   \* the processes with O_NONBLOCK set
  mqPc,        \* [MqProc -> what it is doing]
  mqArg,       \* [MqProc -> the message it is sending]
  mqGot,       \* [MqProc -> the message it received last]
  mqSent,      \* messages sent so far
  mqCrowd      \* two threads have slept on mqh_wait at the same time

mqFile == <<mq_curmsgs, mqh_head, mqh_free, msg_next, msg>>
mqVars == <<mqFile, mqh_pid, mqh_nwait, mqi_flags, mqPc, mqArg, mqGot, mqSent, mqCrowd>>

MqAsleep == {"sendwait", "recvwait"}
MqWoken == {"sendwoken", "recvwoken"}
MqIn(pc, S) == {p \in MqProc : pc[p] \in S}

MqFreeList == [i \in MqSlot |-> IF i = MQ_MAXMSG THEN 0 ELSE i + 1]

\* mq_open, the part that creates the file: all slots on the free list.
MqInit ==
  /\ mq_curmsgs = 0 /\ mqh_head = 0 /\ mqh_free = 1 /\ mqh_nwait = 0 /\ mqh_pid = {}
  /\ msg_next = MqFreeList
  /\ msg = [i \in MqSlot |-> <<>>]
  /\ mqi_flags = {}
  /\ mqPc = [p \in MqProc |-> "idle"] /\ mqArg = [p \in MqProc |-> <<>>]
  /\ mqGot = [p \in MqProc |-> <<>>]
  /\ mqSent = 0 /\ mqCrowd = FALSE

--------------------------------------------------------------------------------

\* The n-th slot of the list that starts at index i, 0 past its end.
MqWalk(i) ==
  LET at[n \in MqIndex] ==
        IF n = 0 THEN i ELSE IF at[n - 1] = 0 THEN 0 ELSE msg_next[at[n - 1]]
  IN  at
MqList(i) == {MqWalk(i)[n] : n \in MqIndex} \ {0}

\* pthread_cond_wait and pthread_cond_signal on mqh_wait.
MqSleep(p, place) ==
  /\ mqPc' = [mqPc EXCEPT ![p] = place]
  /\ mqCrowd' = (mqCrowd \/ Cardinality(MqIn(mqPc', MqAsleep)) > 1)

MqMoves(p, signal) ==
  LET done == [mqPc EXCEPT ![p] = "idle"]
      asleep == MqIn(mqPc, MqAsleep)
      wakes(q) == IF mqPc[q] = "sendwait" THEN "sendwoken" ELSE "recvwoken"
  IN  /\ IF signal /\ asleep # {}
           THEN \E q \in asleep : mqPc' = [done EXCEPT ![q] = wakes(q)]
           ELSE mqPc' = done
      /\ UNCHANGED mqCrowd

MqPrecedes(m, i) == m.prio > msg[i].prio

MqFirstCounted == mq_curmsgs + 1 = 0        \* mutant: the test comes after the increment
MqFirst == mq_curmsgs = 0

\* Fill the first free slot, link it in before the first message of lower priority.
Enlist(p, m) ==
  LET at == MqWalk(mqh_head)
      k == CHOOSE k \in MqIndex :
             /\ at[k] = 0 \/ MqPrecedes(m, at[k])
             /\ \A j \in 0 .. k - 1 : at[j] # 0 /\ ~MqPrecedes(m, at[j])
      linked == [msg_next EXCEPT ![mqh_free] = at[k]]
  IN  /\ msg' = [msg EXCEPT ![mqh_free] = m]
      /\ mqh_free' = msg_next[mqh_free]
      /\ IF k = 0
           THEN mqh_head' = mqh_free /\ msg_next' = linked
           ELSE msg_next' = [linked EXCEPT ![at[k - 1]] = mqh_free] /\ UNCHANGED mqh_head
      /\ mq_curmsgs' = mq_curmsgs + 1
      /\ MqMoves(p, MqFirst)

\* A send that finds the queue empty notifies and unregisters, unless a receiver waits.
MqNotifies ==
  IF mq_curmsgs = 0 /\ mqh_pid # {} /\ mqh_nwait = 0
    THEN mqh_pid' = {}
    ELSE UNCHANGED mqh_pid

MqSend(p) ==
  /\ mqPc[p] = "idle" /\ mqSent < MaxSends
  /\ \E prio \in MqPrio :
       LET m == [prio |-> prio, n |-> mqSent + 1]
       IN  \/ /\ mq_curmsgs < MQ_MAXMSG
              /\ MqNotifies
              /\ Enlist(p, m)
              /\ UNCHANGED mqArg
           \/ /\ mq_curmsgs >= MQ_MAXMSG /\ p \notin mqi_flags
              /\ mqArg' = [mqArg EXCEPT ![p] = m]
              /\ MqSleep(p, "sendwait")
              /\ UNCHANGED <<mqFile, mqh_pid>>
  /\ mqSent' = mqSent + 1
  /\ UNCHANGED <<mqh_nwait, mqi_flags, mqGot>>

MqSendAgain(p) ==
  /\ mqPc[p] = "sendwoken"
  /\ \/ /\ mq_curmsgs < MQ_MAXMSG
        /\ Enlist(p, mqArg[p])
        /\ mqArg' = [mqArg EXCEPT ![p] = <<>>]
     \/ /\ mq_curmsgs >= MQ_MAXMSG
        /\ MqSleep(p, "sendwait")
        /\ UNCHANGED <<mqFile, mqArg>>
  /\ UNCHANGED <<mqh_pid, mqh_nwait, mqi_flags, mqGot, mqSent>>

MqFreed == mqh_free' = mqh_head

\* Unlink the first message and put its slot at the front of the free list.
Delist(p) ==
  /\ mqGot' = [mqGot EXCEPT ![p] = msg[mqh_head]]
  /\ mqh_head' = msg_next[mqh_head]
  /\ msg_next' = [msg_next EXCEPT ![mqh_head] = mqh_free]
  /\ MqFreed
  /\ mq_curmsgs' = mq_curmsgs - 1
  /\ MqMoves(p, mq_curmsgs = MQ_MAXMSG)
  /\ UNCHANGED msg

MqReceive(p) ==
  /\ mqPc[p] = "idle"
  /\ \/ /\ mq_curmsgs > 0
        /\ Delist(p)
        /\ UNCHANGED mqh_nwait
     \/ /\ mq_curmsgs = 0 /\ p \notin mqi_flags
        /\ mqh_nwait' = mqh_nwait + 1
        /\ MqSleep(p, "recvwait")
        /\ UNCHANGED <<mqFile, mqGot>>
  /\ UNCHANGED <<mqh_pid, mqi_flags, mqArg, mqSent>>

MqLeaves == mqh_nwait' = mqh_nwait - 1

MqReceiveAgain(p) ==
  /\ mqPc[p] = "recvwoken"
  /\ \/ /\ mq_curmsgs > 0
        /\ MqLeaves
        /\ Delist(p)
     \/ /\ mq_curmsgs = 0
        /\ MqSleep(p, "recvwait")
        /\ UNCHANGED <<mqFile, mqh_nwait, mqGot>>
  /\ UNCHANGED <<mqh_pid, mqi_flags, mqArg, mqSent>>

--------------------------------------------------------------------------------

MqRest == UNCHANGED <<mqFile, mqh_nwait, mqArg, mqGot, mqSent, mqCrowd>>

\* mq_notify: register, also in place of a process that is gone (kill says ESRCH), or
\* unregister, as mq_close does.
MqNotify(p) ==
  /\ p \in MqListener /\ mqPc[p] = "idle"
  /\ \/ mqh_pid \subseteq MqIn(mqPc, {"dead"}) /\ mqh_pid' = {p}
     \/ mqh_pid = {p} /\ mqh_pid' = {}
  /\ UNCHANGED <<mqPc, mqi_flags>>
  /\ MqRest

\* mq_setattr changes O_NONBLOCK of the caller's descriptor.
MqSetattr(p) ==
  /\ p \in MqListener /\ mqPc[p] = "idle"
  /\ \/ mqi_flags' = mqi_flags \union {p}
     \/ mqi_flags' = mqi_flags \ {p}
  /\ UNCHANGED <<mqPc, mqh_pid>>
  /\ MqRest

MqSpuriousWakeup(p) ==
  /\ \/ mqPc[p] = "sendwait" /\ mqPc' = [mqPc EXCEPT ![p] = "sendwoken"]
     \/ mqPc[p] = "recvwait" /\ mqPc' = [mqPc EXCEPT ![p] = "recvwoken"]
  /\ UNCHANGED <<mqi_flags, mqh_pid>>
  /\ MqRest

\* A process is killed; it is not holding mqh_lock at the time.
MqDie(p) ==
  /\ p \in MqListener /\ mqPc[p] # "dead" /\ Cardinality(MqIn(mqPc, {"dead"})) < MaxMqDeaths
  /\ mqPc' = [mqPc EXCEPT ![p] = "dead"]
  /\ UNCHANGED <<mqi_flags, mqh_pid>>
  /\ MqRest

MqReturns(p) == MqSendAgain(p) \/ MqReceiveAgain(p)

MqNext ==
  \E p \in MqProc :
    \/ MqSend(p) \/ MqReceive(p) \/ MqReturns(p)
    \/ MqNotify(p) \/ MqSetattr(p) \/ MqSpuriousWakeup(p) \/ MqDie(p)

MqSpec == MqInit /\ [][MqNext]_mqVars

--------------------------------------------------------------------------------
(* Properties                                                                 *)

\* The types of the header, the slots and the processes of the message queue.
MqTypeOK ==
  /\ mq_curmsgs \in MqIndex /\ mqh_head \in MqIndex /\ mqh_free \in MqIndex
  /\ mqh_nwait \in 0 .. Cardinality(MqProc)
  /\ mqh_pid \subseteq MqProc /\ Cardinality(mqh_pid) <= 1
  /\ msg_next \in [MqSlot -> MqIndex] /\ msg \in [MqSlot -> MqMessage \union {<<>>}]
  /\ mqPc \in [MqProc -> {"idle", "dead"} \union MqAsleep \union MqWoken]

\* Every slot is on exactly one of the two lists, and mq_curmsgs is the length of the list of
\* messages: mq_send and mq_receive never come to their err_dump.
MqSlotsKept ==
  /\ MqList(mqh_head) \union MqList(mqh_free) = MqSlot
  /\ MqList(mqh_head) \intersect MqList(mqh_free) = {}
  /\ Cardinality(MqList(mqh_head)) = mq_curmsgs

\* A receiver in pthread_cond_wait is counted in mqh_nwait; one that was killed there stays.
MqWaitersCounted ==
  LET waiting == Cardinality(MqIn(mqPc, {"recvwait", "recvwoken"}))
  IN  /\ mqh_nwait >= waiting
      /\ MqIn(mqPc, {"dead"}) = {} => mqh_nwait = waiting

\* While no two threads have slept at once and none was killed, nobody sleeps on a condition
\* that holds with no wakeup on its way.
MqNoLostWakeup ==
  ~mqCrowd /\ MqIn(mqPc, MqWoken \union {"dead"}) = {} =>
    /\ mq_curmsgs > 0 => MqIn(mqPc, {"recvwait"}) = {}
    /\ mq_curmsgs < MQ_MAXMSG => MqIn(mqPc, {"sendwait"}) = {}

\* The lists in the file implement a priority queue.
MqQueue ==
  [i \in 1 .. mq_curmsgs |-> msg[MqWalk(mqh_head)[i - 1]]]
MqAbstract == INSTANCE PrioQueue WITH
  Proc <- MqProc, Message <- MqMessage, MaxMsg <- MQ_MAXMSG, queue <- MqQueue, got <- mqGot

\* What keeps mq_send and mq_receive from err_dump and their callers from sleeping over a message:
\* the slots, the count of waiting receivers and the wakeups.
MqSafe == MqTypeOK /\ MqSlotsKept /\ MqWaitersCounted /\ MqNoLostWakeup
================================================================================
