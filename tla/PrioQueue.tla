------------------------------- MODULE PrioQueue -------------------------------
(******************************************************************************)
(* What a POSIX message queue promises: messages leave in order of priority   *)
(* and, within a priority, in the order in which they were sent.              *)
(******************************************************************************)
EXTENDS Naturals, Sequences

CONSTANTS Proc, Message, MaxMsg

VARIABLES queue, got   \* the messages in the queue; [Proc -> the one a process received last]

Init == queue = <<>> /\ got = [p \in Proc |-> <<>>]

\* m goes behind the messages that have at least its priority.
Put(m) ==
  /\ Len(queue) < MaxMsg
  /\ \E k \in 0 .. Len(queue) :
       /\ \A i \in 1 .. k : queue[i].prio >= m.prio
       /\ \A i \in k + 1 .. Len(queue) : queue[i].prio < m.prio
       /\ queue' = [i \in 1 .. Len(queue) + 1 |->
                      IF i <= k THEN queue[i] ELSE IF i = k + 1 THEN m ELSE queue[i - 1]]
  /\ UNCHANGED got

Take(p) ==
  /\ queue # <<>>
  /\ got' = [got EXCEPT ![p] = Head(queue)]
  /\ queue' = Tail(queue)

Next == (\E m \in Message : Put(m)) \/ (\E p \in Proc : Take(p))

Spec == Init /\ [][Next]_<<queue, got>>
================================================================================
