------------------------------- MODULE ProxyQueue -------------------------------
(******************************************************************************)
(* What the proxy promises of the connections it accepts: each is handed out  *)
(* once, in the order of arrival, and served before the same client is        *)
(* accepted again.                                                            *)
(******************************************************************************)
EXTENDS Integers, Sequences

CONSTANT Client
VARIABLES waiting,  \* Seq(Client): accepted, not handed out
          serving   \* SUBSET Client: handed to a worker

Arrived(c) == c \in serving \/ \E k \in 1 .. Len(waiting) : waiting[k] = c

Init == waiting = <<>> /\ serving = {}

Arrive(c) ==
  /\ ~Arrived(c)
  /\ waiting' = Append(waiting, c)
  /\ UNCHANGED serving

HandOut ==
  /\ waiting # <<>>
  /\ serving' = serving \union {Head(waiting)}
  /\ waiting' = Tail(waiting)

Finish(c) ==
  /\ c \in serving
  /\ serving' = serving \ {c}
  /\ UNCHANGED waiting

Next == HandOut \/ \E c \in Client : Arrive(c) \/ Finish(c)

Spec == Init /\ [][Next]_<<waiting, serving>>
================================================================================
