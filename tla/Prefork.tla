---------------------------------- MODULE Prefork -------------------------------
(******************************************************************************)
(* unpv13e/server/serv05.c and child05.c: a server that forks its children    *)
(* first; the parent accepts every connection and passes its descriptor to a  *)
(* free child over a stream pipe, and the child writes a byte back when it is *)
(* free again.  External: the clients, who connect and may abort before       *)
(* accept, and the death of a child.                                          *)
(******************************************************************************)
EXTENDS Integers, Sequences, FiniteSets

CONSTANTS
  nchildren,
  PfConns,      \* bound: connections
  PfDeaths      \* bound: deaths of children

ASSUME PfAssumption == nchildren \in Nat \ {0} /\ PfConns \in Nat /\ PfDeaths \in Nat

VARIABLES
  child_status,     \* the parent's view of each child: 0 available, 1 busy
  navail,
  pfParent,         \* "select", "accept", "collect", "quit"
  pfRset,           \* what select has found ready: children, and 0 for the listening socket
  pfListen,         \* connections that wait for accept
  pfToChild,        \* descriptors in each child's pipe
  pfToParent,       \* bytes in each child's pipe to the parent
  pfChild,          \* what each child does: 0 reads the pipe, a connection, or -1 (dead)
  pfNext,           \* the number of the next connection
  pfDone,           \* connections served
  pfLost,           \* connections aborted, or lost with a child
  pfDied

pfPipes == <<pfToChild, pfToParent>>
pfVars == <<child_status, navail, pfParent, pfRset, pfListen, pfPipes, pfChild, pfNext, pfDone, pfLost, pfDied>>

Child == 1 .. nchildren

PfInit ==
  /\ child_status = [c \in Child |-> 0] /\ navail = nchildren
  /\ pfParent = "select" /\ pfRset = {} /\ pfListen = <<>>
  /\ pfToChild = [c \in Child |-> <<>>] /\ pfToParent = [c \in Child |-> 0]
  /\ pfChild = [c \in Child |-> 0]
  /\ pfNext = 1 /\ pfDone = {} /\ pfLost = {} /\ pfDied = 0

\* select, with the listening socket turned off if there are no available children.
PfSelect ==
  /\ pfParent = "select"
  /\ LET ready == {c \in Child : pfToParent[c] > 0 \/ pfChild[c] = -1}
                    \cup (IF pfListen # <<>> /\ navail > 0 THEN {0} ELSE {})
     IN  /\ ready # {}
         /\ pfRset' = ready
         /\ pfParent' = IF 0 \in ready THEN "accept" ELSE "collect"
  /\ UNCHANGED <<child_status, navail, pfListen, pfPipes, pfChild, pfNext, pfDone, pfLost, pfDied>>

\* accept (which blocks when the connection is gone), and the descriptor goes to the first child
\* marked available; to a dead one the parent cannot write, and dies.
PfAccept ==
  /\ pfParent = "accept" /\ pfListen # <<>>
  /\ \E i \in Child :
       /\ child_status[i] = 0 /\ \A j \in 1 .. i - 1 : child_status[j] # 0
       /\ child_status' = [child_status EXCEPT ![i] = 1]
       /\ IF pfChild[i] = -1
          THEN /\ pfParent' = "quit" /\ pfLost' = pfLost \cup {Head(pfListen)} /\ UNCHANGED pfToChild
          ELSE /\ pfToChild' = [pfToChild EXCEPT ![i] = Append(@, Head(pfListen))]
               /\ pfParent' = (IF pfRset = {0} THEN "select" ELSE "collect") /\ UNCHANGED pfLost
  /\ navail' = navail - 1 /\ pfListen' = Tail(pfListen)
  /\ pfRset' = pfRset \ {0}
  /\ UNCHANGED <<pfToParent, pfChild, pfNext, pfDone, pfDied>>

PfBack(back) == Cardinality(back)

PfPeeked(back) == UNCHANGED pfToParent        \* mutant: the bytes stay in the pipes
PfDrained(back) == pfToParent' = [c \in Child |-> IF c \in back THEN pfToParent[c] - 1 ELSE pfToParent[c]]

\* The children found ready are marked available, in order; a pipe at its end ends the server.
PfCollect ==
  /\ pfParent = "collect"
  /\ LET ended == {c \in pfRset : pfToParent[c] = 0}
         back == {c \in pfRset : \A e \in ended : c < e}
     IN  /\ child_status' = [c \in Child |-> IF c \in back THEN 0 ELSE child_status[c]]
         /\ PfDrained(back)
         /\ navail' = navail + PfBack(back)
         /\ pfParent' = IF ended = {} THEN "select" ELSE "quit"
  /\ pfRset' = {}
  /\ UNCHANGED <<pfListen, pfToChild, pfChild, pfNext, pfDone, pfLost, pfDied>>

\* child_main: a descriptor is read; the request is processed and the parent told.
PfReadFd(c) ==
  /\ pfChild[c] = 0 /\ pfToChild[c] # <<>>
  /\ pfChild' = [pfChild EXCEPT ![c] = Head(pfToChild[c])]
  /\ pfToChild' = [pfToChild EXCEPT ![c] = Tail(@)]
  /\ UNCHANGED <<child_status, navail, pfParent, pfRset, pfListen, pfToParent, pfNext, pfDone, pfLost, pfDied>>

PfTellNot(c) == UNCHANGED pfToParent                                    \* mutant: none
PfTell(c) == pfToParent' = [pfToParent EXCEPT ![c] = @ + 1]

PfServe(c) ==
  /\ pfChild[c] > 0
  /\ pfDone' = pfDone \cup {pfChild[c]}
  /\ pfChild' = [pfChild EXCEPT ![c] = 0] /\ PfTell(c)
  /\ UNCHANGED <<child_status, navail, pfParent, pfRset, pfListen, pfToChild, pfNext, pfLost, pfDied>>

\* External.
PfConnect ==
  /\ pfNext <= PfConns /\ pfNext' = pfNext + 1
  /\ pfListen' = Append(pfListen, pfNext)
  /\ UNCHANGED <<child_status, navail, pfParent, pfRset, pfPipes, pfChild, pfDone, pfLost, pfDied>>

PfAbort ==
  /\ pfListen # <<>>
  /\ pfLost' = pfLost \cup {Head(pfListen)} /\ pfListen' = Tail(pfListen)
  /\ UNCHANGED <<child_status, navail, pfParent, pfRset, pfPipes, pfChild, pfNext, pfDone, pfDied>>

PfDie(c) ==
  /\ pfDied < PfDeaths /\ pfChild[c] # -1 /\ pfDied' = pfDied + 1
  /\ pfLost' = pfLost \cup ({pfChild[c]} \ {0}) \cup {pfToChild[c][n] : n \in DOMAIN pfToChild[c]}
  /\ pfChild' = [pfChild EXCEPT ![c] = -1] /\ pfToChild' = [pfToChild EXCEPT ![c] = <<>>]
  /\ UNCHANGED <<child_status, navail, pfParent, pfRset, pfListen, pfToParent, pfNext, pfDone>>

PfParent == PfSelect \/ PfAccept \/ PfCollect

PfNext ==
  \/ PfParent \/ PfConnect \/ PfAbort
  \/ \E c \in Child : PfReadFd(c) \/ PfServe(c) \/ PfDie(c)

PfSpec == PfInit /\ [][PfNext]_pfVars
PfFairness == WF_pfVars(PfParent) /\ \A c \in Child : WF_pfVars(PfReadFd(c) \/ PfServe(c))

--------------------------------------------------------------------------------
(* Properties                                                                 *)

\* Each variable has its type; a pipe never holds more than one descriptor or one byte.
PfTypeOK ==
  /\ child_status \in [Child -> 0 .. 1] /\ navail \in 0 .. nchildren
  /\ pfParent \in {"select", "accept", "collect", "quit"} /\ pfRset \subseteq Child \cup {0}
  /\ \A c \in Child : Len(pfToChild[c]) <= 1 /\ pfToParent[c] \in 0 .. 1 /\ pfChild[c] \in -1 .. PfConns

\* navail counts the children marked available: the parent accepts a connection only when there is a
\* child for it, and never quits with "no available children".
PfChildAvailable ==
  /\ navail = Cardinality({c \in Child : child_status[c] = 0})
  /\ pfParent = "accept" => navail > 0

\* A child marked available is: it has no connection, none on the way and no byte on the way back.
PfAvailableIsIdle ==
  \A c \in Child : child_status[c] = 0 => pfChild[c] \in {0, -1} /\ pfToChild[c] = <<>> /\ pfToParent[c] = 0

\* Every connection is in one place: it waits, is on its way to one child, is served by one, or is over.
PfOnePlace ==
  \A n \in 1 .. pfNext - 1 :
    Cardinality({c \in Child : pfChild[c] = n}) + Cardinality({c \in Child : pfToChild[c] = <<n>>})
      + Cardinality({i \in DOMAIN pfListen : pfListen[i] = n})
      + (IF n \in pfDone THEN 1 ELSE 0) + (IF n \in pfLost THEN 1 ELSE 0) = 1

\* Every connection is served or aborted, unless a child dies, which ends the server.
PfAllServed == \A n \in 1 .. PfConns : pfNext > n ~> n \in pfDone \cup pfLost \/ pfDied > 0

\* The parent's books agree with what is on the pipes and in the children.
PfSafe == PfTypeOK /\ PfChildAvailable /\ PfAvailableIsIdle /\ PfOnePlace
====
