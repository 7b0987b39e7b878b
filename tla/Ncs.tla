---------------------------------- MODULE Ncs ----------------------------------
(******************************************************************************)
(* What the HA controller uses of NCS, on the two hosts of an HA pair.  NCS   *)
(* is not part of the repository: this module is EXTERNAL.  It is modelled    *)
(* from the calls the controller makes (com.tailf.ha.Ha: beMaster, beNone,    *)
(* beSlave, status; com.tailf.cdb.Cdb.getTxId; the HA_INFO notifications) and *)
(* from what doc/report.txt says of them: only the master takes writes, every *)
(* write is replicated to the connected slave, a node that becomes slave gets *)
(* the master's database, and NCS never changes a role by itself except that  *)
(* a slave without master is in state NONE.                                   *)
(*                                                                            *)
(* A replication session exists exactly while some node is SLAVE.             *)
(******************************************************************************)
EXTENDS Integers, Sequences

CONSTANTS NodeA, NodeB,   \* the two ha-node entries of the configuration
          MaxCommits      \* bound: transactions issued in a behaviour

ASSUME NodesDiffer == NodeA # NodeB
ASSUME MaxCommitsNat == MaxCommits \in Nat

Node == {NodeA, NodeB}

\* the other node of the pair
Peer(n) == IF n = NodeA THEN NodeB ELSE NodeA

HaState == {"NONE", "MASTER", "SLAVE"}

\* The HA_INFO notifications on which haEvent acts.  SLAVE_ARRIVED, IS_MASTER
\* and IS_NONE are only logged and are left out.
HaInfo == {"NOMASTER", "SLAVE_DIED", "SLAVE_INITIALIZED"}

VARIABLES
  ha,         \* [Node -> HaState]: Ha.status() of each node
  cdb,        \* [Node -> SUBSET Nat]: the transactions in each database
  txid,       \* [Node -> Nat]: Cdb.getTxId(), 0 for the empty database
  issued,     \* the number of transactions ever committed; transaction i is i
  link,       \* BOOLEAN: the hosts can talk to each other
  notif,      \* [Node -> Seq(HaInfo)]: notifications not read yet
  subscribed  \* [Node -> BOOLEAN]: the notification socket is open

ncsVars == <<ha, cdb, txid, issued, link, notif, subscribed>>

NcsInit ==
  /\ ha = [n \in Node |-> "NONE"]
  /\ cdb = [n \in Node |-> {}]
  /\ txid = [n \in Node |-> 0]
  /\ issued = 0
  /\ link = TRUE
  /\ notif = [n \in Node |-> <<>>]
  /\ subscribed = [n \in Node |-> FALSE]

NcsTypeOK ==
  /\ ha \in [Node -> HaState]
  /\ cdb \in [Node -> SUBSET (1..issued)]
  /\ txid \in [Node -> 0..issued]
  /\ issued \in 0..MaxCommits
  /\ link \in BOOLEAN
  /\ notif \in [Node -> Seq(HaInfo)]
  /\ subscribed \in [Node -> BOOLEAN]

\* the notification queues after NCS tells node n of e
Tell(n, e) ==
  IF subscribed[n] THEN [notif EXCEPT ![n] = Append(@, e)] ELSE notif

\* Ha.beMaster: a slave that is promoted leaves its master.
HaBeMaster(n) ==
  /\ ha' = [ha EXCEPT ![n] = "MASTER"]
  /\ notif' = IF ha[n] = "SLAVE" THEN Tell(Peer(n), "SLAVE_DIED") ELSE notif
  /\ UNCHANGED <<cdb, txid, issued, link, subscribed>>

\* The roles, and the queues, after node n has left the HA group (beNone, or
\* its host is gone): its slave is without master, or its master without slave.
RolesWithout(n) == [m \in Node |-> IF m = n \/ ha[m] = "SLAVE" THEN "NONE" ELSE ha[m]]

NotifWithout(n) ==
  IF ha[n] = "SLAVE" THEN Tell(Peer(n), "SLAVE_DIED")
  ELSE IF ha[Peer(n)] = "SLAVE" THEN Tell(Peer(n), "NOMASTER")
  ELSE notif

\* Ha.beNone
HaBeNone(n) ==
  /\ ha' = RolesWithout(n)
  /\ notif' = NotifWithout(n)
  /\ UNCHANGED <<cdb, txid, issued, link, subscribed>>

\* Ha.beSlave(..., wait = true) finds a master to connect to ...
MasterAnswers(n) == link /\ ha[Peer(n)] = "MASTER"

\* ... and takes over its database.  What only n had is gone.
HaBeSlave(n) ==
  /\ MasterAnswers(n)
  /\ ha' = [ha EXCEPT ![n] = "SLAVE"]
  /\ cdb' = [cdb EXCEPT ![n] = cdb[Peer(n)]]
  /\ txid' = [txid EXCEPT ![n] = txid[Peer(n)]]
  /\ notif' = Tell(n, "SLAVE_INITIALIZED")
  /\ UNCHANGED <<issued, link, subscribed>>

\* A client commits a transaction on the master n; NCS replicates it.
Commit(n) ==
  /\ issued < MaxCommits
  /\ ha[n] = "MASTER"
  /\ issued' = issued + 1
  /\ cdb' = [m \in Node |-> IF m = n \/ ha[m] = "SLAVE" THEN cdb[m] \union {issued + 1}
                                                         ELSE cdb[m]]
  /\ txid' = [m \in Node |-> IF m = n \/ ha[m] = "SLAVE" THEN issued + 1 ELSE txid[m]]
  /\ UNCHANGED <<ha, link, notif, subscribed>>

\* The network between the hosts breaks: both ends of a session are told.
DropLink ==
  /\ link
  /\ link' = FALSE
  /\ ha' = [n \in Node |-> IF ha[n] = "SLAVE" THEN "NONE" ELSE ha[n]]
  /\ notif' = [n \in Node |->
                 IF ~subscribed[n] THEN notif[n]
                 ELSE IF ha[n] = "SLAVE" THEN Append(notif[n], "NOMASTER")
                 ELSE IF ha[Peer(n)] = "SLAVE" THEN Append(notif[n], "SLAVE_DIED")
                 ELSE notif[n]]
  /\ UNCHANGED <<cdb, txid, issued, subscribed>>

RestoreLink ==
  /\ ~link
  /\ link' = TRUE
  /\ UNCHANGED <<ha, cdb, txid, issued, notif, subscribed>>
================================================================================
