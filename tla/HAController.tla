------------------------------ MODULE HAController ------------------------------
(******************************************************************************)
(* The HA controller (work/packages/controller, com.tailf.controller): on     *)
(* each of the two hosts the thread of HAControllerAppCmp (init, then the     *)
(* notification loop), the pool of reconnector threads, the acceptor and its  *)
(* request handlers, and the local node with its saved transaction id.        *)
(*                                                                            *)
(* A thread is modelled by the steps it still has to take: todo[n][t] is the  *)
(* sequence of them, the head is next.  A step is one call that reads or      *)
(* writes state another thread can see: a call on NCS, one request to the     *)
(* other controller, the write of the txid file, a call on the VIP manager.   *)
(* A method body is then the sequence of the steps it makes.                  *)
(******************************************************************************)
EXTENDS Ncs

CONSTANTS
  PreferredMasters,  \* the ha-node entries with the preferred-master leaf
  MaxReconnectors,   \* bound: reconnector threads alive at a time on a node
  MaxCrashes,        \* bound: host crashes
  MaxDrops,          \* bound: losses of the network
  MaxStops,          \* bound: calls of finish()
  MaxTimeouts,       \* bound: answers later than the 5 s SoTimeout
  Anytime            \* the events of the environment that also happen while
                     \* the controllers are deciding: see Event

ASSUME Preferred == PreferredMasters \subseteq Node
ASSUME BoundsNat == /\ MaxReconnectors \in Nat /\ MaxCrashes \in Nat
                    /\ MaxDrops \in Nat /\ MaxStops \in Nat /\ MaxTimeouts \in Nat

\* The events of the environment: a client commits, a controller is started or
\* stopped, a host crashes, the network breaks or comes back.
Event == {"commit", "start", "stop", "crash", "link"}
ASSUME AnytimeEvents == Anytime \subseteq Event

App == 0                              \* the thread of HAControllerAppCmp
Reconnector == 1..MaxReconnectors     \* the pool of HAControllerReConnector
Thread == {App} \union Reconnector

\* eventTxId when no transaction id was ever saved (Java null)
NoTxId == -1

VARIABLES
  app,        \* [Node -> {"off", "on", "dead"}]: the application component
  listening,  \* [Node -> BOOLEAN]: the acceptor's server socket is bound
  eventTxId,  \* [Node -> Int]: HALocalNode.eventTxId
  disk,       \* [Node -> Int]: the file "txid" + name, NoTxId if unreadable
  vips,       \* [Node -> BOOLEAN]: the VIP manager holds the VIPs up
  todo,       \* [Node -> [Thread -> Seq(Step)]]: what each thread has left to do
  round,      \* [Node -> [Thread -> 0..4]]: which condition on txDiff is evaluated:
              \* 0 in initialDetermination, 1..4 in reConciliation
  seen,       \* [Node -> [Thread -> Int]]: the remote eventTxId a thread has read
  request,    \* [Node -> [Thread -> RequestState]]: the "slave" request that
              \* the peer's thread t has sent to node n
  crashes, drops, stops, timeouts   \* counters for the bounds

service == <<app, listening>>
saved == <<eventTxId, disk>>
locals == <<round, seen>>
faults == <<crashes, drops, stops>>
bounds == <<faults, timeouts>>
ctlVars == <<service, saved, vips, todo, locals, request>>
vars == <<ncsVars, ctlVars, bounds>>

Step == {"initialDetermination", "determinationByTxId", "reconnect",
         "localTxDiff", "remoteEventTxId", "remoteTxId",
         "remoteHaStatus", "localHaStatus",
         "haMaster", "haNone", "haSlave", "vipsUp", "vipsDown",
         "getTxId", "writeTxId", "execute",
         "callMaster", "callSlave", "awaitSlave"}

\* idle: none pending; received: the handler has read it; enslaved: NCS is
\* slave, the VIPs are next; answered: the reply is on its way
RequestState == {"idle", "received", "enslaved", "answered"}

TypeOK ==
  /\ NcsTypeOK
  /\ app \in [Node -> {"off", "on", "dead"}]
  /\ listening \in [Node -> BOOLEAN]
  /\ eventTxId \in [Node -> {NoTxId} \union 0..issued]
  /\ disk \in [Node -> {NoTxId} \union 0..issued]
  /\ vips \in [Node -> BOOLEAN]
  /\ todo \in [Node -> [Thread -> Seq(Step)]]
  /\ round \in [Node -> [Thread -> 0..4]]
  /\ seen \in [Node -> [Thread -> {NoTxId} \union 0..issued]]
  /\ request \in [Node -> [Thread -> RequestState]]
  /\ crashes \in 0..MaxCrashes /\ drops \in 0..MaxDrops /\ stops \in 0..MaxStops
  /\ timeouts \in 0..MaxTimeouts

Init ==
  /\ NcsInit
  /\ app = [n \in Node |-> "off"]
  /\ listening = [n \in Node |-> FALSE]
  /\ eventTxId = [n \in Node |-> NoTxId]
  /\ disk = [n \in Node |-> NoTxId]
  /\ vips = [n \in Node |-> FALSE]
  /\ todo = [n \in Node |-> [t \in Thread |-> <<>>]]
  /\ round = [n \in Node |-> [t \in Thread |-> 0]]
  /\ seen = [n \in Node |-> [t \in Thread |-> NoTxId]]
  /\ request = [n \in Node |-> [t \in Thread |-> "idle"]]
  /\ crashes = 0 /\ drops = 0 /\ stops = 0 /\ timeouts = 0

--------------------------------------------------------------------------------
(* The bodies of the methods, as the steps they make.                         *)

beMaster == <<"haMaster", "vipsUp">>        \* HALocalNode.beMaster
beNone == <<"haNone", "vipsDown">>          \* HALocalNode.beNone
beSlave == <<"haSlave", "vipsDown">>        \* HALocalNode.beSlave
saveTxIdStale == <<"writeTxId", "getTxId">> \* mutant: the file before the field
saveTxId == <<"getTxId", "writeTxId">>      \* HALocalNode.saveTxId
remoteBeMaster == <<"callMaster">>               \* HARemoteNode.beMaster
remoteBeSlave == <<"callSlave", "awaitSlave">>   \* HARemoteNode.beSlave

\* mutant: the id is not saved
haNodeDownUnsaved(n) == IF n \in PreferredMasters THEN <<"execute">> ELSE <<>>

\* saveTxId, and the preferred master starts a reconnector
haNodeDown(n) == IF n \in PreferredMasters THEN saveTxId \o <<"execute">> ELSE saveTxId
masterDownPassive(n) == haNodeDown(n)      \* mutant: no promotion
masterDown(n) == haNodeDown(n) \o beMaster
slaveDown(n) == haNodeDown(n)

\* mutant: case 4 orders nobody to be slave
reConciliationCaseLoose(n, k) ==
  CASE k = 1 -> <<>>
    [] k = 2 -> beMaster \o remoteBeSlave
    [] k = 3 -> remoteBeMaster \o beNone \o beSlave
    [] k = 4 -> IF n \in PreferredMasters THEN beMaster ELSE remoteBeMaster

\* What the four branches of reConciliation do.
reConciliationCase(n, k) ==
  CASE k = 1 -> <<>>
    [] k = 2 -> beMaster \o remoteBeSlave
    [] k = 3 -> remoteBeMaster \o beNone \o beSlave
    [] k = 4 -> IF n \in PreferredMasters THEN beMaster \o remoteBeSlave
                                          ELSE remoteBeMaster \o beSlave

\* The conditions of the branches: does the local, the remote node have a diff?
LocalDiffIn(k) == k \in {1, 2}
RemoteDiffIn(k) == k \in {1, 3}

\* HALocalNode.txDiff: something was committed here since the id was saved.
txDiff(n) == eventTxId[n] # NoTxId /\ eventTxId[n] # txid[n]

--------------------------------------------------------------------------------
(* Threads.                                                                   *)

At(n, t, step) == todo[n][t] # <<>> /\ Head(todo[n][t]) = step

Do(n, t, steps) == todo' = [todo EXCEPT ![n][t] = steps] /\ UNCHANGED locals
Proceed(n, t) == Do(n, t, Tail(todo[n][t]))

\* Thread t turns to the condition of round k ...
Evaluate(n, t, k) ==
  /\ todo' = [todo EXCEPT ![n][t] = <<"localTxDiff">>]
  /\ round' = [round EXCEPT ![n][t] = k]
  /\ seen' = [seen EXCEPT ![n][t] = NoTxId]

\* ... and leaves the conditions, with steps to do.
Leave(n, t, steps) ==
  /\ todo' = [todo EXCEPT ![n][t] = steps]
  /\ round' = [round EXCEPT ![n][t] = 0]
  /\ seen' = [seen EXCEPT ![n][t] = NoTxId]

\* else if ... : when no condition of reConciliation holds it does nothing
NextRound(n, t) ==
  IF round[n][t] < 4 THEN Evaluate(n, t, round[n][t] + 1) ELSE Leave(n, t, <<>>)

\* An exception: it ends init or the notification loop for good, and nobody
\* reads the notification socket any more; the loop of a reconnector catches it
\* and tries again.
Throw(n, t) ==
  /\ Leave(n, t, IF t = App THEN <<>> ELSE <<"reconnect">>)
  /\ app' = IF t = App /\ app[n] = "on" THEN [app EXCEPT ![n] = "dead"] ELSE app
  /\ subscribed' = IF t = App THEN [subscribed EXCEPT ![n] = FALSE] ELSE subscribed
  /\ notif' = IF t = App THEN [notif EXCEPT ![n] = <<>>] ELSE notif
  /\ UNCHANGED <<ha, cdb, txid, issued, link, listening>>

\* The acceptor of the peer takes requests.
PeerListens(n) == link /\ listening[Peer(n)]

\* An answer comes later than the 5 s SoTimeout.
TimesOut == timeouts < MaxTimeouts /\ timeouts' = timeouts + 1

\* A request to the other controller is answered, or ends in an exception.
Answers(n) == PeerListens(n) /\ UNCHANGED timeouts
Fails(n) == \/ ~PeerListens(n) /\ UNCHANGED timeouts
            \/ PeerListens(n) /\ TimesOut

\* Threads of n are gone: nobody handles requests there, or waits for an answer.
RequestsWithout(n) ==
  [m \in Node |-> [t \in Thread |-> IF m = n \/ request[m][t] = "answered" THEN "idle"
                                    ELSE request[m][t]]]

\* No controller has anything left to do but to wait for the network.
Settled ==
  \A n \in Node :
    /\ notif[n] = <<>>
    /\ app[n] # "off" => listening[n]
    /\ \A t \in Thread : todo[n][t] \in {<<>>, <<"reconnect">>} /\ request[n][t] = "idle"

Possible(event) == event \in Anytime \/ Settled

--------------------------------------------------------------------------------
(* Initial determination.                                                     *)

\* A JVM starts (a former one has ended): HALocalNode reads the saved id, init()
\* opens the notification socket and calls initialDetermination.
start(n) ==
  /\ Possible("start")
  /\ app[n] = "off" /\ todo[n][App] = <<>>
  /\ app' = [app EXCEPT ![n] = "on"]
  /\ eventTxId' = [eventTxId EXCEPT ![n] = disk[n]]
  /\ subscribed' = [subscribed EXCEPT ![n] = TRUE]
  /\ todo' = [todo EXCEPT ![n] = [t \in Thread |-> IF t = App THEN <<"initialDetermination">>
                                                              ELSE <<>>]]
  /\ round' = [round EXCEPT ![n] = [t \in Thread |-> 0]]
  /\ seen' = [seen EXCEPT ![n] = [t \in Thread |-> NoTxId]]
  /\ request' = RequestsWithout(n)
  /\ UNCHANGED <<ha, cdb, txid, issued, link, notif, listening, disk, vips, bounds>>

\* The acceptor thread binds its socket, some time after the constructor.
acceptHARemoteConnections(n) ==
  /\ app[n] # "off"
  /\ ~listening[n]
  /\ listening' = [listening EXCEPT ![n] = TRUE]
  /\ UNCHANGED <<ncsVars, app, saved, vips, todo, locals, request, bounds>>

\* mutant: a node that finds itself alone does not save its id
initialDeterminationUnsaved(n) ==
  /\ At(n, App, "initialDetermination")
  /\ \/ Answers(n) /\ Evaluate(n, App, 0)
     \/ Fails(n) /\ Do(n, App, beMaster)
  /\ UNCHANGED <<ncsVars, service, saved, vips, request, faults>>

initialDetermination(n) ==
  /\ At(n, App, "initialDetermination")
  /\ \/ Answers(n) /\ Evaluate(n, App, 0)
     \/ Fails(n) /\ Do(n, App, saveTxId \o beMaster)
  /\ UNCHANGED <<ncsVars, service, saved, vips, request, faults>>

determinationByTxId(n) ==
  /\ At(n, App, "determinationByTxId")
  /\ \/ Answers(n) /\ Evaluate(n, App, 1)
     \/ Fails(n) /\ Do(n, App, beMaster)
  /\ UNCHANGED <<ncsVars, service, saved, vips, request, faults>>

\* No difference on either node: what is the remote node?  A node that is not
\* preferred sleeps and starts over while the remote is in state NONE.
remoteHaStatus(n) ==
  /\ At(n, App, "remoteHaStatus")
  /\ \/ /\ Answers(n)
        /\ Do(n, App, CASE ha[Peer(n)] = "NONE" -> IF n \in PreferredMasters THEN beMaster
                                                   ELSE <<"initialDetermination">>
                        [] ha[Peer(n)] = "MASTER" -> <<"localHaStatus">>
                        [] ha[Peer(n)] = "SLAVE" -> <<>>)
        /\ UNCHANGED <<ncsVars, service>>
     \/ Fails(n) /\ Throw(n, App)
  /\ UNCHANGED <<saved, vips, request, faults>>

localHaStatus(n) ==
  /\ At(n, App, "localHaStatus")
  /\ Do(n, App, CASE ha[n] = "MASTER" -> beNone \o beSlave
                  [] ha[n] = "NONE" -> beSlave
                  [] ha[n] = "SLAVE" -> <<>>)
  /\ UNCHANGED <<ncsVars, service, saved, vips, request, bounds>>

--------------------------------------------------------------------------------
(* Comparing transaction ids: the condition of round k, one operand at a time. *)

localTxDiff(n, t) ==
  /\ At(n, t, "localTxDiff")
  /\ IF round[n][t] = 0
     THEN Do(n, t, IF txDiff(n) THEN <<"determinationByTxId">> ELSE <<"remoteEventTxId">>)
     ELSE IF txDiff(n) = LocalDiffIn(round[n][t]) THEN Do(n, t, <<"remoteEventTxId">>)
     ELSE NextRound(n, t)
  /\ UNCHANGED <<ncsVars, service, saved, vips, request, bounds>>

\* HARemoteNode.txDiff came out as diff.
RemoteTxDiffIs(n, t, diff) ==
  IF round[n][t] = 0
  THEN Leave(n, t, IF diff THEN <<"determinationByTxId">> ELSE <<"remoteHaStatus">>)
  ELSE IF diff = RemoteDiffIn(round[n][t]) THEN Leave(n, t, reConciliationCase(n, round[n][t]))
  ELSE NextRound(n, t)

\* HARemoteNode.txDiff makes two requests: the saved id first ...
remoteEventTxId(n, t) ==
  /\ At(n, t, "remoteEventTxId")
  /\ \/ /\ Answers(n)
        /\ IF eventTxId[Peer(n)] = NoTxId
           THEN RemoteTxDiffIs(n, t, FALSE)
           ELSE /\ seen' = [seen EXCEPT ![n][t] = eventTxId[Peer(n)]]
                /\ todo' = [todo EXCEPT ![n][t] = <<"remoteTxId">>]
                /\ UNCHANGED round
        /\ UNCHANGED <<ncsVars, service>>
     \/ Fails(n) /\ Throw(n, t)
  /\ UNCHANGED <<saved, vips, request, faults>>

\* ... then, on a second connection, the current one.
remoteTxId(n, t) ==
  /\ At(n, t, "remoteTxId")
  /\ \/ /\ Answers(n)
        /\ RemoteTxDiffIs(n, t, seen[n][t] # txid[Peer(n)])
        /\ UNCHANGED <<ncsVars, service>>
     \/ Fails(n) /\ Throw(n, t)
  /\ UNCHANGED <<saved, vips, request, faults>>

--------------------------------------------------------------------------------
(* Commands to the local node.                                                *)

haMaster(n, t) ==
  /\ At(n, t, "haMaster")
  /\ HaBeMaster(n)
  /\ Proceed(n, t)
  /\ UNCHANGED <<service, saved, vips, request, bounds>>

haNone(n, t) ==
  /\ At(n, t, "haNone")
  /\ HaBeNone(n)
  /\ Proceed(n, t)
  /\ UNCHANGED <<service, saved, vips, request, bounds>>

haSlave(n, t) ==
  /\ At(n, t, "haSlave")
  /\ \/ HaBeSlave(n) /\ Proceed(n, t) /\ UNCHANGED service
     \/ ~MasterAnswers(n) /\ Throw(n, t)
  /\ UNCHANGED <<saved, vips, request, bounds>>

initializeAvailableVips(n, t) ==
  /\ At(n, t, "vipsUp")
  /\ vips' = [vips EXCEPT ![n] = TRUE]
  /\ Proceed(n, t)
  /\ UNCHANGED <<ncsVars, service, saved, request, bounds>>

destroyVips(n, t) ==
  /\ At(n, t, "vipsDown")
  /\ vips' = [vips EXCEPT ![n] = FALSE]
  /\ Proceed(n, t)
  /\ UNCHANGED <<ncsVars, service, saved, request, bounds>>

\* saveTxId sets the field first and then writes the file (see also crash).
getTxId(n) ==
  /\ At(n, App, "getTxId")
  /\ eventTxId' = [eventTxId EXCEPT ![n] = txid[n]]
  /\ Proceed(n, App)
  /\ UNCHANGED <<ncsVars, service, disk, vips, request, bounds>>

writeTxId(n) ==
  /\ At(n, App, "writeTxId")
  /\ disk' = [disk EXCEPT ![n] = eventTxId[n]]
  /\ Proceed(n, App)
  /\ UNCHANGED <<ncsVars, service, eventTxId, vips, request, bounds>>

--------------------------------------------------------------------------------
(* Commands to the remote node, and the handlers of the acceptor.             *)

\* The handler has no branch for "master": it answers null and does nothing.
callMaster(n, t) ==
  /\ At(n, t, "callMaster")
  /\ \/ Answers(n) /\ Proceed(n, t) /\ UNCHANGED <<ncsVars, service>>
     \/ Fails(n) /\ Throw(n, t)
  /\ UNCHANGED <<saved, vips, request, faults>>

callSlave(n, t) ==
  /\ At(n, t, "callSlave")
  /\ \/ /\ Answers(n)
        /\ request[Peer(n)][t] = "idle"
        /\ request' = [request EXCEPT ![Peer(n)][t] = "received"]
        /\ Proceed(n, t)
        /\ UNCHANGED <<ncsVars, service>>
     \/ Fails(n) /\ Throw(n, t) /\ UNCHANGED request
  /\ UNCHANGED <<saved, vips, faults>>

\* The reply arrives, or the read times out: the handler died with an exception
\* (it then never answers), the network is gone, or it is only slow.
awaitSlave(n, t) ==
  /\ At(n, t, "awaitSlave")
  /\ \/ /\ link
        /\ request[Peer(n)][t] = "answered"
        /\ request' = [request EXCEPT ![Peer(n)][t] = "idle"]
        /\ Proceed(n, t)
        /\ UNCHANGED <<ncsVars, service, timeouts>>
     \/ /\ \/ (~link \/ request[Peer(n)][t] = "idle") /\ UNCHANGED timeouts
           \/ TimesOut
        /\ Throw(n, t)
        /\ request' = IF request[Peer(n)][t] = "answered"
                      THEN [request EXCEPT ![Peer(n)][t] = "idle"] ELSE request
  /\ UNCHANGED <<saved, vips, faults>>

\* RequestHandler.run for the "slave" request of the peer's thread t: beSlave,
\* with no beNone before it; on an exception the socket is left without a reply.
handleSlave(n, t) ==
  /\ request[n][t] = "received"
  /\ \/ HaBeSlave(n) /\ request' = [request EXCEPT ![n][t] = "enslaved"]
     \/ /\ ~MasterAnswers(n)
        /\ request' = [request EXCEPT ![n][t] = "idle"]
        /\ UNCHANGED ncsVars
  /\ UNCHANGED <<service, saved, vips, todo, locals, bounds>>

\* mutant: no reply
answerSlaveSilent(n, t) ==
  /\ request[n][t] = "enslaved"
  /\ vips' = [vips EXCEPT ![n] = FALSE]
  /\ request' = [request EXCEPT ![n][t] = "idle"]
  /\ UNCHANGED <<ncsVars, service, saved, todo, locals, bounds>>

answerSlave(n, t) ==
  /\ request[n][t] = "enslaved"
  /\ vips' = [vips EXCEPT ![n] = FALSE]
  /\ request' = [request EXCEPT ![n][t] =
                   IF At(Peer(n), t, "awaitSlave") THEN "answered" ELSE "idle"]
  /\ UNCHANGED <<ncsVars, service, saved, todo, locals, bounds>>

--------------------------------------------------------------------------------
(* The notification loop, the reconnector, stop and crash.                    *)

haEvent(n) ==
  /\ app[n] = "on"
  /\ todo[n][App] = <<>>
  /\ notif[n] # <<>>
  /\ notif' = [notif EXCEPT ![n] = Tail(@)]
  /\ Do(n, App, CASE Head(notif[n]) = "NOMASTER" -> masterDown(n)
                  [] Head(notif[n]) = "SLAVE_DIED" -> slaveDown(n)
                  [] Head(notif[n]) = "SLAVE_INITIALIZED" -> saveTxId)
  /\ UNCHANGED <<ha, cdb, txid, issued, link, subscribed, service, saved, vips, request, bounds>>

\* HAControllerReConnector.execute submits one more reconnector to the pool,
\* whether or not there is one already; which of the idle ones is immaterial.
execute(n) ==
  /\ At(n, App, "execute")
  /\ \E r \in Reconnector : todo[n][r] = <<>>
  /\ todo' = [todo EXCEPT ![n][App] = Tail(@),
                         ![n][CHOOSE r \in Reconnector : todo[n][r] = <<>>] = <<"reconnect">>]
  /\ UNCHANGED <<ncsVars, service, saved, vips, locals, request, bounds>>

\* The loop of a reconnector finds the peer; until then it sleeps and retries.
reConnected(n, r) ==
  /\ At(n, r, "reconnect")
  /\ Answers(n)
  /\ Evaluate(n, r, 1)
  /\ UNCHANGED <<ncsVars, service, saved, vips, request, faults>>

\* HAControllerAppCmp.finish, on a thread of NCS: the acceptor and its handlers
\* end; the thread of run() ends after the haEvent it is in.  NCS keeps its role,
\* and the pool of reconnectors is not shut down.
finish(n) ==
  /\ stops < MaxStops
  /\ Possible("stop")
  /\ app[n] # "off"
  /\ stops' = stops + 1
  /\ app' = [app EXCEPT ![n] = "off"]
  /\ listening' = [listening EXCEPT ![n] = FALSE]
  /\ subscribed' = [subscribed EXCEPT ![n] = FALSE]
  /\ notif' = [notif EXCEPT ![n] = <<>>]
  /\ vips' = [vips EXCEPT ![n] = FALSE]
  /\ request' = [request EXCEPT ![n] = [t \in Thread |-> "idle"]]
  /\ UNCHANGED <<ha, cdb, txid, issued, link, saved, todo, locals, crashes, drops, timeouts>>

\* The host goes down with NCS and the controller.  FileOutputStream truncates
\* the file before it is written: a crash inside saveTxId may leave it empty.
crash(n) ==
  /\ crashes < MaxCrashes
  /\ Possible("crash")
  /\ app[n] # "off"
  /\ crashes' = crashes + 1
  /\ ha' = RolesWithout(n)
  /\ notif' = [NotifWithout(n) EXCEPT ![n] = <<>>]
  /\ subscribed' = [subscribed EXCEPT ![n] = FALSE]
  /\ app' = [app EXCEPT ![n] = "off"]
  /\ listening' = [listening EXCEPT ![n] = FALSE]
  /\ eventTxId' = [eventTxId EXCEPT ![n] = NoTxId]
  /\ \/ UNCHANGED disk
     \/ At(n, App, "writeTxId") /\ disk' = [disk EXCEPT ![n] = NoTxId]
  /\ vips' = [vips EXCEPT ![n] = FALSE]
  /\ todo' = [todo EXCEPT ![n] = [t \in Thread |-> <<>>]]
  /\ round' = [round EXCEPT ![n] = [t \in Thread |-> 0]]
  /\ seen' = [seen EXCEPT ![n] = [t \in Thread |-> NoTxId]]
  /\ request' = RequestsWithout(n)
  /\ UNCHANGED <<cdb, txid, issued, link, drops, stops, timeouts>>

--------------------------------------------------------------------------------
(* The environment.                                                           *)

commit(n) ==
  /\ Possible("commit")
  /\ Commit(n)
  /\ UNCHANGED <<ctlVars, bounds>>

loseLink ==
  /\ drops < MaxDrops
  /\ Possible("link")
  /\ DropLink
  /\ drops' = drops + 1
  /\ UNCHANGED <<ctlVars, crashes, stops, timeouts>>

restoreLink == Possible("link") /\ RestoreLink /\ UNCHANGED <<ctlVars, bounds>>

--------------------------------------------------------------------------------
AppStep(n) ==
  \/ initialDetermination(n) \/ determinationByTxId(n)
  \/ remoteHaStatus(n) \/ localHaStatus(n)
  \/ getTxId(n) \/ writeTxId(n) \/ execute(n)
  \/ haEvent(n)

ThreadStep(n, t) ==
  \/ localTxDiff(n, t) \/ remoteEventTxId(n, t) \/ remoteTxId(n, t)
  \/ haMaster(n, t) \/ haNone(n, t) \/ haSlave(n, t)
  \/ initializeAvailableVips(n, t) \/ destroyVips(n, t)
  \/ callMaster(n, t) \/ callSlave(n, t) \/ awaitSlave(n, t)

HandlerStep(n, t) == handleSlave(n, t) \/ answerSlave(n, t)

Controller(n) ==
  \/ start(n) \/ acceptHARemoteConnections(n)
  \/ AppStep(n)
  \/ \E t \in Thread : ThreadStep(n, t) \/ HandlerStep(n, t)
  \/ \E r \in Reconnector : reConnected(n, r)

Environment ==
  \/ \E n \in Node : commit(n) \/ crash(n) \/ finish(n)
  \/ loseLink \/ restoreLink

Next == (\E n \in Node : Controller(n)) \/ Environment

Spec == Init /\ [][Next]_vars

(* The threads of the JVM are scheduled, and sleeps and timeouts end.         *)
Scheduling ==
  \A n \in Node :
    /\ WF_vars(acceptHARemoteConnections(n))
    /\ WF_vars(AppStep(n))
    /\ \A t \in Thread : WF_vars(ThreadStep(n, t)) /\ WF_vars(HandlerStep(n, t))
    /\ \A r \in Reconnector : WF_vars(reConnected(n, r))

FairSpec == Spec /\ Scheduling

\* ... and a controller that is down is started (again) by its administrator
RestartSpec == FairSpec /\ \A n \in Node : WF_vars(start(n))

--------------------------------------------------------------------------------
(* Properties.                                                                *)

\* reConciliation exists "so we don't want to loose transactions"
\* (HAController.java:185): every committed transaction is in the database of
\* some node, whichever node is made to overwrite its own by beSlave.
NoTransactionLost == 1..issued \subseteq UNION {cdb[n] : n \in Node}

\* The decision rests on txDiff: once the controllers are at rest, a node that
\* holds a transaction the other lacks has a difference, so that
\* initialDetermination and reConciliation will not make it the slave.
UnsharedIsNoticed ==
  Settled => \A n \in Node : ~(cdb[n] \subseteq cdb[Peer(n)]) => txDiff(n)

\* What a restart would read back is what the running controller answers to
\* "eventtxid": field and file of HALocalNode differ only inside saveTxId.
EventTxIdPersisted ==
  \A n \in Node : app[n] # "off" /\ ~At(n, App, "writeTxId") => disk[n] = eventTxId[n]

\* Only a preferred master reconnects (haNodeDown), so with one preferred master
\* no two reConciliations of the two nodes' reconnectors run against each other,
\* and that node is never ordered to be slave by a reconnector.
OnlyPreferredReconnects ==
  \A n \in Node \ PreferredMasters : \A r \in Reconnector :
    todo[n][r] = <<>> /\ request[Peer(n)][r] = "idle"

\* What a node keeps in order by itself, whatever crashes, stops, losses and late
\* answers there are: its variables, its saved id and who reconnects.
NodeSafe == TypeOK /\ EventTxIdPersisted /\ OnlyPreferredReconnects

Paired == \E n \in Node : ha[n] = "MASTER" /\ ha[Peer(n)] = "SLAVE"

\* CASE 1: commits on both sides, "need manual intervention"
Conflict == \A n \in Node : txDiff(n)

\* Failover: when the host of the master goes down for good the slave becomes
\* master (masterDown), unless its own host or controller goes down as well.
Failover ==
  \A n \in Node :
    [](ha[n] = "SLAVE" =>
         (<>[](app[Peer(n)] = "off" /\ ha[Peer(n)] = "NONE")
            => <>(ha[n] = "MASTER" \/ app[n] = "off")))

\* Two nodes that were a pair and lost each other are a pair again, or found a
\* conflict, once the network stays up.
Reunites == [](Paired => (<>[]link => <>[](Paired \/ Conflict)))

\* The retry loops end: with the network up, reconnectors, handlers and
\* initialDetermination all come to rest.
ReconciliationEnds == <>[]link => <>[]Settled

\* tailf-ha-controller.yang:18-20: "One node should be running as HA master
\* (active), and the other as HA slave (standby)": so it is in the end, when
\* the network stays up and initialDetermination has found no conflict.
OneMasterOneSlave == <>[]link => <>[](Paired \/ Conflict)
================================================================================
