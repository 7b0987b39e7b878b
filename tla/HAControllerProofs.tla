--------------------------- MODULE HAControllerProofs ---------------------------
(******************************************************************************)
(* Theorems about HAController, for every number of reconnectors, every bound *)
(* and every choice of Anytime: type correctness (TypeCorrect), the saved id  *)
(* and its file (Persisted), and who reconnects (OnlyPreferred).  The last    *)
(* two rest on Shape: in what a thread has left to do, an id that is read is  *)
(* written next, and only a preferred master has a reconnector to start.      *)
(******************************************************************************)
EXTENDS HAController, TLAPS

--------------------------------------------------------------------------------
(* The constants, and the bodies of the methods.                              *)

\* Peer maps a node to the other node.
LEMMA PeerType == \A n \in Node : Peer(n) \in Node /\ Peer(n) # n /\ Peer(Peer(n)) = n
BY NodesDiffer DEF Node, Peer

\* App is a thread and no reconnector; reconnectors are threads.
LEMMA ThreadType == /\ App \in Thread /\ App \notin Reconnector
                    /\ \A r \in Reconnector : r \in Thread /\ r # App
BY DEF App, Reconnector, Thread

\* Sequences of steps are closed under what the threads do with them.
LEMMA SeqOfSteps ==
  /\ \A s, u \in Seq(Step) : s \o u \in Seq(Step)
  /\ \A s \in Seq(Step) : s # <<>> => Tail(s) \in Seq(Step)
OBVIOUS

\* Every method body is a sequence of steps.
LEMMA BodiesType ==
  /\ <<>> \in Seq(Step)
  /\ \A s \in Step : <<s>> \in Seq(Step)
  /\ beMaster \in Seq(Step) /\ beNone \in Seq(Step) /\ beSlave \in Seq(Step)
  /\ saveTxId \in Seq(Step)
  /\ remoteBeMaster \in Seq(Step) /\ remoteBeSlave \in Seq(Step)
  /\ \A n \in Node : /\ haNodeDown(n) \in Seq(Step) /\ masterDown(n) \in Seq(Step)
                     /\ slaveDown(n) \in Seq(Step)
  /\ \A n \in Node, k \in 1..4 : reConciliationCase(n, k) \in Seq(Step)
<1>1. <<>> \in Seq(Step) /\ \A s \in Step : <<s>> \in Seq(Step)
  OBVIOUS
<1>2. /\ beMaster \in Seq(Step) /\ beNone \in Seq(Step) /\ beSlave \in Seq(Step)
      /\ saveTxId \in Seq(Step)
      /\ remoteBeMaster \in Seq(Step) /\ remoteBeSlave \in Seq(Step)
      /\ <<"execute">> \in Seq(Step)
  BY DEF beMaster, beNone, beSlave, saveTxId, remoteBeMaster, remoteBeSlave, Step
<1>3. \A n \in Node : haNodeDown(n) \in Seq(Step)
  BY <1>2, SeqOfSteps DEF haNodeDown
<1>4. \A n \in Node : masterDown(n) \in Seq(Step) /\ slaveDown(n) \in Seq(Step)
  BY <1>2, <1>3, SeqOfSteps DEF masterDown, slaveDown
<1>5. ASSUME NEW n \in Node, NEW k \in 1..4 PROVE reConciliationCase(n, k) \in Seq(Step)
  <2>1. CASE k = 1
    BY <2>1, <1>1 DEF reConciliationCase
  <2>2. CASE k = 2
    BY <2>2, <1>2, SeqOfSteps DEF reConciliationCase
  <2>3. CASE k = 3
    BY <2>3, <1>2, SeqOfSteps DEF reConciliationCase
  <2>4. CASE k = 4
    BY <2>4, <1>2, SeqOfSteps DEF reConciliationCase
  <2> QED BY <2>1, <2>2, <2>3, <2>4
<1> QED BY <1>1, <1>2, <1>3, <1>4, <1>5

--------------------------------------------------------------------------------
(* Type correctness.                                                          *)

\* the types of what the threads hold, and of everything else the controllers do
ThreadsOK ==
  /\ todo \in [Node -> [Thread -> Seq(Step)]]
  /\ round \in [Node -> [Thread -> 0..4]]
  /\ seen \in [Node -> [Thread -> {NoTxId} \union 0..issued]]

\* A thread that takes its next step, or turns to other steps, keeps its type.
LEMMA DoType ==
  ASSUME TypeOK, NEW n \in Node, NEW t \in Thread, NEW steps \in Seq(Step),
         issued' = issued, Do(n, t, steps) \/ Leave(n, t, steps)
  PROVE  ThreadsOK'
<1>1. CASE Do(n, t, steps)
  BY <1>1 DEF TypeOK, ThreadsOK, Do, locals
<1>2. CASE Leave(n, t, steps)
  BY <1>2 DEF TypeOK, ThreadsOK, Leave
<1> QED BY <1>1, <1>2

\* A thread that goes on to its next step keeps its type.
LEMMA ProceedType ==
  ASSUME TypeOK, NEW n \in Node, NEW t \in Thread, NEW step,
         At(n, t, step), issued' = issued, Proceed(n, t)
  PROVE  ThreadsOK'
<1>1. Tail(todo[n][t]) \in Seq(Step)
  BY SeqOfSteps DEF TypeOK, At
<1> QED BY <1>1, DoType DEF Proceed

\* A thread that turns to a condition on txDiff keeps its type.
LEMMA EvaluateType ==
  ASSUME TypeOK, NEW n \in Node, NEW t \in Thread, NEW k \in 0..4,
         issued' = issued, Evaluate(n, t, k)
  PROVE  ThreadsOK'
<1>1. <<"localTxDiff">> \in Seq(Step)
  BY DEF Step
<1> QED BY <1>1 DEF TypeOK, ThreadsOK, Evaluate

\* There is no condition after the fourth.
LEMMA NextRoundType ==
  ASSUME TypeOK, NEW n \in Node, NEW t \in Thread, issued' = issued, NextRound(n, t)
  PROVE  ThreadsOK'
<1>1. round[n][t] \in 0..4
  BY DEF TypeOK
<1>2. CASE round[n][t] < 4
  BY <1>1, <1>2, EvaluateType DEF NextRound
<1>3. CASE ~(round[n][t] < 4)
  BY <1>3, DoType, BodiesType DEF NextRound
<1> QED BY <1>2, <1>3

\* An exception keeps the types of the threads, of app and of the queues.
LEMMA ThrowType ==
  ASSUME TypeOK, NEW n \in Node, NEW t \in Thread, Throw(n, t)
  PROVE  /\ ThreadsOK' /\ NcsTypeOK'
         /\ app' \in [Node -> {"off", "on", "dead"}]
         /\ UNCHANGED <<issued, listening>>
<1>1. <<"reconnect">> \in Seq(Step)
  BY DEF Step
<1>2. UNCHANGED <<issued, listening>>
  BY DEF Throw
<1>3. ThreadsOK'
  BY <1>1, <1>2, DoType, BodiesType DEF Throw
<1>4. app' \in [Node -> {"off", "on", "dead"}]
  BY DEF Throw, TypeOK
<1>5. subscribed' \in [Node -> BOOLEAN] /\ notif' \in [Node -> Seq(HaInfo)]
  BY DEF Throw, TypeOK, NcsTypeOK
<1>6. NcsTypeOK'
  BY <1>5 DEF Throw, TypeOK, NcsTypeOK
<1> QED BY <1>2, <1>3, <1>4, <1>6

\* What follows the answer of HARemoteNode.txDiff keeps the type.
LEMMA RemoteTxDiffType ==
  ASSUME TypeOK, NEW n \in Node, NEW t \in Thread, NEW diff \in BOOLEAN,
         issued' = issued, RemoteTxDiffIs(n, t, diff)
  PROVE  ThreadsOK'
<1>1. round[n][t] \in 0..4
  BY DEF TypeOK
<1>2. <<"determinationByTxId">> \in Seq(Step) /\ <<"remoteHaStatus">> \in Seq(Step)
  BY DEF Step
<1>3. CASE round[n][t] = 0
  BY <1>2, <1>3, DoType DEF RemoteTxDiffIs
<1>4. CASE round[n][t] # 0 /\ diff = RemoteDiffIn(round[n][t])
  <2>1. reConciliationCase(n, round[n][t]) \in Seq(Step)
    <3>1. round[n][t] \in 1..4
      BY <1>1, <1>4
    <3>2. \A k \in 1..4 : reConciliationCase(n, k) \in Seq(Step)
      BY BodiesType
    <3> QED BY <3>1, <3>2
  <2>2. Leave(n, t, reConciliationCase(n, round[n][t]))
    BY <1>4 DEF RemoteTxDiffIs
  <2> QED BY <2>1, <2>2, DoType
<1>5. CASE round[n][t] # 0 /\ diff # RemoteDiffIn(round[n][t])
  BY <1>5, NextRoundType DEF RemoteTxDiffIs
<1> QED BY <1>3, <1>4, <1>5

\* The operations of NCS keep its types.
LEMMA TellType ==
  ASSUME NcsTypeOK, NEW n \in Node, NEW e \in HaInfo
  PROVE  Tell(n, e) \in [Node -> Seq(HaInfo)]
<1>1. Append(notif[n], e) \in Seq(HaInfo)
  BY DEF NcsTypeOK
<1> QED BY <1>1 DEF NcsTypeOK, Tell

\* The roles and queues after a node has left have their types.
LEMMA WithoutType ==
  ASSUME NcsTypeOK, NEW n \in Node
  PROVE  /\ RolesWithout(n) \in [Node -> HaState]
         /\ NotifWithout(n) \in [Node -> Seq(HaInfo)]
<1>1. RolesWithout(n) \in [Node -> HaState]
  BY DEF NcsTypeOK, RolesWithout, HaState
<1>2. "SLAVE_DIED" \in HaInfo /\ "NOMASTER" \in HaInfo
  BY DEF HaInfo
<1>3. NotifWithout(n) \in [Node -> Seq(HaInfo)]
  BY <1>2, TellType, PeerType DEF NotifWithout, NcsTypeOK
<1> QED BY <1>1, <1>3

\* Ha.beMaster, Ha.beNone and Ha.beSlave keep the types of NCS.
LEMMA HaType ==
  ASSUME NcsTypeOK, NEW n \in Node, HaBeMaster(n) \/ HaBeNone(n) \/ HaBeSlave(n)
  PROVE  NcsTypeOK' /\ UNCHANGED issued
<1>0. /\ "SLAVE_DIED" \in HaInfo /\ "SLAVE_INITIALIZED" \in HaInfo
      /\ "MASTER" \in HaState /\ "SLAVE" \in HaState
  BY DEF HaInfo, HaState
<1>1. CASE HaBeMaster(n)
  <2>1. notif' \in [Node -> Seq(HaInfo)]
    BY <1>0, <1>1, TellType, PeerType DEF HaBeMaster, NcsTypeOK
  <2> QED BY <1>0, <1>1, <2>1 DEF HaBeMaster, NcsTypeOK
<1>2. CASE HaBeNone(n)
  BY <1>2, WithoutType DEF HaBeNone, NcsTypeOK
<1>3. CASE HaBeSlave(n)
  <2>1. notif' \in [Node -> Seq(HaInfo)]
    BY <1>0, <1>3, TellType DEF HaBeSlave
  <2> QED BY <1>0, <1>3, <2>1, PeerType DEF HaBeSlave, NcsTypeOK
<1> QED BY <1>1, <1>2, <1>3

\* A commit issues an id that is within the bound, and forgets none.
LEMMA CommitType ==
  ASSUME NcsTypeOK, NEW n \in Node, Commit(n)
  PROVE  NcsTypeOK' /\ issued \in Nat /\ issued' = issued + 1
<1>1. issued \in Nat /\ issued' = issued + 1 /\ issued' \in 0..MaxCommits
  BY MaxCommitsNat DEF NcsTypeOK, Commit
<1>2. cdb' \in [Node -> SUBSET (1..issued')]
  <2>1. ASSUME NEW m \in Node
        PROVE  /\ cdb[m] \subseteq 1..issued'
               /\ cdb[m] \union {issued + 1} \subseteq 1..issued'
    <3>1. cdb[m] \subseteq 1..issued
      BY DEF NcsTypeOK
    <3>2. 1..issued \subseteq 1..issued' /\ issued + 1 \in 1..issued'
      BY <1>1
    <3> QED BY <3>1, <3>2
  <2> QED BY <2>1 DEF Commit
<1>3. txid' \in [Node -> 0..issued']
  BY <1>1 DEF NcsTypeOK, Commit
<1> QED BY <1>1, <1>2, <1>3 DEF NcsTypeOK, Commit

\* The loss and the return of the network keep the types of NCS.
LEMMA LinkType ==
  ASSUME NcsTypeOK, DropLink \/ RestoreLink
  PROVE  NcsTypeOK' /\ UNCHANGED issued
<1>1. CASE DropLink
  <2>1. ha' \in [Node -> HaState]
    BY <1>1 DEF DropLink, NcsTypeOK, HaState
  <2>2. notif' \in [Node -> Seq(HaInfo)]
    <3>1. \A m \in Node : /\ notif[m] \in Seq(HaInfo)
                          /\ Append(notif[m], "NOMASTER") \in Seq(HaInfo)
                          /\ Append(notif[m], "SLAVE_DIED") \in Seq(HaInfo)
      BY DEF NcsTypeOK, HaInfo
    <3> QED BY <1>1, <3>1 DEF DropLink
  <2> QED BY <1>1, <2>1, <2>2 DEF DropLink, NcsTypeOK
<1>2. CASE RestoreLink
  BY <1>2 DEF RestoreLink, NcsTypeOK
<1> QED BY <1>1, <1>2

\* A request is answered or fails; the count of late answers keeps its type.
LEMMA RequestType ==
  ASSUME TypeOK, NEW n \in Node, Answers(n) \/ Fails(n)
  PROVE  timeouts' \in 0..MaxTimeouts
<1>1. timeouts \in 0..MaxTimeouts /\ MaxTimeouts \in Nat
  BY BoundsNat DEF TypeOK
<1> QED BY <1>1 DEF Answers, Fails, TimesOut

\* When threads go, requests keep their type.
LEMMA RequestsWithoutType ==
  ASSUME TypeOK, NEW n \in Node
  PROVE  RequestsWithout(n) \in [Node -> [Thread -> RequestState]]
BY DEF TypeOK, RequestsWithout, RequestState

\* The types of everything but the threads and NCS.
RestOK ==
  /\ app \in [Node -> {"off", "on", "dead"}]
  /\ listening \in [Node -> BOOLEAN]
  /\ eventTxId \in [Node -> {NoTxId} \union 0..issued]
  /\ disk \in [Node -> {NoTxId} \union 0..issued]
  /\ vips \in [Node -> BOOLEAN]
  /\ request \in [Node -> [Thread -> RequestState]]
  /\ crashes \in 0..MaxCrashes /\ drops \in 0..MaxDrops /\ stops \in 0..MaxStops
  /\ timeouts \in 0..MaxTimeouts

\* TypeOK is the conjunction of its three parts, before and after a step.
LEMMA TypeParts == /\ TypeOK => NcsTypeOK /\ ThreadsOK /\ RestOK
                   /\ NcsTypeOK' /\ ThreadsOK' /\ RestOK' => TypeOK'
BY DEF TypeOK, ThreadsOK, RestOK

\* Steps that leave NCS alone keep its types.
LEMMA NcsUnchanged == NcsTypeOK /\ UNCHANGED ncsVars => NcsTypeOK' /\ UNCHANGED issued
BY DEF NcsTypeOK, ncsVars

\* Every step of the thread of HAControllerAppCmp keeps the types.
LEMMA AppStepType ==
  ASSUME TypeOK, NEW n \in Node, AppStep(n)
  PROVE  TypeOK'
<1>0. NcsTypeOK /\ RestOK
  BY TypeParts
<1>a. App \in Thread
  BY ThreadType
<1>1. CASE initialDetermination(n)
  <2>1. NcsTypeOK' /\ UNCHANGED issued
    BY <1>0, <1>1, NcsUnchanged DEF initialDetermination
  <2>2. timeouts' \in 0..MaxTimeouts
    BY <1>1, RequestType DEF initialDetermination
  <2>3. saveTxId \o beMaster \in Seq(Step)
    BY BodiesType, SeqOfSteps
  <2>4. ThreadsOK'
    <3>1. CASE Evaluate(n, App, 0)
      BY <3>1, <1>a, <2>1, EvaluateType
    <3>2. CASE Do(n, App, saveTxId \o beMaster)
      BY <3>2, <1>a, <2>1, <2>3, DoType
    <3> QED BY <1>1, <3>1, <3>2 DEF initialDetermination
  <2>5. RestOK'
    BY <1>0, <1>1, <2>1, <2>2 DEF initialDetermination, RestOK, service, saved, faults
  <2> QED BY <2>1, <2>4, <2>5, TypeParts
<1>2. CASE determinationByTxId(n)
  <2>1. NcsTypeOK' /\ UNCHANGED issued
    BY <1>0, <1>2, NcsUnchanged DEF determinationByTxId
  <2>2. timeouts' \in 0..MaxTimeouts
    BY <1>2, RequestType DEF determinationByTxId
  <2>3. ThreadsOK'
    BY <1>2, <1>a, <2>1, BodiesType, DoType, EvaluateType DEF determinationByTxId
  <2>4. RestOK'
    BY <1>0, <1>2, <2>1, <2>2 DEF determinationByTxId, RestOK, service, saved, faults
  <2> QED BY <2>1, <2>3, <2>4, TypeParts
<1>3. CASE remoteHaStatus(n)
  <2>1. timeouts' \in 0..MaxTimeouts
    BY <1>3, RequestType DEF remoteHaStatus
  <2>2. CASE Fails(n) /\ Throw(n, App)
    BY <1>0, <1>3, <1>a, <2>1, <2>2, ThrowType, TypeParts DEF remoteHaStatus, RestOK, saved, faults
  <2>3. CASE ~(Fails(n) /\ Throw(n, App))
    <3>1. NcsTypeOK' /\ UNCHANGED issued
      BY <1>0, <1>3, <2>3, NcsUnchanged DEF remoteHaStatus
    <3>2. PICK steps \in Seq(Step) : Do(n, App, steps)
      <4>1. /\ <<"initialDetermination">> \in Seq(Step) /\ <<"localHaStatus">> \in Seq(Step)
            /\ ha[Peer(n)] \in {"NONE", "MASTER", "SLAVE"}
        BY PeerType DEF Step, TypeOK, NcsTypeOK, HaState
      <4> QED BY <1>3, <2>3, <4>1, BodiesType DEF remoteHaStatus
    <3>3. RestOK'
      BY <1>0, <1>3, <2>1, <2>3, <3>1 DEF remoteHaStatus, RestOK, service, saved, faults
    <3> QED BY <1>a, <3>1, <3>2, <3>3, DoType, TypeParts
  <2> QED BY <2>2, <2>3
<1>4. CASE localHaStatus(n)
  <2>1. NcsTypeOK' /\ UNCHANGED issued
    BY <1>0, <1>4, NcsUnchanged DEF localHaStatus
  <2>2. PICK steps \in Seq(Step) : Do(n, App, steps)
    <3>1. beNone \o beSlave \in Seq(Step) /\ ha[n] \in {"NONE", "MASTER", "SLAVE"}
      BY BodiesType, SeqOfSteps DEF TypeOK, NcsTypeOK, HaState
    <3> QED BY <1>4, <3>1, BodiesType DEF localHaStatus
  <2>3. RestOK'
    BY <1>0, <1>4, <2>1 DEF localHaStatus, RestOK, service, saved, bounds, faults
  <2> QED BY <1>a, <2>1, <2>2, <2>3, DoType, TypeParts
<1>5. CASE getTxId(n)
  <2>1. NcsTypeOK' /\ UNCHANGED issued
    BY <1>0, <1>5, NcsUnchanged DEF getTxId
  <2>2. ThreadsOK'
    BY <1>5, <1>a, <2>1, ProceedType DEF getTxId
  <2>3. eventTxId' \in [Node -> {NoTxId} \union 0..issued]
    BY <1>0, <1>5 DEF getTxId, RestOK, NcsTypeOK
  <2>4. RestOK'
    BY <1>0, <1>5, <2>1, <2>3 DEF getTxId, RestOK, service, bounds, faults
  <2> QED BY <2>1, <2>2, <2>4, TypeParts
<1>6. CASE writeTxId(n)
  <2>1. NcsTypeOK' /\ UNCHANGED issued
    BY <1>0, <1>6, NcsUnchanged DEF writeTxId
  <2>2. ThreadsOK'
    BY <1>6, <1>a, <2>1, ProceedType DEF writeTxId
  <2>3. RestOK'
    BY <1>0, <1>6, <2>1 DEF writeTxId, RestOK, service, bounds, faults
  <2> QED BY <2>1, <2>2, <2>3, TypeParts
<1>7. CASE execute(n)
  <2>1. NcsTypeOK' /\ UNCHANGED issued
    BY <1>0, <1>7, NcsUnchanged DEF execute
  <2>2. PICK r \in Reconnector :
          todo' = [todo EXCEPT ![n][App] = Tail(@), ![n][r] = <<"reconnect">>]
    BY <1>7 DEF execute
  <2>3. Tail(todo[n][App]) \in Seq(Step) /\ <<"reconnect">> \in Seq(Step)
    BY <1>7, <1>a, SeqOfSteps DEF execute, At, TypeOK, Step
  <2>4. todo' \in [Node -> [Thread -> Seq(Step)]]
    BY <1>a, <2>2, <2>3, ThreadType DEF TypeOK
  <2>5. ThreadsOK'
    BY <1>7, <2>1, <2>4 DEF execute, TypeOK, ThreadsOK, locals
  <2>6. RestOK'
    BY <1>0, <1>7, <2>1 DEF execute, RestOK, service, saved, bounds, faults
  <2> QED BY <2>1, <2>5, <2>6, TypeParts
<1>8. CASE haEvent(n)
  <2>1. Tail(notif[n]) \in Seq(HaInfo) /\ Head(notif[n]) \in HaInfo
    BY <1>0, <1>8 DEF haEvent, NcsTypeOK
  <2>2. NcsTypeOK' /\ UNCHANGED issued
    BY <1>0, <1>8, <2>1 DEF haEvent, NcsTypeOK
  <2>3. PICK steps \in Seq(Step) : Do(n, App, steps)
    BY <1>8, <2>1, BodiesType DEF haEvent, HaInfo
  <2>4. RestOK'
    BY <1>0, <1>8, <2>2 DEF haEvent, RestOK, service, saved, bounds, faults
  <2> QED BY <1>a, <2>2, <2>3, <2>4, DoType, TypeParts
<1> QED BY <1>1, <1>2, <1>3, <1>4, <1>5, <1>6, <1>7, <1>8 DEF AppStep

\* Every step a thread shares with the other kinds of thread keeps the types.
LEMMA ThreadStepType ==
  ASSUME TypeOK, NEW n \in Node, NEW t \in Thread, ThreadStep(n, t)
  PROVE  TypeOK'
<1>0. NcsTypeOK /\ RestOK
  BY TypeParts
<1>1. CASE localTxDiff(n, t)
  <2>1. NcsTypeOK' /\ UNCHANGED issued
    BY <1>0, <1>1, NcsUnchanged DEF localTxDiff
  <2>2. RestOK'
    BY <1>0, <1>1, <2>1 DEF localTxDiff, RestOK, service, saved, bounds, faults
  <2>3. <<"determinationByTxId">> \in Seq(Step) /\ <<"remoteEventTxId">> \in Seq(Step)
    BY DEF Step
  <2>4. ThreadsOK'
    <3>1. CASE NextRound(n, t)
      BY <2>1, <3>1, NextRoundType
    <3>2. CASE \E steps \in Seq(Step) : Do(n, t, steps)
      BY <2>1, <3>2, DoType
    <3> QED BY <1>1, <2>3, <3>1, <3>2 DEF localTxDiff
  <2> QED BY <2>1, <2>2, <2>4, TypeParts
<1>2. CASE remoteEventTxId(n, t)
  <2>1. timeouts' \in 0..MaxTimeouts
    BY <1>2, RequestType DEF remoteEventTxId
  <2>2. CASE Throw(n, t)
    BY <1>0, <1>2, <2>1, <2>2, ThrowType, TypeParts DEF remoteEventTxId, RestOK, saved, faults
  <2>3. CASE ~Throw(n, t)
    <3>1. NcsTypeOK' /\ UNCHANGED issued
      BY <1>0, <1>2, <2>3, NcsUnchanged DEF remoteEventTxId
    <3>2. RestOK'
      BY <1>0, <1>2, <2>1, <2>3, <3>1 DEF remoteEventTxId, RestOK, service, saved, faults
    <3>3. CASE RemoteTxDiffIs(n, t, FALSE)
      BY <3>1, <3>2, <3>3, RemoteTxDiffType, TypeParts
    <3>4. CASE ~RemoteTxDiffIs(n, t, FALSE)
      <4>1. /\ seen' = [seen EXCEPT ![n][t] = eventTxId[Peer(n)]]
            /\ todo' = [todo EXCEPT ![n][t] = <<"remoteTxId">>]
            /\ UNCHANGED round
        BY <1>2, <2>3, <3>4 DEF remoteEventTxId
      <4>2. <<"remoteTxId">> \in Seq(Step) /\ eventTxId[Peer(n)] \in {NoTxId} \union 0..issued
        BY PeerType DEF Step, TypeOK
      <4>3. ThreadsOK'
        BY <3>1, <4>1, <4>2 DEF ThreadsOK, TypeOK
      <4> QED BY <3>1, <3>2, <4>3, TypeParts
    <3> QED BY <3>3, <3>4
  <2> QED BY <2>2, <2>3
<1>3. CASE remoteTxId(n, t)
  <2>1. timeouts' \in 0..MaxTimeouts
    BY <1>3, RequestType DEF remoteTxId
  <2>2. CASE Throw(n, t)
    BY <1>0, <1>3, <2>1, <2>2, ThrowType, TypeParts DEF remoteTxId, RestOK, saved, faults
  <2>3. CASE ~Throw(n, t)
    <3>1. NcsTypeOK' /\ UNCHANGED issued
      BY <1>0, <1>3, <2>3, NcsUnchanged DEF remoteTxId
    <3>2. RestOK'
      BY <1>0, <1>3, <2>1, <2>3, <3>1 DEF remoteTxId, RestOK, service, saved, faults
    <3>3. RemoteTxDiffIs(n, t, seen[n][t] # txid[Peer(n)])
      BY <1>3, <2>3 DEF remoteTxId
    <3>4. (seen[n][t] # txid[Peer(n)]) \in BOOLEAN
      OBVIOUS
    <3> QED BY <3>1, <3>2, <3>3, <3>4, RemoteTxDiffType, TypeParts
  <2> QED BY <2>2, <2>3
<1>4. CASE haMaster(n, t)
  <2>1. NcsTypeOK' /\ UNCHANGED issued
    BY <1>0, <1>4, HaType DEF haMaster
  <2>2. RestOK'
    BY <1>0, <1>4, <2>1 DEF haMaster, RestOK, service, saved, bounds, faults
  <2> QED BY <1>4, <2>1, <2>2, ProceedType, TypeParts DEF haMaster
<1>5. CASE haNone(n, t)
  <2>1. NcsTypeOK' /\ UNCHANGED issued
    BY <1>0, <1>5, HaType DEF haNone
  <2>2. RestOK'
    BY <1>0, <1>5, <2>1 DEF haNone, RestOK, service, saved, bounds, faults
  <2> QED BY <1>5, <2>1, <2>2, ProceedType, TypeParts DEF haNone
<1>6. CASE haSlave(n, t)
  <2>1. CASE Throw(n, t)
    BY <1>0, <1>6, <2>1, ThrowType, TypeParts DEF haSlave, RestOK, saved, bounds, faults
  <2>2. CASE HaBeSlave(n) /\ Proceed(n, t) /\ UNCHANGED service
    <3>1. NcsTypeOK' /\ UNCHANGED issued
      BY <1>0, <2>2, HaType
    <3>2. RestOK'
      BY <1>0, <1>6, <2>2, <3>1 DEF haSlave, RestOK, service, saved, bounds, faults
    <3> QED BY <1>6, <2>2, <3>1, <3>2, ProceedType, TypeParts DEF haSlave
  <2> QED BY <1>6, <2>1, <2>2 DEF haSlave
<1>7. CASE initializeAvailableVips(n, t)
  <2>1. NcsTypeOK' /\ UNCHANGED issued
    BY <1>0, <1>7, NcsUnchanged DEF initializeAvailableVips
  <2>2. RestOK'
    BY <1>0, <1>7, <2>1 DEF initializeAvailableVips, RestOK, service, saved, bounds, faults
  <2> QED BY <1>7, <2>1, <2>2, ProceedType, TypeParts DEF initializeAvailableVips
<1>8. CASE destroyVips(n, t)
  <2>1. NcsTypeOK' /\ UNCHANGED issued
    BY <1>0, <1>8, NcsUnchanged DEF destroyVips
  <2>2. RestOK'
    BY <1>0, <1>8, <2>1 DEF destroyVips, RestOK, service, saved, bounds, faults
  <2> QED BY <1>8, <2>1, <2>2, ProceedType, TypeParts DEF destroyVips
<1>9. CASE callMaster(n, t)
  <2>1. timeouts' \in 0..MaxTimeouts
    BY <1>9, RequestType DEF callMaster
  <2>2. CASE Throw(n, t)
    BY <1>0, <1>9, <2>1, <2>2, ThrowType, TypeParts DEF callMaster, RestOK, saved, faults
  <2>3. CASE ~Throw(n, t)
    <3>1. NcsTypeOK' /\ UNCHANGED issued
      BY <1>0, <1>9, <2>3, NcsUnchanged DEF callMaster
    <3>2. RestOK'
      BY <1>0, <1>9, <2>1, <2>3, <3>1 DEF callMaster, RestOK, service, saved, faults
    <3> QED BY <1>9, <2>3, <3>1, <3>2, ProceedType, TypeParts DEF callMaster
  <2> QED BY <2>2, <2>3
<1>10. CASE callSlave(n, t)
  <2>1. timeouts' \in 0..MaxTimeouts
    BY <1>10, RequestType DEF callSlave
  <2>2. CASE Throw(n, t) /\ UNCHANGED request
    BY <1>0, <1>10, <2>1, <2>2, ThrowType, TypeParts DEF callSlave, RestOK, saved, faults
  <2>3. CASE ~(Throw(n, t) /\ UNCHANGED request)
    <3>1. NcsTypeOK' /\ UNCHANGED issued
      BY <1>0, <1>10, <2>3, NcsUnchanged DEF callSlave
    <3>2. request' \in [Node -> [Thread -> RequestState]]
      <4>1. request' = [request EXCEPT ![Peer(n)][t] = "received"]
        BY <1>10, <2>3 DEF callSlave
      <4> QED BY <4>1, PeerType DEF TypeOK, RequestState
    <3>3. RestOK'
      BY <1>0, <1>10, <2>1, <2>3, <3>1, <3>2 DEF callSlave, RestOK, service, saved, faults
    <3> QED BY <1>10, <2>3, <3>1, <3>3, ProceedType, TypeParts DEF callSlave
  <2> QED BY <2>2, <2>3
<1>11. CASE awaitSlave(n, t)
  <2>1. timeouts' \in 0..MaxTimeouts
    <3>1. timeouts \in 0..MaxTimeouts /\ MaxTimeouts \in Nat
      BY BoundsNat DEF TypeOK
    <3> QED BY <1>11, <3>1 DEF awaitSlave, TimesOut
  <2>2. request' \in [Node -> [Thread -> RequestState]]
    <3>1. request' = [request EXCEPT ![Peer(n)][t] = "idle"] \/ request' = request
      BY <1>11 DEF awaitSlave
    <3>2. CASE request' = [request EXCEPT ![Peer(n)][t] = "idle"]
      BY <3>2, PeerType DEF TypeOK, RequestState
    <3> QED BY <3>1, <3>2 DEF TypeOK
  <2>3. CASE Throw(n, t)
    BY <1>0, <1>11, <2>1, <2>2, <2>3, ThrowType, TypeParts DEF awaitSlave, RestOK, saved, faults
  <2>4. CASE ~Throw(n, t)
    <3>1. NcsTypeOK' /\ UNCHANGED issued
      BY <1>0, <1>11, <2>4, NcsUnchanged DEF awaitSlave
    <3>2. RestOK'
      BY <1>0, <1>11, <2>1, <2>2, <2>4, <3>1 DEF awaitSlave, RestOK, service, saved, faults
    <3> QED BY <1>11, <2>4, <3>1, <3>2, ProceedType, TypeParts DEF awaitSlave
  <2> QED BY <2>3, <2>4
<1> QED BY <1>1, <1>2, <1>3, <1>4, <1>5, <1>6, <1>7, <1>8, <1>9, <1>10, <1>11 DEF ThreadStep

\* Every step of a request handler keeps the types.
LEMMA HandlerStepType ==
  ASSUME TypeOK, NEW n \in Node, NEW t \in Thread, HandlerStep(n, t)
  PROVE  TypeOK'
<1>0. NcsTypeOK /\ ThreadsOK /\ RestOK
  BY TypeParts
<1>1. CASE handleSlave(n, t)
  <2>1. NcsTypeOK' /\ UNCHANGED issued
    BY <1>0, <1>1, HaType, NcsUnchanged DEF handleSlave
  <2>2. ThreadsOK'
    BY <1>0, <1>1, <2>1 DEF handleSlave, ThreadsOK, locals
  <2>3. \E s \in {"enslaved", "idle"} : request' = [request EXCEPT ![n][t] = s]
    BY <1>1 DEF handleSlave
  <2>4. request' \in [Node -> [Thread -> RequestState]]
    BY <2>3 DEF TypeOK, RequestState
  <2>5. RestOK'
    BY <1>0, <1>1, <2>1, <2>4 DEF handleSlave, RestOK, service, saved, bounds, faults
  <2> QED BY <2>1, <2>2, <2>5, TypeParts
<1>2. CASE answerSlave(n, t)
  <2>1. NcsTypeOK' /\ UNCHANGED issued
    BY <1>0, <1>2, NcsUnchanged DEF answerSlave
  <2>2. ThreadsOK'
    BY <1>0, <1>2, <2>1 DEF answerSlave, ThreadsOK, locals
  <2>3. \E s \in {"answered", "idle"} : request' = [request EXCEPT ![n][t] = s]
    BY <1>2 DEF answerSlave
  <2>4. request' \in [Node -> [Thread -> RequestState]]
    BY <2>3 DEF TypeOK, RequestState
  <2>5. vips' \in [Node -> BOOLEAN]
    BY <1>2 DEF answerSlave, TypeOK
  <2>6. RestOK'
    BY <1>0, <1>2, <2>1, <2>4, <2>5 DEF answerSlave, RestOK, service, saved, bounds, faults
  <2> QED BY <2>1, <2>2, <2>6, TypeParts
<1> QED BY <1>1, <1>2 DEF HandlerStep

\* The start of a controller, its acceptor and its reconnectors keep the types.
LEMMA ControllerType ==
  ASSUME TypeOK, NEW n \in Node, Controller(n)
  PROVE  TypeOK'
<1>0. NcsTypeOK /\ ThreadsOK /\ RestOK
  BY TypeParts
<1>1. CASE start(n)
  <2>1. NcsTypeOK' /\ UNCHANGED issued
    BY <1>0, <1>1 DEF start, NcsTypeOK
  <2>2. ThreadsOK'
    <3>1. <<>> \in Seq(Step) /\ <<"initialDetermination">> \in Seq(Step)
      BY DEF Step
    <3> QED BY <1>0, <1>1, <2>1, <3>1 DEF start, ThreadsOK
  <2>3. RestOK'
    BY <1>0, <1>1, <2>1, RequestsWithoutType DEF start, RestOK, bounds, faults
  <2> QED BY <2>1, <2>2, <2>3, TypeParts
<1>2. CASE acceptHARemoteConnections(n)
  <2>1. NcsTypeOK' /\ UNCHANGED issued
    BY <1>0, <1>2, NcsUnchanged DEF acceptHARemoteConnections
  <2>2. ThreadsOK'
    BY <1>0, <1>2, <2>1 DEF acceptHARemoteConnections, ThreadsOK, locals
  <2>3. RestOK'
    BY <1>0, <1>2, <2>1 DEF acceptHARemoteConnections, RestOK, saved, bounds, faults
  <2> QED BY <2>1, <2>2, <2>3, TypeParts
<1>3. ASSUME NEW r \in Reconnector, reConnected(n, r)
      PROVE  TypeOK'
  <2>1. NcsTypeOK' /\ UNCHANGED issued
    BY <1>0, <1>3, NcsUnchanged DEF reConnected
  <2>2. ThreadsOK'
    BY <1>3, <2>1, ThreadType, EvaluateType DEF reConnected
  <2>3. timeouts' \in 0..MaxTimeouts
    BY <1>3, RequestType DEF reConnected
  <2>4. RestOK'
    BY <1>0, <1>3, <2>1, <2>3 DEF reConnected, RestOK, service, saved, faults
  <2> QED BY <2>1, <2>2, <2>4, TypeParts
<1> QED BY <1>1, <1>2, <1>3, AppStepType, ThreadStepType, HandlerStepType DEF Controller

\* What happens around the controllers keeps the types.
LEMMA EnvironmentType ==
  ASSUME TypeOK, Environment
  PROVE  TypeOK'
<1>0. NcsTypeOK /\ ThreadsOK /\ RestOK
  BY TypeParts
<1>1. ASSUME NEW n \in Node, commit(n)
      PROVE  TypeOK'
  <2>1. NcsTypeOK' /\ issued \in Nat /\ issued' = issued + 1
    BY <1>0, <1>1, CommitType DEF commit
  <2>2. \A x \in {NoTxId} \union 0..issued : x \in {NoTxId} \union 0..issued'
    BY <2>1
  <2>3. ThreadsOK'
    BY <1>0, <1>1, <2>2 DEF commit, ThreadsOK, ctlVars, locals
  <2>4. RestOK'
    BY <1>0, <1>1, <2>2 DEF commit, RestOK, ctlVars, service, saved, bounds, faults
  <2> QED BY <2>1, <2>3, <2>4, TypeParts
<1>2. ASSUME NEW n \in Node, crash(n)
      PROVE  TypeOK'
  <2>1. ha' \in [Node -> HaState] /\ notif' \in [Node -> Seq(HaInfo)]
    BY <1>0, <1>2, WithoutType DEF crash
  <2>2. NcsTypeOK' /\ UNCHANGED issued
    BY <1>0, <1>2, <2>1 DEF crash, NcsTypeOK
  <2>3. ThreadsOK'
    BY <1>0, <1>2, <2>2 DEF crash, ThreadsOK
  <2>4. crashes' \in 0..MaxCrashes
    BY <1>0, <1>2, BoundsNat DEF crash, RestOK
  <2>5. disk' \in [Node -> {NoTxId} \union 0..issued]
    <3>1. CASE UNCHANGED disk
      BY <1>0, <3>1 DEF RestOK
    <3>2. CASE disk' = [disk EXCEPT ![n] = NoTxId]
      BY <1>0, <3>2 DEF RestOK
    <3> QED BY <1>2, <3>1, <3>2 DEF crash
  <2>6. RestOK'
    BY <1>0, <1>2, <2>2, <2>4, <2>5, RequestsWithoutType DEF crash, RestOK
  <2> QED BY <2>2, <2>3, <2>6, TypeParts
<1>3. ASSUME NEW n \in Node, finish(n)
      PROVE  TypeOK'
  <2>1. NcsTypeOK' /\ UNCHANGED issued
    BY <1>0, <1>3 DEF finish, NcsTypeOK
  <2>2. ThreadsOK'
    BY <1>0, <1>3, <2>1 DEF finish, ThreadsOK, locals
  <2>3. stops' \in 0..MaxStops
    BY <1>0, <1>3, BoundsNat DEF finish, RestOK
  <2>4. request' \in [Node -> [Thread -> RequestState]]
    BY <1>0, <1>3 DEF finish, RestOK, RequestState
  <2>5. RestOK'
    BY <1>0, <1>3, <2>1, <2>3, <2>4 DEF finish, RestOK, saved
  <2> QED BY <2>1, <2>2, <2>5, TypeParts
<1>4. CASE loseLink
  <2>1. NcsTypeOK' /\ UNCHANGED issued
    BY <1>0, <1>4, LinkType DEF loseLink
  <2>2. ThreadsOK'
    BY <1>0, <1>4, <2>1 DEF loseLink, ThreadsOK, ctlVars, locals
  <2>3. drops' \in 0..MaxDrops
    BY <1>0, <1>4, BoundsNat DEF loseLink, RestOK
  <2>4. RestOK'
    BY <1>0, <1>4, <2>1, <2>3 DEF loseLink, RestOK, ctlVars, service, saved
  <2> QED BY <2>1, <2>2, <2>4, TypeParts
<1>5. CASE restoreLink
  <2>1. NcsTypeOK' /\ UNCHANGED issued
    BY <1>0, <1>5, LinkType DEF restoreLink
  <2>2. ThreadsOK'
    BY <1>0, <1>5, <2>1 DEF restoreLink, ThreadsOK, ctlVars, locals
  <2>3. RestOK'
    BY <1>0, <1>5, <2>1 DEF restoreLink, RestOK, ctlVars, service, saved, bounds, faults
  <2> QED BY <2>1, <2>2, <2>3, TypeParts
<1> QED BY <1>1, <1>2, <1>3, <1>4, <1>5 DEF Environment

\* A step in which nothing changes keeps the types.
LEMMA StutterType ==
  ASSUME TypeOK, UNCHANGED vars
  PROVE  TypeOK'
<1>0. NcsTypeOK /\ ThreadsOK /\ RestOK
  BY TypeParts
<1>1. NcsTypeOK' /\ UNCHANGED issued
  BY <1>0, NcsUnchanged DEF vars
<1>2. ThreadsOK'
  BY <1>0, <1>1 DEF ThreadsOK, vars, ctlVars, locals
<1>3. RestOK'
  BY <1>0, <1>1 DEF RestOK, vars, ctlVars, service, saved, bounds, faults
<1> QED BY <1>1, <1>2, <1>3, TypeParts

\* The initial state has the types.
LEMMA InitType == Init => TypeOK
<1> SUFFICES ASSUME Init PROVE TypeOK
  OBVIOUS
<1>1. NcsTypeOK
  BY MaxCommitsNat DEF Init, NcsInit, NcsTypeOK, HaState
<1>2. ThreadsOK
  BY DEF Init, ThreadsOK
<1>3. RestOK
  BY BoundsNat DEF Init, RestOK, RequestState
<1> QED BY <1>1, <1>2, <1>3 DEF TypeOK, ThreadsOK, RestOK

\* The controllers keep every variable in its type, whatever happens to the
\* hosts and the network: no thread ever reaches a fifth condition of
\* reConciliation, and no saved or read transaction id is one never issued.
THEOREM TypeCorrect == Spec => []TypeOK
<1>1. TypeOK /\ [Next]_vars => TypeOK'
  BY ControllerType, EnvironmentType, StutterType DEF Next
<1> QED BY InitType, <1>1, PTL DEF Spec

--------------------------------------------------------------------------------
(* The shape of what threads have left to do.                                 *)

\* A read of the id is followed by its write, and only a preferred master has
\* a reconnector to start.
WellFormed(n, s) ==
  \A i \in 1..Len(s) :
    /\ s[i] = "getTxId" => i + 1 \in 1..Len(s) /\ s[i + 1] = "writeTxId"
    /\ s[i] = "execute" => n \in PreferredMasters

Shape == \A n \in Node, t \in Thread : WellFormed(n, todo[n][t])

\* Concatenation and Tail keep the shape.
LEMMA WellFormedSeq ==
  ASSUME NEW n \in Node
  PROVE  /\ \A s, u \in Seq(Step) : WellFormed(n, s) /\ WellFormed(n, u) => WellFormed(n, s \o u)
         /\ \A s \in Seq(Step) : s # <<>> /\ WellFormed(n, s) => WellFormed(n, Tail(s))
<1>1. ASSUME NEW s \in Seq(Step), NEW u \in Seq(Step), WellFormed(n, s), WellFormed(n, u)
      PROVE  WellFormed(n, s \o u)
  <2> SUFFICES ASSUME NEW i \in 1..Len(s \o u)
               PROVE  /\ (s \o u)[i] = "getTxId" => /\ i + 1 \in 1..Len(s \o u)
                                                    /\ (s \o u)[i + 1] = "writeTxId"
                      /\ (s \o u)[i] = "execute" => n \in PreferredMasters
    BY DEF WellFormed
  <2>1. Len(s \o u) = Len(s) + Len(u) /\ Len(s) \in Nat /\ Len(u) \in Nat
    OBVIOUS
  <2>2. \A j \in 1..Len(s) : (s \o u)[j] = s[j]
    OBVIOUS
  <2>3. \A j \in 1..Len(u) : (s \o u)[Len(s) + j] = u[j]
    OBVIOUS
  <2>4. CASE i \in 1..Len(s)
    <3>1. s[i] = "getTxId" => i + 1 \in 1..Len(s) /\ s[i + 1] = "writeTxId"
      BY <1>1, <2>4 DEF WellFormed
    <3>2. s[i] = "execute" => n \in PreferredMasters
      BY <1>1, <2>4 DEF WellFormed
    <3> QED BY <2>1, <2>2, <2>4, <3>1, <3>2
  <2>5. CASE i \notin 1..Len(s)
    <3> DEFINE j == i - Len(s)
    <3>1. j \in 1..Len(u) /\ i = Len(s) + j
      BY <2>1, <2>5
    <3>2. (s \o u)[i] = u[j]
      BY <2>3, <3>1
    <3>3. u[j] = "getTxId" => j + 1 \in 1..Len(u) /\ u[j + 1] = "writeTxId"
      BY <1>1, <3>1 DEF WellFormed
    <3>4. u[j] = "execute" => n \in PreferredMasters
      BY <1>1, <3>1 DEF WellFormed
    <3>5. j + 1 \in 1..Len(u) => i + 1 \in 1..Len(s \o u) /\ (s \o u)[i + 1] = u[j + 1]
      <4>1. i + 1 = Len(s) + (j + 1)
        BY <2>1, <3>1
      <4> HIDE DEF j
      <4> QED BY <2>1, <2>3, <3>1, <4>1
    <3> HIDE DEF j
    <3> QED BY <3>2, <3>3, <3>4, <3>5
  <2> QED BY <2>4, <2>5
<1>2. ASSUME NEW s \in Seq(Step), s # <<>>, WellFormed(n, s)
      PROVE  WellFormed(n, Tail(s))
  <2>1. Len(Tail(s)) = Len(s) - 1 /\ Len(s) \in Nat /\ \A i \in 1..Len(Tail(s)) : Tail(s)[i] = s[i + 1]
    BY <1>2
  <2> QED BY <1>2, <2>1 DEF WellFormed
<1> QED BY <1>1, <1>2

\* A short sequence that reads no id and starts no reconnector has the shape.
LEMMA WellFormedShort ==
  ASSUME NEW n \in Node
  PROVE  /\ WellFormed(n, <<>>)
         /\ \A x \in Step \ {"getTxId", "execute"} : WellFormed(n, <<x>>)
         /\ \A x, y \in Step \ {"getTxId", "execute"} : WellFormed(n, <<x, y>>)
BY DEF WellFormed

\* Every method body has the shape.
LEMMA BodiesWellFormed ==
  ASSUME NEW n \in Node
  PROVE  /\ WellFormed(n, beMaster) /\ WellFormed(n, beNone) /\ WellFormed(n, beSlave)
         /\ WellFormed(n, saveTxId)
         /\ WellFormed(n, masterDown(n)) /\ WellFormed(n, slaveDown(n))
         /\ \A k \in 1..4 : WellFormed(n, reConciliationCase(n, k))
<1>1. /\ WellFormed(n, beMaster) /\ WellFormed(n, beNone) /\ WellFormed(n, beSlave)
      /\ WellFormed(n, remoteBeMaster) /\ WellFormed(n, remoteBeSlave)
  BY WellFormedShort DEF beMaster, beNone, beSlave, remoteBeMaster, remoteBeSlave, Step
<1>2. WellFormed(n, saveTxId)
  BY DEF WellFormed, saveTxId
<1>3. n \in PreferredMasters => WellFormed(n, <<"execute">>) /\ <<"execute">> \in Seq(Step)
  BY DEF WellFormed, Step
<1>4. WellFormed(n, haNodeDown(n))
  BY <1>2, <1>3, BodiesType, WellFormedSeq DEF haNodeDown
<1>5. WellFormed(n, masterDown(n)) /\ WellFormed(n, slaveDown(n))
  BY <1>1, <1>4, BodiesType, WellFormedSeq DEF masterDown, slaveDown
<1>6. ASSUME NEW k \in 1..4 PROVE WellFormed(n, reConciliationCase(n, k))
  <2>1. CASE k = 1
    BY <2>1, WellFormedShort DEF reConciliationCase
  <2>2. CASE k = 2
    BY <2>2, <1>1, BodiesType, WellFormedSeq DEF reConciliationCase
  <2>3. CASE k = 3
    <3>1. WellFormed(n, remoteBeMaster \o beNone) /\ remoteBeMaster \o beNone \in Seq(Step)
      BY <1>1, BodiesType, SeqOfSteps, WellFormedSeq
    <3>2. WellFormed(n, (remoteBeMaster \o beNone) \o beSlave)
      BY <1>1, <3>1, BodiesType, WellFormedSeq
    <3> QED BY <2>3, <3>2 DEF reConciliationCase
  <2>4. CASE k = 4
    BY <2>4, <1>1, BodiesType, WellFormedSeq DEF reConciliationCase
  <2> QED BY <2>1, <2>2, <2>3, <2>4
<1> QED BY <1>1, <1>2, <1>5, <1>6

\* Only thread t of n moves on, to a sequence that has the shape.
Sets(n, t) ==
  /\ \A m \in Node, u \in Thread : m # n \/ u # t => todo'[m][u] = todo[m][u]
  /\ WellFormed(n, todo'[n][t])

\* A thread that turns to a well-formed sequence changes only what Sets allows.
LEMMA SetsDo ==
  ASSUME TypeOK, NEW n \in Node, NEW t \in Thread, NEW steps \in Seq(Step),
         WellFormed(n, steps), Do(n, t, steps) \/ Leave(n, t, steps)
  PROVE  Sets(n, t)
<1>1. todo' = [todo EXCEPT ![n][t] = steps]
  BY DEF Do, Leave
<1>2. \A m \in Node, u \in Thread : m # n \/ u # t => todo'[m][u] = todo[m][u]
  BY <1>1 DEF TypeOK
<1>3. todo'[n][t] = steps
  BY <1>1 DEF TypeOK
<1> QED BY <1>2, <1>3 DEF Sets

\* So does a thread that goes on to its next step ...
LEMMA SetsProceed ==
  ASSUME TypeOK, Shape, NEW n \in Node, NEW t \in Thread, NEW step, At(n, t, step), Proceed(n, t)
  PROVE  Sets(n, t)
<1>1. todo[n][t] \in Seq(Step) /\ todo[n][t] # <<>> /\ WellFormed(n, todo[n][t])
  BY DEF TypeOK, At, Shape
<1>2. Tail(todo[n][t]) \in Seq(Step) /\ WellFormed(n, Tail(todo[n][t]))
  BY <1>1, SeqOfSteps, WellFormedSeq
<1> QED BY <1>2, SetsDo DEF Proceed

\* ... that turns to a condition ...
LEMMA SetsEvaluate ==
  ASSUME TypeOK, NEW n \in Node, NEW t \in Thread, NEW k, Evaluate(n, t, k)
  PROVE  Sets(n, t)
<1>1. WellFormed(n, <<"localTxDiff">>)
  BY WellFormedShort DEF Step
<1>2. \A m \in Node, u \in Thread : m # n \/ u # t => todo'[m][u] = todo[m][u]
  BY DEF TypeOK, Evaluate
<1>3. todo'[n][t] = <<"localTxDiff">>
  BY DEF TypeOK, Evaluate
<1> QED BY <1>1, <1>2, <1>3 DEF Sets

\* ... that goes on to the next condition ...
LEMMA SetsNextRound ==
  ASSUME TypeOK, NEW n \in Node, NEW t \in Thread, NextRound(n, t)
  PROVE  Sets(n, t)
BY SetsEvaluate, SetsDo, BodiesType, WellFormedShort DEF NextRound

\* ... that throws an exception ...
LEMMA SetsThrow ==
  ASSUME TypeOK, NEW n \in Node, NEW t \in Thread, Throw(n, t)
  PROVE  Sets(n, t) /\ \A m \in Node : app[m] = "off" => app'[m] = "off"
<1>1. /\ <<>> \in Seq(Step) /\ WellFormed(n, <<>>)
      /\ <<"reconnect">> \in Seq(Step) /\ WellFormed(n, <<"reconnect">>)
  BY WellFormedShort DEF Step
<1>2. Sets(n, t)
  BY <1>1, SetsDo DEF Throw
<1>3. \A m \in Node : app[m] = "off" => app'[m] = "off"
  BY DEF Throw, TypeOK
<1> QED BY <1>2, <1>3

\* ... and that has the answer of HARemoteNode.txDiff.
LEMMA SetsRemoteTxDiff ==
  ASSUME TypeOK, NEW n \in Node, NEW t \in Thread, NEW diff, RemoteTxDiffIs(n, t, diff)
  PROVE  Sets(n, t)
<1>1. /\ <<"determinationByTxId">> \in Seq(Step) /\ WellFormed(n, <<"determinationByTxId">>)
      /\ <<"remoteHaStatus">> \in Seq(Step) /\ WellFormed(n, <<"remoteHaStatus">>)
  BY WellFormedShort DEF Step
<1>2. round[n][t] \in 0..4
  BY DEF TypeOK
<1>3. CASE round[n][t] = 0
  BY <1>1, <1>3, SetsDo DEF RemoteTxDiffIs
<1>4. CASE round[n][t] # 0 /\ diff = RemoteDiffIn(round[n][t])
  <2>1. /\ reConciliationCase(n, round[n][t]) \in Seq(Step)
        /\ WellFormed(n, reConciliationCase(n, round[n][t]))
    <3>1. round[n][t] \in 1..4
      BY <1>2, <1>4
    <3>2. reConciliationCase(n, round[n][t]) \in Seq(Step)
      BY <3>1, BodiesType
    <3>3. WellFormed(n, reConciliationCase(n, round[n][t]))
      BY <3>1, BodiesWellFormed
    <3> QED BY <3>2, <3>3
  <2>2. Leave(n, t, reConciliationCase(n, round[n][t]))
    BY <1>4 DEF RemoteTxDiffIs
  <2> QED BY <2>1, <2>2, SetsDo
<1>5. CASE round[n][t] # 0 /\ diff # RemoteDiffIn(round[n][t])
  BY <1>5, SetsNextRound DEF RemoteTxDiffIs
<1> QED BY <1>3, <1>4, <1>5

\* What an ordinary step of thread t of n leaves alone.
Frame(n, t) ==
  /\ Sets(n, t)
  /\ UNCHANGED saved
  /\ ~At(n, t, "writeTxId")
  /\ t # App => todo[n][t] # <<>>
  /\ \A m \in Node : app[m] = "off" => app'[m] = "off"
  /\ \A m \in Node, u \in Thread : m # Peer(n) \/ u # t => request'[m][u] = request[m][u]

\* The steps all threads share change one thread, and no saved id.
LEMMA ThreadStepFrame ==
  ASSUME TypeOK, Shape, NEW n \in Node, NEW t \in Thread, ThreadStep(n, t)
  PROVE  Frame(n, t)
<1>1. \E x \in Step \ {"writeTxId"} : At(n, t, x)
  BY DEF ThreadStep, localTxDiff, remoteEventTxId, remoteTxId, haMaster, haNone, haSlave,
         initializeAvailableVips, destroyVips, callMaster, callSlave, awaitSlave, Step
<1>2. ~At(n, t, "writeTxId") /\ todo[n][t] # <<>>
  BY <1>1 DEF At
<1>3. UNCHANGED saved
  BY DEF ThreadStep, localTxDiff, remoteEventTxId, remoteTxId, haMaster, haNone, haSlave,
         initializeAvailableVips, destroyVips, callMaster, callSlave, awaitSlave
<1>4. Sets(n, t) /\ \A m \in Node : app[m] = "off" => app'[m] = "off"
  <2>1. CASE localTxDiff(n, t)
    <3>1. /\ <<"determinationByTxId">> \in Seq(Step) /\ WellFormed(n, <<"determinationByTxId">>)
          /\ <<"remoteEventTxId">> \in Seq(Step) /\ WellFormed(n, <<"remoteEventTxId">>)
      BY WellFormedShort DEF Step
    <3>2. CASE NextRound(n, t)
      BY <2>1, <3>2, SetsNextRound DEF localTxDiff, service
    <3>3. CASE \E steps \in Seq(Step) : WellFormed(n, steps) /\ Do(n, t, steps)
      BY <2>1, <3>3, SetsDo DEF localTxDiff, service
    <3> QED BY <2>1, <3>1, <3>2, <3>3 DEF localTxDiff
  <2>2. CASE Throw(n, t)
    BY <2>2, SetsThrow
  <2>3. CASE remoteEventTxId(n, t) /\ ~Throw(n, t)
    <3>1. CASE RemoteTxDiffIs(n, t, FALSE)
      BY <2>3, <3>1, SetsRemoteTxDiff DEF remoteEventTxId, service
    <3>2. CASE ~RemoteTxDiffIs(n, t, FALSE)
      <4>1. todo' = [todo EXCEPT ![n][t] = <<"remoteTxId">>] /\ UNCHANGED app
        BY <2>3, <3>2 DEF remoteEventTxId, service
      <4>2. WellFormed(n, <<"remoteTxId">>)
        BY WellFormedShort DEF Step
      <4>3. /\ \A m \in Node, u \in Thread : m # n \/ u # t => todo'[m][u] = todo[m][u]
            /\ todo'[n][t] = <<"remoteTxId">>
        BY <4>1 DEF TypeOK
      <4> QED BY <4>1, <4>2, <4>3 DEF Sets
    <3> QED BY <3>1, <3>2
  <2>4. CASE remoteTxId(n, t) /\ ~Throw(n, t)
    BY <2>4, SetsRemoteTxDiff DEF remoteTxId, service
  <2>5. CASE \/ haMaster(n, t) \/ haNone(n, t) \/ initializeAvailableVips(n, t) \/ destroyVips(n, t)
    BY <2>5, SetsProceed DEF haMaster, haNone, initializeAvailableVips, destroyVips, service
  <2>6. CASE /\ ~Throw(n, t)
             /\ haSlave(n, t) \/ callMaster(n, t) \/ callSlave(n, t) \/ awaitSlave(n, t)
    <3>1. Proceed(n, t) /\ UNCHANGED app
      BY <2>6 DEF haSlave, callMaster, callSlave, awaitSlave, service
    <3> QED BY <1>1, <3>1, SetsProceed
  <2> QED BY <2>1, <2>2, <2>3, <2>4, <2>5, <2>6 DEF ThreadStep
<1>5. \A m \in Node, u \in Thread : m # Peer(n) \/ u # t => request'[m][u] = request[m][u]
  <2>1. \/ UNCHANGED request
        \/ \E x \in RequestState : request' = [request EXCEPT ![Peer(n)][t] = x]
    BY DEF ThreadStep, localTxDiff, remoteEventTxId, remoteTxId, haMaster, haNone, haSlave,
           initializeAvailableVips, destroyVips, callMaster, callSlave, awaitSlave, RequestState
  <2>2. ASSUME NEW x \in RequestState, request' = [request EXCEPT ![Peer(n)][t] = x]
        PROVE  \A m \in Node, u \in Thread : m # Peer(n) \/ u # t => request'[m][u] = request[m][u]
    BY <2>2, PeerType DEF TypeOK
  <2> QED BY <2>1, <2>2
<1> QED BY <1>2, <1>3, <1>4, <1>5 DEF Frame

\* The same for the steps of the application's own thread, but for those that
\* save the id and that start a reconnector.
LEMMA AppStepFrame ==
  ASSUME TypeOK, Shape, NEW n \in Node,
         \/ initialDetermination(n) \/ determinationByTxId(n)
         \/ remoteHaStatus(n) \/ localHaStatus(n) \/ haEvent(n)
  PROVE  Frame(n, App)
<1>a. App \in Thread
  BY ThreadType
<1>1. ~At(n, App, "writeTxId")
  BY DEF initialDetermination, determinationByTxId, remoteHaStatus, localHaStatus, haEvent, At
<1>2. UNCHANGED saved /\ UNCHANGED request
  BY DEF initialDetermination, determinationByTxId, remoteHaStatus, localHaStatus, haEvent
<1>3. Sets(n, App) /\ \A m \in Node : app[m] = "off" => app'[m] = "off"
  <2>1. CASE initialDetermination(n)
    <3>1. saveTxId \o beMaster \in Seq(Step) /\ WellFormed(n, saveTxId \o beMaster)
      BY BodiesType, SeqOfSteps, BodiesWellFormed, WellFormedSeq
    <3>2. CASE Evaluate(n, App, 0)
      BY <1>a, <2>1, <3>2, SetsEvaluate DEF initialDetermination, service
    <3>3. CASE Do(n, App, saveTxId \o beMaster)
      BY <1>a, <2>1, <3>1, <3>3, SetsDo DEF initialDetermination, service
    <3> QED BY <2>1, <3>2, <3>3 DEF initialDetermination
  <2>2. CASE determinationByTxId(n)
    <3>1. CASE Evaluate(n, App, 1)
      BY <1>a, <2>2, <3>1, SetsEvaluate DEF determinationByTxId, service
    <3>2. CASE Do(n, App, beMaster)
      BY <1>a, <2>2, <3>2, SetsDo, BodiesType, BodiesWellFormed DEF determinationByTxId, service
    <3> QED BY <2>2, <3>1, <3>2 DEF determinationByTxId
  <2>3. CASE remoteHaStatus(n)
    <3>1. CASE Throw(n, App)
      BY <1>a, <3>1, SetsThrow
    <3>2. CASE ~Throw(n, App)
      <4>1. /\ <<"initialDetermination">> \in Seq(Step) /\ WellFormed(n, <<"initialDetermination">>)
            /\ <<"localHaStatus">> \in Seq(Step) /\ WellFormed(n, <<"localHaStatus">>)
            /\ WellFormed(n, <<>>)
        BY WellFormedShort DEF Step
      <4>2. ha[Peer(n)] \in {"NONE", "MASTER", "SLAVE"}
        BY PeerType DEF TypeOK, NcsTypeOK, HaState
      <4>3. PICK steps \in Seq(Step) : WellFormed(n, steps) /\ Do(n, App, steps)
        BY <2>3, <3>2, <4>1, <4>2, BodiesType, BodiesWellFormed DEF remoteHaStatus
      <4> QED BY <1>a, <2>3, <3>2, <4>3, SetsDo DEF remoteHaStatus, service
    <3> QED BY <3>1, <3>2
  <2>4. CASE localHaStatus(n)
    <3>1. /\ beNone \o beSlave \in Seq(Step) /\ WellFormed(n, beNone \o beSlave)
          /\ WellFormed(n, <<>>)
      BY BodiesType, SeqOfSteps, BodiesWellFormed, WellFormedSeq, WellFormedShort
    <3>2. ha[n] \in {"NONE", "MASTER", "SLAVE"}
      BY DEF TypeOK, NcsTypeOK, HaState
    <3>3. PICK steps \in Seq(Step) : WellFormed(n, steps) /\ Do(n, App, steps)
      BY <2>4, <3>1, <3>2, BodiesType, BodiesWellFormed DEF localHaStatus
    <3> QED BY <1>a, <2>4, <3>3, SetsDo DEF localHaStatus, service
  <2>5. CASE haEvent(n)
    <3>1. Head(notif[n]) \in HaInfo
      BY <2>5 DEF haEvent, TypeOK, NcsTypeOK
    <3>2. PICK steps \in Seq(Step) : WellFormed(n, steps) /\ Do(n, App, steps)
      BY <2>5, <3>1, BodiesType, BodiesWellFormed DEF haEvent, HaInfo
    <3> QED BY <1>a, <2>5, <3>2, SetsDo DEF haEvent, service
  <2> QED BY <2>1, <2>2, <2>3, <2>4, <2>5
<1> QED BY <1>1, <1>2, <1>3 DEF Frame

\* A reconnector that finds the peer only turns to reConciliation.
LEMMA ReConnectedFrame ==
  ASSUME TypeOK, Shape, NEW n \in Node, NEW r \in Reconnector, reConnected(n, r)
  PROVE  Frame(n, r)
<1>1. r \in Thread
  BY ThreadType
<1>2. Sets(n, r)
  BY <1>1, SetsEvaluate DEF reConnected
<1> QED BY <1>2 DEF reConnected, Frame, At, service

\* Nothing happens to threads, saved ids and requests.
Quiet == UNCHANGED <<todo, saved, request>> /\ \A m \in Node : app[m] = "off" => app'[m] = "off"

\* Every step is an ordinary step of one thread, or one of these.
LEMMA StepKinds ==
  ASSUME TypeOK, Shape, [Next]_vars
  PROVE  \/ \E n \in Node, t \in Thread : Frame(n, t) \/ HandlerStep(n, t)
         \/ \E n \in Node : \/ getTxId(n) \/ writeTxId(n) \/ execute(n)
                            \/ start(n) \/ crash(n) \/ finish(n)
         \/ Quiet
<1>1. ASSUME NEW n \in Node, Controller(n)
      PROVE  \/ \E t \in Thread : Frame(n, t) \/ HandlerStep(n, t)
             \/ getTxId(n) \/ writeTxId(n) \/ execute(n) \/ start(n)
             \/ Quiet
  <2>1. CASE AppStep(n)
    BY <2>1, AppStepFrame, ThreadType DEF AppStep
  <2>2. CASE \E t \in Thread : ThreadStep(n, t) \/ HandlerStep(n, t)
    BY <2>2, ThreadStepFrame
  <2>3. CASE \E r \in Reconnector : reConnected(n, r)
    BY <2>3, ReConnectedFrame, ThreadType
  <2>4. CASE acceptHARemoteConnections(n)
    BY <2>4 DEF acceptHARemoteConnections, Quiet
  <2> QED BY <1>1, <2>1, <2>2, <2>3, <2>4 DEF Controller
<1>2. ASSUME Environment
      PROVE  (\E n \in Node : crash(n) \/ finish(n)) \/ Quiet
  <2>1. CASE \E n \in Node : commit(n)
    BY <2>1 DEF commit, Quiet, ctlVars, service
  <2>2. CASE loseLink \/ restoreLink
    BY <2>2 DEF loseLink, restoreLink, Quiet, ctlVars, service
  <2> QED BY <1>2, <2>1, <2>2 DEF Environment
<1>3. CASE UNCHANGED vars
  BY <1>3 DEF vars, ctlVars, service, Quiet
<1> QED BY <1>1, <1>2, <1>3 DEF Next

\* The shape is invariant.
LEMMA ShapeStep ==
  ASSUME TypeOK, Shape, [Next]_vars
  PROVE  Shape'
<1>a. App \in Thread
  BY ThreadType
<1>1. ASSUME NEW n \in Node, NEW t \in Thread, Sets(n, t)
      PROVE  Shape'
  BY <1>1 DEF Sets, Shape
<1>2. ASSUME NEW n \in Node, NEW t \in Thread, Frame(n, t)
      PROVE  Shape'
  BY <1>1, <1>2 DEF Frame
<1>3. ASSUME NEW n \in Node, getTxId(n) \/ writeTxId(n)
      PROVE  Shape'
  <2>1. Sets(n, App)
    BY <1>3, <1>a, SetsProceed DEF getTxId, writeTxId
  <2> QED BY <1>1, <1>a, <2>1
<1>4. ASSUME NEW n \in Node, execute(n)
      PROVE  Shape'
  <2>1. PICK r \in Reconnector :
          todo' = [todo EXCEPT ![n][App] = Tail(@), ![n][r] = <<"reconnect">>]
    BY <1>4 DEF execute
  <2>2. r \in Thread /\ r # App
    BY ThreadType
  <2>3. \A m \in Node, u \in Thread :
          todo'[m][u] = IF m = n /\ u = r THEN <<"reconnect">>
                        ELSE IF m = n /\ u = App THEN Tail(todo[n][App]) ELSE todo[m][u]
    BY <1>a, <2>1, <2>2 DEF TypeOK
  <2>4. WellFormed(n, <<"reconnect">>)
    BY WellFormedShort DEF Step
  <2>5. WellFormed(n, Tail(todo[n][App]))
    <3>1. todo[n][App] \in Seq(Step) /\ todo[n][App] # <<>> /\ WellFormed(n, todo[n][App])
      BY <1>4, <1>a DEF execute, At, TypeOK, Shape
    <3> QED BY <3>1, WellFormedSeq
  <2> QED BY <2>3, <2>4, <2>5 DEF Shape
<1>5. ASSUME NEW n \in Node, start(n)
      PROVE  Shape'
  <2>1. WellFormed(n, <<>>) /\ WellFormed(n, <<"initialDetermination">>)
    BY WellFormedShort DEF Step
  <2>2. \A m \in Node, u \in Thread :
          todo'[m][u] = IF m # n THEN todo[m][u]
                        ELSE IF u = App THEN <<"initialDetermination">> ELSE <<>>
    BY <1>5 DEF start, TypeOK
  <2> QED BY <2>1, <2>2 DEF Shape
<1>6. ASSUME NEW n \in Node, crash(n)
      PROVE  Shape'
  <2>1. \A m \in Node, u \in Thread : todo'[m][u] = IF m # n THEN todo[m][u] ELSE <<>>
    BY <1>6 DEF crash, TypeOK
  <2> QED BY <2>1, WellFormedShort DEF Shape
<1>7. CASE \/ Quiet \/ \E n \in Node : finish(n)
           \/ \E n \in Node, t \in Thread : HandlerStep(n, t)
  <2>1. UNCHANGED todo
    BY <1>7 DEF Quiet, finish, HandlerStep, handleSlave, answerSlave
  <2> QED BY <2>1 DEF Shape
<1> QED BY <1>2, <1>3, <1>4, <1>5, <1>6, <1>7, StepKinds

\* At the start no thread has anything to do.
LEMMA InitShape == Init => Shape
BY WellFormedShort DEF Init, Shape

--------------------------------------------------------------------------------
(* The saved id.                                                              *)

\* The saved id and its file stay equal outside saveTxId.
LEMMA PersistedStep ==
  ASSUME TypeOK, Shape, EventTxIdPersisted, [Next]_vars
  PROVE  EventTxIdPersisted'
<1>a. App \in Thread
  BY ThreadType
<1> SUFFICES ASSUME NEW m \in Node, app'[m] # "off", ~At(m, App, "writeTxId")'
             PROVE  disk'[m] = eventTxId'[m]
  BY DEF EventTxIdPersisted
<1>1. ASSUME app[m] # "off", ~At(m, App, "writeTxId"), UNCHANGED saved
      PROVE  disk'[m] = eventTxId'[m]
  BY <1>1 DEF EventTxIdPersisted, saved
<1>2. ASSUME NEW n \in Node, NEW t \in Thread, Frame(n, t)
      PROVE  disk'[m] = eventTxId'[m]
  <2>1. app[m] # "off" /\ UNCHANGED saved
    BY <1>2 DEF Frame
  <2>2. ~At(m, App, "writeTxId")
    <3>1. CASE m = n /\ t = App
      BY <1>2, <3>1 DEF Frame
    <3>2. CASE ~(m = n /\ t = App)
      BY <1>2, <1>a, <3>2 DEF Frame, Sets, At
    <3> QED BY <3>1, <3>2
  <2> QED BY <1>1, <2>1, <2>2
<1>3. ASSUME NEW n \in Node, getTxId(n)
      PROVE  disk'[m] = eventTxId'[m]
  <2>1. CASE m = n
    <3>1. todo[n][App] \in Seq(Step) /\ todo[n][App] # <<>> /\ todo[n][App][1] = "getTxId"
      <4>1. At(n, App, "getTxId")
        BY <1>3 DEF getTxId
      <4>2. todo[n][App] \in Seq(Step)
        BY <1>a DEF TypeOK
      <4>3. \A q \in Seq(Step) : q # <<>> => Head(q) = q[1]
        OBVIOUS
      <4> QED BY <4>1, <4>2, <4>3 DEF At
    <3>2. /\ 1 + 1 \in 1..Len(todo[n][App])
          /\ todo[n][App][1 + 1] = "writeTxId"
      BY <1>a, <3>1 DEF Shape, WellFormed
    <3>3. Tail(todo[n][App]) # <<>> /\ Head(Tail(todo[n][App])) = "writeTxId"
      <4> DEFINE s == todo[n][App]
      <4>1. s \in Seq(Step) /\ Len(s) \in Nat /\ Len(s) >= 2 /\ s[2] = "writeTxId"
        BY <3>1, <3>2
      <4> HIDE DEF s
      <4>2. Len(Tail(s)) = Len(s) - 1 /\ Tail(s)[1] = s[2] /\ Tail(s) \in Seq(Step)
        BY <4>1
      <4>3. \A q \in Seq(Step) : Len(q) > 0 => q # <<>> /\ Head(q) = q[1]
        OBVIOUS
      <4>4. Tail(s) # <<>> /\ Head(Tail(s)) = s[2]
        <5>1. Len(Tail(s)) > 0
          BY <4>1, <4>2
        <5> QED BY <4>2, <4>3, <5>1
      <4> QED BY <4>1, <4>4 DEF s
    <3>4. todo'[n][App] = Tail(todo[n][App])
      BY <1>3, <1>a DEF getTxId, Proceed, Do, TypeOK
    <3>5. At(m, App, "writeTxId")'
      BY <2>1, <3>3, <3>4 DEF At
    <3> QED BY <3>5
  <2>2. CASE m # n
    <3>1. /\ todo'[m][App] = todo[m][App] /\ app'[m] = app[m]
          /\ disk'[m] = disk[m] /\ eventTxId'[m] = eventTxId[m]
      BY <1>3, <1>a, <2>2 DEF getTxId, Proceed, Do, TypeOK, service
    <3> QED BY <3>1 DEF EventTxIdPersisted, At
  <2> QED BY <2>1, <2>2
<1>4. ASSUME NEW n \in Node, writeTxId(n)
      PROVE  disk'[m] = eventTxId'[m]
  <2>1. CASE m = n
    BY <1>4, <2>1 DEF writeTxId, TypeOK
  <2>2. CASE m # n
    <3>1. /\ todo'[m][App] = todo[m][App] /\ app'[m] = app[m]
          /\ disk'[m] = disk[m] /\ eventTxId'[m] = eventTxId[m]
      BY <1>4, <1>a, <2>2 DEF writeTxId, Proceed, Do, TypeOK, service
    <3> QED BY <3>1 DEF EventTxIdPersisted, At
  <2> QED BY <2>1, <2>2
<1>5. ASSUME NEW n \in Node, execute(n)
      PROVE  disk'[m] = eventTxId'[m]
  <2>1. app[m] # "off" /\ UNCHANGED saved
    BY <1>5 DEF execute, service
  <2>2. ~At(m, App, "writeTxId")
    <3>1. CASE m = n
      BY <1>5, <3>1 DEF execute, At
    <3>2. CASE m # n
      BY <1>5, <1>a, <3>2 DEF execute, At, TypeOK
    <3> QED BY <3>1, <3>2
  <2> QED BY <1>1, <2>1, <2>2
<1>6. ASSUME NEW n \in Node, start(n)
      PROVE  disk'[m] = eventTxId'[m]
  <2>1. CASE m = n
    BY <1>6, <2>1 DEF start, TypeOK
  <2>2. CASE m # n
    <3>1. /\ todo'[m][App] = todo[m][App] /\ app'[m] = app[m]
          /\ disk'[m] = disk[m] /\ eventTxId'[m] = eventTxId[m]
      BY <1>6, <2>2 DEF start, TypeOK
    <3> QED BY <3>1 DEF EventTxIdPersisted, At
  <2> QED BY <2>1, <2>2
<1>7. ASSUME NEW n \in Node, crash(n)
      PROVE  disk'[m] = eventTxId'[m]
  <2>1. m # n
    BY <1>7 DEF crash, TypeOK
  <2>2. /\ todo'[m][App] = todo[m][App] /\ app'[m] = app[m]
        /\ disk'[m] = disk[m] /\ eventTxId'[m] = eventTxId[m]
    BY <1>7, <2>1 DEF crash, TypeOK
  <2> QED BY <2>2 DEF EventTxIdPersisted, At
<1>8. ASSUME NEW n \in Node, finish(n)
      PROVE  disk'[m] = eventTxId'[m]
  <2>1. app[m] # "off" /\ UNCHANGED saved /\ UNCHANGED todo
    BY <1>8 DEF finish, TypeOK
  <2> QED BY <1>1, <2>1 DEF At
<1>9. CASE Quiet \/ \E n \in Node, t \in Thread : HandlerStep(n, t)
  <2>1. app[m] # "off" /\ UNCHANGED saved /\ UNCHANGED todo
    BY <1>9 DEF Quiet, HandlerStep, handleSlave, answerSlave, service
  <2> QED BY <1>1, <2>1 DEF At
<1> QED BY <1>2, <1>3, <1>4, <1>5, <1>6, <1>7, <1>8, <1>9, StepKinds

\* The txid file always holds what the running controller answers to
\* "eventtxid", but while the thread of the application is inside saveTxId.  It
\* holds because every path of the code that reads a new id (haNodeDown,
\* SLAVE_INITIALIZED, initialDetermination) goes on to write it: Shape.
THEOREM Persisted == Spec => []EventTxIdPersisted
<1>1. Init => EventTxIdPersisted
  BY DEF Init, EventTxIdPersisted
<1>2. TypeOK /\ Shape /\ EventTxIdPersisted /\ [Next]_vars => Shape' /\ EventTxIdPersisted'
  BY ShapeStep, PersistedStep
<1> QED BY TypeCorrect, InitShape, <1>1, <1>2, PTL DEF Spec

--------------------------------------------------------------------------------
(* Who reconnects.                                                            *)

\* No step starts a reconnector on a node that is not preferred.
LEMMA OnlyPreferredStep ==
  ASSUME TypeOK, Shape, OnlyPreferredReconnects, [Next]_vars
  PROVE  OnlyPreferredReconnects'
<1>a. App \in Thread
  BY ThreadType
<1> SUFFICES ASSUME NEW p \in Node \ PreferredMasters, NEW r \in Reconnector
             PROVE  todo'[p][r] = <<>> /\ request'[Peer(p)][r] = "idle"
  BY DEF OnlyPreferredReconnects
<1>b. /\ todo[p][r] = <<>> /\ request[Peer(p)][r] = "idle"
      /\ r \in Thread /\ r # App /\ Peer(p) \in Node
  BY ThreadType, PeerType DEF OnlyPreferredReconnects
<1>1. ASSUME NEW n \in Node, NEW t \in Thread, Frame(n, t)
      PROVE  todo'[p][r] = <<>> /\ request'[Peer(p)][r] = "idle"
  <2>1. ~(p = n /\ r = t)
    BY <1>1, <1>b DEF Frame
  <2>2. Peer(p) # Peer(n) \/ r # t
    BY <2>1, PeerType
  <2> QED BY <1>1, <1>b, <2>1, <2>2 DEF Frame, Sets
<1>2. ASSUME NEW n \in Node, NEW t \in Thread, HandlerStep(n, t)
      PROVE  todo'[p][r] = <<>> /\ request'[Peer(p)][r] = "idle"
  <2>1. UNCHANGED todo /\ request[n][t] # "idle"
    BY <1>2 DEF HandlerStep, handleSlave, answerSlave
  <2>2. ~(Peer(p) = n /\ r = t)
    BY <1>b, <2>1
  <2>3. \E s \in RequestState : request' = [request EXCEPT ![n][t] = s]
    BY <1>2 DEF HandlerStep, handleSlave, answerSlave, RequestState
  <2>4. request'[Peer(p)][r] = request[Peer(p)][r]
    <3>1. request \in [Node -> [Thread -> RequestState]]
      BY DEF TypeOK
    <3> QED BY <1>b, <2>2, <2>3, <3>1
  <2> QED BY <1>b, <2>1, <2>4
<1>3. ASSUME NEW n \in Node, getTxId(n) \/ writeTxId(n)
      PROVE  todo'[p][r] = <<>> /\ request'[Peer(p)][r] = "idle"
  <2>1. Sets(n, App) /\ UNCHANGED request
    BY <1>3, <1>a, SetsProceed DEF getTxId, writeTxId
  <2> QED BY <1>b, <2>1 DEF Sets
<1>4. ASSUME NEW n \in Node, execute(n)
      PROVE  todo'[p][r] = <<>> /\ request'[Peer(p)][r] = "idle"
  <2>1. todo[n][App] \in Seq(Step) /\ todo[n][App] # <<>> /\ todo[n][App][1] = "execute"
    <3>1. At(n, App, "execute")
      BY <1>4 DEF execute
    <3>2. todo[n][App] \in Seq(Step)
      BY <1>a DEF TypeOK
    <3>3. \A q \in Seq(Step) : q # <<>> => Head(q) = q[1]
      OBVIOUS
    <3> QED BY <3>1, <3>2, <3>3 DEF At
  <2>2. n \in PreferredMasters
    BY <1>a, <2>1 DEF Shape, WellFormed
  <2>3. p # n
    BY <2>2
  <2>4. todo'[p][r] = todo[p][r] /\ UNCHANGED request
    BY <1>4, <2>3, <1>b DEF execute, TypeOK
  <2> QED BY <1>b, <2>4
<1>5. ASSUME NEW n \in Node, start(n) \/ crash(n)
      PROVE  todo'[p][r] = <<>> /\ request'[Peer(p)][r] = "idle"
  <2>1. request' = RequestsWithout(n)
    BY <1>5 DEF start, crash
  <2>2. request'[Peer(p)][r] = "idle"
    BY <1>b, <2>1 DEF RequestsWithout
  <2>3. CASE start(n)
    BY <1>b, <2>2, <2>3 DEF start, TypeOK
  <2>4. CASE crash(n)
    BY <1>b, <2>2, <2>4 DEF crash, TypeOK
  <2> QED BY <1>5, <2>3, <2>4
<1>6. ASSUME NEW n \in Node, finish(n)
      PROVE  todo'[p][r] = <<>> /\ request'[Peer(p)][r] = "idle"
  BY <1>6, <1>b DEF finish, TypeOK
<1>7. CASE Quiet
  BY <1>7, <1>b DEF Quiet
<1> QED BY <1>1, <1>2, <1>3, <1>4, <1>5, <1>6, <1>7, StepKinds

\* A node that is not a preferred master never has a reconnector at work, nor
\* any request of one under way at the other node: haNodeDown asks before it
\* executes one, and reconnectors are started nowhere else.
THEOREM OnlyPreferred == Spec => []OnlyPreferredReconnects
<1>1. Init => OnlyPreferredReconnects
  BY ThreadType, PeerType DEF Init, OnlyPreferredReconnects
<1>2. TypeOK /\ Shape /\ OnlyPreferredReconnects /\ [Next]_vars
        => Shape' /\ OnlyPreferredReconnects'
  BY ShapeStep, OnlyPreferredStep
<1> QED BY TypeCorrect, InitShape, <1>1, <1>2, PTL DEF Spec

\* Types, the saved id and who reconnects, together, for every set of preferred
\* masters and every number of crashes, stops, losses and late answers.
THEOREM NodesSafe == Spec => []NodeSafe
<1>1. TypeOK /\ EventTxIdPersisted /\ OnlyPreferredReconnects => NodeSafe
  BY DEF NodeSafe
<1> QED BY TypeCorrect, Persisted, OnlyPreferred, <1>1, PTL
================================================================================
