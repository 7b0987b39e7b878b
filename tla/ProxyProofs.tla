------------------------------- MODULE ProxyProofs -------------------------------
(******************************************************************************)
(* Proofs about the proxy, for every number of slots, workers and clients:    *)
(* types; and, while there are fewer clients than slots, that no connection   *)
(* is lost and that the ring is a queue.                                      *)
(******************************************************************************)
EXTENDS Proxy, FiniteSetTheorems, SequenceTheorems, TLAPS

\* The clients cannot fill the ring.
Roomy == Cardinality(Client) < MAXNCLI

\* What the mutex protects is touched by its holder only.
Locked ==
  /\ mutex = Main <=> mainPc \in {"put", "advance", "signal", "unlock"}
  /\ \A w \in Worker :
       mutex = w <=> pc[w] \in {"test", "take", "advance", "unlock", "log", "unlockLog"}

\* The local variables of the threads agree with the ring.
Hands ==
  /\ mainFd # NoClient <=> mainPc \in {"lookup", "lock", "put", "advance"}
  /\ mainPc = "advance" => clifd[iput] = mainFd
  /\ \A w \in Worker :
       /\ pc[w] \in {"take", "advance"} => iget # iput
       /\ pc[w] = "advance" => fd[w] = clifd[iget]

\* The slots that hold a connection nobody has taken.
Filled == {i \in Slot : IF iget <= iput THEN iget <= i /\ i < iput
                                        ELSE iget <= i \/ i < iput}

\* A connection is in one place only ...
Distinct ==
  /\ \A i \in Filled : clifd[i] \in Client /\ clifd[i] # mainFd
  /\ \A i, j \in Filled : clifd[i] = clifd[j] => i = j
  /\ \A w \in Busy : fd[w] \in Client /\ fd[w] # mainFd
  /\ \A v, w \in Busy : fd[v] = fd[w] => v = w
  /\ \A i \in Filled, w \in Busy : clifd[i] # fd[w]

\* ... and in some place as long as it is open.
Held == open = {clifd[i] : i \in Filled} \union ({mainFd} \ {NoClient}) \union Serving

\* A client that waits in the backlog has no other connection.
Backlogged ==
  /\ \A k \in 1 .. Len(backlog) : backlog[k] \notin open
  /\ \A k, l \in 1 .. Len(backlog) : backlog[k] = backlog[l] => k = l

IInv == TypeOK /\ Locked /\ Hands /\ Distinct /\ Held /\ Backlogged

--------------------------------------------------------------------------------
\* The next slot is a slot.
LEMMA NextSlotType == \A i \in Slot : NextSlot(i) \in Slot
  BY SlotsAssumption DEF Slot, NextSlot

\* An exit of the process keeps the types of what it changes.
LEMMA ExitType ==
  TypeOK /\ Exit => running' \in BOOLEAN /\ failures' \in 0 .. MaxFailures
<1> SUFFICES ASSUME failures \in 0 .. MaxFailures, Exit
             PROVE  running' \in BOOLEAN /\ failures' \in 0 .. MaxFailures
  BY DEF TypeOK
<1>1. running' \in BOOLEAN
  BY Zenon DEF Exit
<1>2. failures' \in 0 .. MaxFailures
  BY BoundsAssumption, SMT DEF Exit
<1> QED BY <1>1, <1>2

\* Every step of main keeps the types.
LEMMA MainType == TypeOK /\ main => TypeOK'
<1> SUFFICES ASSUME TypeOK, main PROVE TypeOK'
  OBVIOUS
<1> USE SlotsAssumption, BoundsAssumption DEF TypeOK, MainPc, WorkerPc
<1>1. CASE Accept
  <2>1. Head(backlog) \in Client /\ Tail(backlog) \in Seq(Client)
    BY <1>1, HeadTailProperties DEF Accept
  <2> QED BY <1>1, <2>1 DEF Accept, MainGoes, ring, workerVars
<1>2. CASE Gethostbyaddr
  <2>1. CASE MainGoes("lookup", "lock") /\ UNCHANGED <<running, failures>>
    BY <1>2, <2>1 DEF Gethostbyaddr, MainGoes, outside, ring, workerVars
  <2>2. CASE Exit /\ UNCHANGED mainPc
    BY <1>2, <2>2, ExitType DEF Gethostbyaddr, outside, ring, workerVars
  <2> QED BY <1>2, <2>1, <2>2 DEF Gethostbyaddr
<1>3. CASE mainLock
  BY <1>3 DEF mainLock, MainGoes, outside, ring, workerVars
<1>4. CASE put
  BY <1>4 DEF put, MainGoes, outside, workerVars
<1>5. CASE advancePut
  BY <1>5, NextSlotType DEF advancePut, MainGoes, outside, workerVars
<1>6. CASE signal
  BY <1>6 DEF signal, Waiting, MainGoes, outside, ring
<1>7. CASE mainUnlock
  BY <1>7 DEF mainUnlock, MainGoes, outside, ring, workerVars
<1> QED BY <1>1, <1>2, <1>3, <1>4, <1>5, <1>6, <1>7 DEF main

\* Every step of a worker keeps the types.
LEMMA WorkerType == ASSUME NEW w \in Worker, TypeOK, thread_main(w) PROVE TypeOK'
<1> USE SlotsAssumption, BoundsAssumption DEF TypeOK, MainPc, WorkerPc
<1>1. CASE lock(w)
  BY <1>1 DEF lock, Goes, outside, ring, mainVars
<1>2. CASE unlock(w)
  BY <1>2 DEF unlock, Goes, outside, ring, mainVars
<1>3. CASE test(w)
  BY <1>3 DEF test, Goes, outside, ring, mainVars
<1>4. CASE wake(w)
  BY <1>4 DEF wake, Goes, outside, ring, mainVars
<1>5. CASE take(w)
  BY <1>5 DEF take, Goes, outside, ring, mainVars
<1>6. CASE advanceGet(w)
  BY <1>6, NextSlotType DEF advanceGet, Goes, outside, mainVars
<1>7. CASE read(w)
  BY <1>7 DEF read, Goes, outside, ring, mainVars
<1>8. CASE client(w)
  <2>1. CASE UNCHANGED <<running, failures>>
    BY <1>8, <2>1 DEF client, Goes, outside, ring, mainVars
  <2>2. CASE Exit /\ UNCHANGED pc
    BY <1>8, <2>2, ExitType DEF client, outside, ring, mainVars
  <2> QED BY <1>8, <2>1, <2>2 DEF client
<1>9. CASE format_log_entry(w)
  BY <1>9 DEF format_log_entry, Goes, outside, ring, mainVars
<1>10. CASE Close(w)
  BY <1>10 DEF Close, Goes, ring, mainVars
<1> QED BY <1>1, <1>2, <1>3, <1>4, <1>5, <1>6, <1>7, <1>8, <1>9, <1>10 DEF thread_main

\* The clients keep the types.
LEMMA ClientType == ASSUME NEW c \in Client, TypeOK, connect(c) \/ abort(c) PROVE TypeOK'
<1> USE BoundsAssumption DEF TypeOK
<1>1. CASE connect(c)
  BY <1>1, AppendProperties DEF connect, ring, mainVars, workerVars
<1>2. CASE abort(c)
  BY <1>2 DEF abort, ring, mainVars, workerVars
<1> QED BY <1>1, <1>2

\* The initial state has the types.
LEMMA InitType == Init => TypeOK
  BY SlotsAssumption, BoundsAssumption DEF Init, TypeOK, Slot, MainPc, WorkerPc

\* A step in which nothing changes keeps the types.
LEMMA StutterType == TypeOK /\ UNCHANGED vars => TypeOK'
  BY DEF TypeOK, vars, outside, ring, mainVars, workerVars

\* Every reachable state has the types TypeOK gives: the indices stay in the
\* ring for every MAXNCLI, whatever main and the workers do.
THEOREM TypeCorrect == Spec => []TypeOK
<1>1. TypeOK /\ [Next]_vars => TypeOK'
  BY MainType, WorkerType, ClientType, StutterType DEF Next, Halted
<1> QED BY InitType, <1>1, PTL DEF Spec

--------------------------------------------------------------------------------
\* The places where connections are kept.
Places == <<ring, mainFd, fd, open, backlog>>

\* A step that moves no connection keeps each in its one place.
LEMMA NothingMoves ==
  ASSUME Distinct, Held, Backlogged, UNCHANGED Places, Busy' = Busy
  PROVE  (Distinct /\ Held /\ Backlogged)'
<1>1. Filled' = Filled
  BY DEF Places, ring, Filled
<1>2. Serving' = Serving
  BY DEF Places, Serving
<1>3. Distinct'
  BY <1>1 DEF Places, ring, Distinct
<1>4. Held'
  BY <1>1, <1>2 DEF Places, ring, Held
<1>5. Backlogged'
  BY DEF Places, Backlogged
<1> QED BY <1>3, <1>4, <1>5

\* The mutex passes from thread to thread, and main works as Hands says.
LEMMA MainLocked == TypeOK /\ Locked /\ Hands /\ main => Locked' /\ Hands'
<1> SUFFICES ASSUME TypeOK, Locked, Hands, main PROVE Locked' /\ Hands'
  OBVIOUS
<1> USE WorkerAssumption DEF TypeOK, Locked, Hands
<1>0. Free # Main
  BY DEF Free, Main
<1>1. CASE Accept
  <2>1. Head(backlog) \in Client
    BY <1>1, HeadTailProperties DEF Accept
  <2> QED BY <1>1, <2>1, ClientAssumption DEF Accept, MainGoes, ring, workerVars
<1>2. CASE Gethostbyaddr
  <2>1. CASE MainGoes("lookup", "lock")
    BY <1>2, <2>1 DEF Gethostbyaddr, MainGoes, ring, workerVars
  <2>2. CASE UNCHANGED mainPc
    BY <1>2, <2>2 DEF Gethostbyaddr, ring, workerVars
  <2> QED BY <1>2, <2>1, <2>2 DEF Gethostbyaddr
<1>3. CASE mainLock
  BY <1>3 DEF mainLock, MainGoes, ring, workerVars
<1>4. CASE put
  BY <1>4 DEF put, MainGoes, workerVars
<1>5. CASE advancePut
  BY <1>5 DEF advancePut, MainGoes, workerVars
<1>6. CASE signal
  BY <1>6 DEF signal, Waiting, MainGoes, ring
<1>7. CASE mainUnlock
  BY <1>0, <1>7 DEF mainUnlock, MainGoes, ring, workerVars
<1> QED BY <1>1, <1>2, <1>3, <1>4, <1>5, <1>6, <1>7 DEF main

\* The same of a worker.
LEMMA WorkerLocked ==
  ASSUME NEW w \in Worker, TypeOK, Locked, Hands, thread_main(w)
  PROVE  Locked' /\ Hands'
<1> USE WorkerAssumption DEF TypeOK, Locked, Hands
<1>0. Free # Main
  BY DEF Free, Main
<1>1. CASE lock(w)
  BY <1>0, <1>1 DEF lock, Goes, ring, mainVars
<1>2. CASE unlock(w)
  BY <1>0, <1>2 DEF unlock, Goes, ring, mainVars
<1>3. CASE test(w)
  BY <1>0, <1>3 DEF test, Goes, ring, mainVars
<1>4. CASE wake(w)
  BY <1>4 DEF wake, Goes, ring, mainVars
<1>5. CASE take(w)
  BY <1>5 DEF take, Goes, ring, mainVars
<1>6. CASE advanceGet(w)
  BY <1>6 DEF advanceGet, Goes, mainVars
<1>7. CASE read(w)
  BY <1>7 DEF read, Goes, ring, mainVars
<1>8. CASE client(w)
  BY <1>8 DEF client, Goes, ring, mainVars
<1>9. CASE format_log_entry(w)
  BY <1>9 DEF format_log_entry, Goes, ring, mainVars
<1>10. CASE Close(w)
  BY <1>10 DEF Close, Goes, ring, mainVars
<1> QED BY <1>1, <1>2, <1>3, <1>4, <1>5, <1>6, <1>7, <1>8, <1>9, <1>10 DEF thread_main

\* Which steps move no connection, and leave the set of busy workers alone.
LEMMA MainQuiet ==
  ASSUME TypeOK, Gethostbyaddr \/ mainLock \/ signal \/ mainUnlock
  PROVE  UNCHANGED Places /\ Busy' = Busy
<1>1. UNCHANGED Places
  BY DEF Gethostbyaddr, mainLock, signal, mainUnlock, Places, ring, outside, workerVars
<1>2. Busy' = Busy
  BY DEF TypeOK, Gethostbyaddr, mainLock, signal, mainUnlock, Busy, Waiting, workerVars
<1> QED BY <1>1, <1>2

\* The same of a worker: only take, advanceGet and Close move one.
LEMMA WorkerQuiet ==
  ASSUME NEW w \in Worker, TypeOK,
         \/ lock(w) \/ unlock(w) \/ test(w) \/ wake(w)
         \/ read(w) \/ client(w) \/ format_log_entry(w)
  PROVE  UNCHANGED Places /\ Busy' = Busy
<1>1. UNCHANGED Places
  BY DEF lock, unlock, test, wake, read, client, format_log_entry, Places, ring, outside,
         mainVars
<1>2. Busy' = Busy
  BY DEF TypeOK, lock, unlock, test, wake, read, client, format_log_entry, Goes, Busy
<1> QED BY <1>1, <1>2

\* There are not enough clients for different connections in all slots.
LEMMA NotFull ==
  ASSUME Roomy, NEW f \in [Slot -> Client]
  PROVE  \E i, j \in Slot : i # j /\ f[i] = f[j]
<1>1. IsFiniteSet(Slot) /\ Cardinality(Slot) = MAXNCLI
  BY FS_Interval, SlotsAssumption DEF Slot
<1> QED BY <1>1, FS_PigeonHole, ClientAssumption DEF Roomy

\* iput is free, and iget is filled unless the ring is empty.
LEMMA Ends ==
  ASSUME TypeOK
  PROVE  iput \notin Filled /\ (iget # iput => iget \in Filled)
  BY SlotsAssumption DEF TypeOK, Slot, Filled

\* put writes a slot that holds nothing.
LEMMA PutMoves ==
  ASSUME TypeOK, Distinct, Held, Backlogged, put
  PROVE  (Distinct /\ Held /\ Backlogged)'
<1>1. Filled' = Filled /\ Busy' = Busy /\ Serving' = Serving
  BY DEF put, Filled, Busy, Serving, workerVars
<1>2. \A i \in Filled : clifd'[i] = clifd[i]
  BY Ends DEF put, TypeOK, Filled
<1>3. Distinct'
  BY <1>1, <1>2 DEF put, Distinct, workerVars
<1>4. Held'
  BY <1>1, <1>2 DEF put, Held
<1>5. Backlogged'
  BY DEF put, Backlogged, outside
<1> QED BY <1>3, <1>4, <1>5

\* When main moves iput on, its connection comes into the ring.  A ring that
\* seems empty because it is full cannot arise.
LEMMA PutAdvances ==
  ASSUME Roomy, IInv, advancePut
  PROVE  Filled' = Filled \union {iput} /\ NextSlot(iput) # iget
<1>1. NextSlot(iput) # iget
  <2> SUFFICES ASSUME NextSlot(iput) = iget PROVE FALSE
    OBVIOUS
  <2>1. \A i \in Slot : i # iput => i \in Filled
    BY SlotsAssumption DEF IInv, TypeOK, Slot, NextSlot, Filled
  <2>2. clifd[iput] = mainFd /\ mainFd \in Client
    BY DEF IInv, TypeOK, Hands, advancePut, MainGoes
  <2>3. \A i, j \in Slot : clifd[i] = clifd[j] => i = j
    BY <2>1, <2>2 DEF IInv, Distinct
  <2>4. clifd \in [Slot -> Client]
    BY <2>1, <2>2 DEF IInv, TypeOK, Distinct
  <2> QED BY <2>3, <2>4, NotFull
<1>2. Filled' = Filled \union {iput}
  BY <1>1, SlotsAssumption DEF IInv, TypeOK, Slot, NextSlot, Filled, advancePut
<1> QED BY <1>1, <1>2

\* advancePut keeps each connection in its one place.
LEMMA AdvancePutMoves ==
  ASSUME Roomy, IInv, advancePut
  PROVE  (Distinct /\ Held /\ Backlogged)'
<1>1. Filled' = Filled \union {iput} /\ iput \notin Filled
  BY PutAdvances, Ends DEF IInv
<1>2. clifd[iput] = mainFd /\ mainFd \in Client /\ mainFd' = NoClient
  BY DEF IInv, TypeOK, Hands, advancePut, MainGoes
<1>3. UNCHANGED <<clifd, fd, pc, open, backlog>> /\ Busy' = Busy /\ Serving' = Serving
  BY DEF advancePut, workerVars, outside, Busy, Serving
<1>4. Distinct'
  BY <1>1, <1>2, <1>3, ClientAssumption DEF IInv, Distinct
<1>5. Held'
  BY <1>1, <1>2, <1>3, ClientAssumption DEF IInv, Held
<1>6. Backlogged'
  BY <1>3 DEF IInv, Backlogged
<1> QED BY <1>4, <1>5, <1>6

\* Accept takes the first client of the backlog, which has no open connection.
LEMMA AcceptMoves ==
  ASSUME IInv, Accept
  PROVE  (Distinct /\ Held /\ Backlogged)'
<1> DEFINE c == Head(backlog)
<1>1. /\ c \in Client /\ c = backlog[1] /\ Len(backlog) \in Nat \ {0}
      /\ Len(backlog') = Len(backlog) - 1
      /\ \A k \in 1 .. Len(backlog') : backlog'[k] = backlog[k + 1]
  BY HeadTailProperties, LenProperties, EmptySeq DEF IInv, TypeOK, Accept
<1>2. c \notin open
  BY <1>1 DEF IInv, Backlogged
<1>3. mainFd = NoClient /\ mainFd' = c /\ open' = open \union {c}
  BY DEF IInv, Hands, Accept, MainGoes
<1>4. UNCHANGED <<clifd, iget, iput, fd, pc>> /\ Busy' = Busy /\ Serving' = Serving /\ Filled' = Filled
  BY DEF Accept, ring, workerVars, Busy, Serving, Filled
<1> HIDE DEF c
<1>5. Distinct'
  <2>1. \A i \in Filled : clifd[i] \in open
    BY DEF IInv, Held
  <2>2. \A w \in Busy : fd[w] \in open
    BY DEF IInv, Held, Serving
  <2> QED BY <1>2, <1>3, <1>4, <2>1, <2>2 DEF IInv, Distinct
<1>6. Held'
  BY <1>1, <1>3, <1>4, ClientAssumption DEF IInv, Held
<1>7. Backlogged'
  <2>1. \A k \in 1 .. Len(backlog') : k + 1 \in 1 .. Len(backlog) /\ k + 1 # 1
    BY <1>1
  <2>2. \A k \in 1 .. Len(backlog') : backlog'[k] \notin open'
    BY <1>1, <1>3, <2>1 DEF IInv, Backlogged
  <2>3. \A k, l \in 1 .. Len(backlog') : backlog'[k] = backlog'[l] => k = l
    <3> TAKE k, l \in 1 .. Len(backlog')
    <3>1. backlog'[k] = backlog'[l] => k + 1 = l + 1
      BY <1>1, <2>1 DEF IInv, Backlogged
    <3> QED BY <1>1, <3>1
  <2> QED BY <2>2, <2>3 DEF Backlogged
<1> QED BY <1>5, <1>6, <1>7

\* take copies a descriptor to a worker that is not busy yet.
LEMMA TakeMoves ==
  ASSUME NEW w \in Worker, IInv, take(w)
  PROVE  (Distinct /\ Held /\ Backlogged)'
<1>1. Busy' = Busy /\ w \notin Busy /\ Filled' = Filled
  BY DEF IInv, TypeOK, take, Goes, Busy, Filled, ring
<1>2. \A v \in Busy : fd'[v] = fd[v]
  BY <1>1 DEF IInv, TypeOK, take, Busy
<1>3. UNCHANGED <<clifd, mainFd, open, backlog>>
  BY DEF take, ring, mainVars, outside
<1>4. Serving' = Serving
  BY <1>1, <1>2 DEF Serving
<1>5. Distinct'
  BY <1>1, <1>2, <1>3 DEF IInv, Distinct
<1>6. Held'
  BY <1>1, <1>3, <1>4 DEF IInv, Held
<1>7. Backlogged'
  BY <1>3 DEF IInv, Backlogged
<1> QED BY <1>5, <1>6, <1>7

\* When a worker moves iget on, it has what was in the slot.
LEMMA GetAdvances ==
  ASSUME NEW w \in Worker, IInv, advanceGet(w)
  PROVE  /\ Filled' = Filled \ {iget} /\ iget \in Filled /\ iget # iput
         /\ fd[w] = clifd[iget]
         /\ Busy' = Busy \union {w} /\ w \notin Busy
         /\ Serving' = Serving \union {fd[w]}
         /\ UNCHANGED <<clifd, iput, fd, mainFd, open, backlog>>
<1>1. iget # iput /\ fd[w] = clifd[iget]
  BY DEF IInv, Hands, advanceGet, Goes
<1>2. iget \in Filled
  BY <1>1, Ends DEF IInv
<1>3. Filled' = Filled \ {iget}
  BY <1>1, SlotsAssumption DEF IInv, TypeOK, Slot, NextSlot, Filled, advanceGet
<1>4. Busy' = Busy \union {w} /\ w \notin Busy
  BY DEF IInv, TypeOK, advanceGet, Goes, Busy
<1>5. UNCHANGED <<clifd, iput, fd, mainFd, open, backlog>>
  BY DEF advanceGet, mainVars, outside
<1>6. Serving' = Serving \union {fd[w]}
  BY <1>4, <1>5 DEF Serving
<1> QED BY <1>1, <1>2, <1>3, <1>4, <1>5, <1>6

\* advanceGet keeps each connection in its one place.
LEMMA AdvanceGetMoves ==
  ASSUME NEW w \in Worker, IInv, advanceGet(w)
  PROVE  (Distinct /\ Held /\ Backlogged)'
<1> USE GetAdvances
<1>1. Distinct'
  BY DEF IInv, Distinct
<1>2. Held'
  BY DEF IInv, Held
<1>3. Backlogged'
  BY DEF IInv, Backlogged
<1> QED BY <1>1, <1>2, <1>3

\* Close ends the connection of a busy worker, and of no other.
LEMMA CloseFrees ==
  ASSUME NEW w \in Worker, IInv, Close(w)
  PROVE  /\ Busy' = Busy \ {w} /\ w \in Busy
         /\ Serving' = Serving \ {fd[w]}
         /\ open' = open \ {fd[w]}
         /\ \A v \in Busy' : fd'[v] = fd[v]
         /\ UNCHANGED <<ring, mainFd, backlog>> /\ Filled' = Filled
<1>1. Busy' = Busy \ {w} /\ w \in Busy
  BY DEF IInv, TypeOK, Close, Goes, Busy
<1>2. \A v \in Busy' : fd'[v] = fd[v]
  BY <1>1 DEF IInv, TypeOK, Close, Busy
<1>3. UNCHANGED <<ring, mainFd, backlog>> /\ open' = open \ {fd[w]} /\ Filled' = Filled
  BY DEF Close, ring, mainVars, Filled
<1>4. Serving' = Serving \ {fd[w]}
  BY <1>1, <1>2 DEF IInv, Distinct, Serving
<1> QED BY <1>1, <1>2, <1>3, <1>4

\* Close keeps each connection in its one place.
LEMMA CloseMoves ==
  ASSUME NEW w \in Worker, IInv, Close(w)
  PROVE  (Distinct /\ Held /\ Backlogged)'
<1> USE CloseFrees
<1>1. Distinct'
  BY DEF IInv, Distinct, ring
<1>2. Held'
  BY DEF IInv, Held, Distinct, ring
<1>3. Backlogged'
  BY DEF IInv, Backlogged
<1> QED BY <1>1, <1>2, <1>3

\* A client joins the backlog only when it has no connection.
LEMMA ClientMoves ==
  ASSUME NEW c \in Client, IInv, connect(c) \/ abort(c)
  PROVE  (Locked /\ Hands /\ Distinct /\ Held /\ Backlogged)'
<1>1. UNCHANGED <<ring, mutex, mainVars, workerVars, open>>
  BY DEF connect, abort
<1>2. Locked' /\ Hands' /\ Busy' = Busy /\ Serving' = Serving /\ Filled' = Filled
  BY <1>1 DEF IInv, Locked, Hands, Busy, Serving, Filled, ring, mainVars, workerVars
<1>3. Distinct' /\ Held'
  BY <1>1, <1>2 DEF IInv, Distinct, Held, ring, mainVars, workerVars
<1>4. CASE abort(c)
  BY <1>1, <1>2, <1>3, <1>4 DEF IInv, Backlogged, abort
<1>5. CASE connect(c)
  <2>1. /\ Len(backlog) \in Nat /\ Len(backlog') = Len(backlog) + 1
        /\ \A k \in 1 .. Len(backlog) : backlog'[k] = backlog[k]
        /\ backlog'[Len(backlog) + 1] = c
    <3>1. backlog \in Seq(Client) /\ backlog' = Append(backlog, c)
      BY <1>5 DEF IInv, TypeOK, connect
    <3>2. \A s \in Seq(Client) : /\ Len(s) \in Nat /\ Len(Append(s, c)) = Len(s) + 1
                                 /\ \A k \in 1 .. Len(s) : Append(s, c)[k] = s[k]
                                 /\ Append(s, c)[Len(s) + 1] = c
      OBVIOUS
    <3> QED BY <3>1, <3>2
  <2>2. c \notin open /\ \A k \in 1 .. Len(backlog) : backlog[k] # c
    BY <1>5 DEF connect, Connected
  <2>3. Backlogged'
    BY <1>1, <2>1, <2>2 DEF IInv, Backlogged
  <2> QED BY <1>2, <1>3, <2>3
<1> QED BY <1>4, <1>5

\* At the start nothing is accepted and the mutex is free.
LEMMA IInvInit == Init => IInv
<1> SUFFICES ASSUME Init PROVE IInv
  OBVIOUS
<1>1. Filled = {} /\ Busy = {} /\ Serving = {}
  BY SlotsAssumption DEF Init, Filled, Slot, Busy, Serving
<1>2. Locked /\ Hands
  BY WorkerAssumption DEF Init, Locked, Hands, Free, Main
<1>3. Distinct /\ Held
  BY <1>1 DEF Init, Distinct, Held
<1>4. Backlogged
  BY EmptySeq DEF Init, Backlogged
<1> QED BY <1>2, <1>3, <1>4, InitType DEF IInv

\* IInv is inductive while there are fewer clients than slots.
LEMMA IInvStep == Roomy /\ IInv /\ [Next]_vars => IInv'
<1> SUFFICES ASSUME Roomy, IInv, [Next]_vars PROVE IInv'
  OBVIOUS
<1>1. CASE main
  <2>1. TypeOK' /\ Locked' /\ Hands'
    BY <1>1, MainType, MainLocked DEF IInv
  <2>2. (Distinct /\ Held /\ Backlogged)'
    BY <1>1, AcceptMoves, PutMoves, AdvancePutMoves, MainQuiet, NothingMoves DEF IInv, main
  <2> QED BY <2>1, <2>2 DEF IInv
<1>2. ASSUME NEW w \in Worker, thread_main(w) PROVE IInv'
  <2>1. TypeOK' /\ Locked' /\ Hands'
    BY <1>2, WorkerType, WorkerLocked DEF IInv
  <2>2. (Distinct /\ Held /\ Backlogged)'
    BY <1>2, TakeMoves, AdvanceGetMoves, CloseMoves, WorkerQuiet, NothingMoves
       DEF IInv, thread_main
  <2> QED BY <2>1, <2>2 DEF IInv
<1>3. ASSUME NEW c \in Client, connect(c) \/ abort(c) PROVE IInv'
  BY <1>3, ClientType, ClientMoves DEF IInv
<1>4. CASE UNCHANGED vars
  <2>1. UNCHANGED Places /\ Busy' = Busy /\ Locked' /\ Hands'
    BY <1>4 DEF IInv, Locked, Hands, Busy, Places, vars, outside, ring, mainVars, workerVars
  <2> QED BY <1>4, <2>1, StutterType, NothingMoves DEF IInv
<1> QED BY <1>1, <1>2, <1>3, <1>4 DEF Next, Halted

--------------------------------------------------------------------------------
\* A function on 1 .. n is a sequence of length n.
LEMMA FunctionIsSeq ==
  ASSUME NEW S, NEW n \in Nat, NEW f \in [1 .. n -> S]
  PROVE  f \in Seq(S) /\ Len(f) = n
<1>1. f \in Seq(S)
  BY SMT
<1>2. DOMAIN f = 1 .. Len(f) /\ Len(f) \in Nat /\ DOMAIN f = 1 .. n
  BY <1>1, LenProperties
<1> QED BY <1>1, <1>2

\* InRing lists the filled slots.
LEMMA RingSlots ==
  ASSUME TypeOK
  PROVE  /\ Size \in Nat
         /\ \A k \in 1 .. Size : SlotAt(k - 1) \in Filled
         /\ \A i \in Filled : \E k \in 1 .. Size : SlotAt(k - 1) = i
<1> USE SlotsAssumption DEF TypeOK, Slot, Size, SlotAt, Filled
<1>1. Size \in Nat
  OBVIOUS
<1>2. \A k \in 1 .. Size : SlotAt(k - 1) \in Filled
  OBVIOUS
<1>3. ASSUME NEW i \in Filled PROVE \E k \in 1 .. Size : SlotAt(k - 1) = i
  <2>1. CASE iget <= i
    <3>1. i - iget + 1 \in 1 .. Size /\ SlotAt((i - iget + 1) - 1) = i
      BY <2>1
    <3> QED BY <3>1
  <2>2. CASE ~(iget <= i)
    <3>1. i - iget + MAXNCLI + 1 \in 1 .. Size /\ SlotAt((i - iget + MAXNCLI + 1) - 1) = i
      BY <2>2
    <3> QED BY <3>1
  <2> QED BY <2>1, <2>2
<1> QED BY <1>1, <1>2, <1>3

RingListed ==
  /\ InRing \in Seq(Client) /\ Len(InRing) = Size /\ Size \in Nat
  /\ \A k \in 1 .. Size : InRing[k] = clifd[SlotAt(k - 1)]

\* InRing is the sequence of the clients in the filled slots.
LEMMA RingSeq == IInv => RingListed
<1> SUFFICES ASSUME IInv PROVE RingListed
  OBVIOUS
<1>1. \A k \in 1 .. Size : clifd[SlotAt(k - 1)] \in Client
  BY RingSlots DEF IInv, Distinct
<1>2. InRing \in [1 .. Size -> Client]
  BY <1>1 DEF InRing
<1>3. Size \in Nat
  BY RingSlots DEF IInv
<1>4. InRing \in Seq(Client) /\ Len(InRing) = Size
  BY <1>2, <1>3, FunctionIsSeq
<1> QED BY <1>3, <1>4 DEF InRing, RingListed

\* What Accepted lists: the connections of the ring, and main's.
LEMMA AcceptedSeq ==
  ASSUME IInv
  PROVE  /\ Accepted \in Seq(Client) /\ Len(Accepted) \in Nat
         /\ {Accepted[k] : k \in 1 .. Len(Accepted)}
              = {clifd[i] : i \in Filled} \union ({mainFd} \ {NoClient})
<1> DEFINE Listed(s) == {s[k] : k \in 1 .. Len(s)}
<1>1. /\ InRing \in Seq(Client) /\ Len(InRing) = Size /\ Size \in Nat
      /\ \A k \in 1 .. Size : InRing[k] = clifd[SlotAt(k - 1)]
  BY RingSeq DEF RingListed
<1>2. Listed(InRing) = {clifd[i] : i \in Filled}
  <2>1. ASSUME NEW k \in 1 .. Size PROVE InRing[k] \in {clifd[i] : i \in Filled}
    BY <1>1, RingSlots DEF IInv
  <2>2. ASSUME NEW i \in Filled PROVE clifd[i] \in Listed(InRing)
    <3>1. PICK k \in 1 .. Size : SlotAt(k - 1) = i
      BY RingSlots DEF IInv
    <3>2. InRing[k] = clifd[i]
      BY <1>1, <3>1
    <3> QED BY <1>1, <3>2
  <2> QED BY <1>1, <2>1, <2>2
<1>3. CASE mainFd = NoClient
  BY <1>1, <1>2, <1>3 DEF Accepted
<1>4. CASE mainFd # NoClient
  <2>1. mainFd \in Client
    BY <1>4 DEF IInv, TypeOK
  <2>2. /\ Accepted \in Seq(Client) /\ Len(Accepted) = Size + 1
        /\ \A k \in 1 .. Size : Accepted[k] = InRing[k]
        /\ Accepted[Size + 1] = mainFd
    BY <1>1, <1>4, <2>1, AppendProperties DEF Accepted
  <2>3. 1 .. Size + 1 = (1 .. Size) \union {Size + 1}
    BY <1>1
  <2>4. Listed(Accepted) = Listed(InRing) \union {mainFd}
    BY <1>1, <2>2, <2>3
  <2>5. Listed(Accepted) = {clifd[i] : i \in Filled} \union ({mainFd} \ {NoClient})
    BY <1>2, <1>4, <2>4
  <2>6. Len(Accepted) \in Nat
    BY <1>1, <2>2
  <2> QED BY <2>2, <2>5, <2>6, Zenon
<1> QED BY <1>3, <1>4

\* While there are fewer clients than slots, every connection that main has
\* accepted is in its hand, in the ring or with a worker until it is closed.
THEOREM NothingLost == Roomy => (Spec => []NoConnectionLost)
<1>1. IInv => NoConnectionLost
  BY AcceptedSeq DEF IInv, Held, NoConnectionLost
<1> SUFFICES ASSUME Roomy PROVE Spec => []NoConnectionLost
  OBVIOUS
<1>2. IInv /\ [Next]_vars => IInv'
  BY IInvStep
<1> QED BY <1>1, <1>2, IInvInit, PTL DEF Spec

--------------------------------------------------------------------------------
(* The ring as a queue.                                                       *)

\* The list of the ring, after the steps that change it.
LEMMA InRingPut ==
  ASSUME Roomy, IInv, IInv', advancePut
  PROVE  InRing' = Append(InRing, mainFd)
<1>1. /\ InRing \in Seq(Client) /\ Len(InRing) = Size /\ Size \in Nat
      /\ \A k \in 1 .. Size : InRing[k] = clifd[SlotAt(k - 1)]
  BY RingSeq DEF RingListed
<1>2. /\ InRing' \in Seq(Client) /\ Len(InRing') = Size' /\ Size' \in Nat
      /\ \A k \in 1 .. Size' : InRing'[k] = clifd'[SlotAt(k - 1)']
  <2>1. RingListed'
    BY RingSeq, PTL
  <2> QED BY <2>1 DEF RingListed
<1>3. clifd[iput] = mainFd /\ mainFd \in Client
  BY DEF IInv, TypeOK, Hands, advancePut, MainGoes
<1>4. UNCHANGED <<clifd, iget>> /\ iput' = NextSlot(iput)
  BY DEF advancePut
<1>5. NextSlot(iput) # iget
  BY PutAdvances
<1>6. Size' = Size + 1 /\ SlotAt(Size) = iput
  BY <1>4, <1>5, SlotsAssumption DEF IInv, TypeOK, Slot, NextSlot, Size, SlotAt
<1>7. \A k \in 1 .. Size + 1 : SlotAt(k - 1)' = SlotAt(k - 1)
  BY <1>4 DEF SlotAt
<1>8. /\ Append(InRing, mainFd) \in Seq(Client)
      /\ Len(Append(InRing, mainFd)) = Size + 1
      /\ \A k \in 1 .. Size : Append(InRing, mainFd)[k] = InRing[k]
      /\ Append(InRing, mainFd)[Size + 1] = mainFd
  BY <1>1, <1>3, AppendProperties
<1>9. \A k \in 1 .. Size + 1 : InRing'[k] = Append(InRing, mainFd)[k]
  <2> TAKE k \in 1 .. Size + 1
  <2>1. CASE k = Size + 1
    BY <1>1, <1>2, <1>3, <1>4, <1>6, <1>7, <1>8, <2>1
  <2>2. CASE k \in 1 .. Size
    BY <1>1, <1>2, <1>4, <1>6, <1>7, <1>8, <2>2
  <2> QED BY <1>1, <2>1, <2>2
<1> QED BY <1>2, <1>6, <1>8, <1>9, SeqEqual

\* advanceGet takes the head of the list away.
LEMMA InRingGet ==
  ASSUME NEW w \in Worker, IInv, IInv', advanceGet(w)
  PROVE  InRing # <<>> /\ Head(InRing) = fd[w] /\ InRing' = Tail(InRing)
<1>1. /\ InRing \in Seq(Client) /\ Len(InRing) = Size /\ Size \in Nat
      /\ \A k \in 1 .. Size : InRing[k] = clifd[SlotAt(k - 1)]
  BY RingSeq DEF RingListed
<1>2. /\ InRing' \in Seq(Client) /\ Len(InRing') = Size' /\ Size' \in Nat
      /\ \A k \in 1 .. Size' : InRing'[k] = clifd'[SlotAt(k - 1)']
  <2>1. RingListed'
    BY RingSeq, PTL
  <2> QED BY <2>1 DEF RingListed
<1>3. iget # iput /\ fd[w] = clifd[iget] /\ UNCHANGED <<clifd, iput>> /\ iget' = NextSlot(iget)
  BY GetAdvances DEF advanceGet
<1>4. Size' = Size - 1 /\ SlotAt(0) = iget
  BY <1>3, SlotsAssumption DEF IInv, TypeOK, Slot, NextSlot, Size, SlotAt
<1>5. \A k \in 1 .. Size - 1 : SlotAt(k - 1)' = SlotAt((k + 1) - 1)
  BY <1>3, SlotsAssumption DEF IInv, TypeOK, Slot, NextSlot, Size, SlotAt
<1>6. InRing # <<>> /\ Head(InRing) = InRing[1]
  BY <1>1, <1>2, <1>4, EmptySeq
<1>7. Head(InRing) = fd[w]
  BY <1>1, <1>2, <1>3, <1>4, <1>6
<1>8. /\ Tail(InRing) \in Seq(Client) /\ Len(Tail(InRing)) = Size - 1
      /\ \A k \in 1 .. Size - 1 : Tail(InRing)[k] = InRing[k + 1]
  BY <1>1, <1>6, HeadTailProperties
<1>9. \A k \in 1 .. Size - 1 : InRing'[k] = Tail(InRing)[k]
  <2> TAKE k \in 1 .. Size - 1
  <2>1. k + 1 \in 1 .. Size /\ k \in 1 .. Size'
    BY <1>1, <1>4
  <2>2. InRing'[k] = clifd[SlotAt((k + 1) - 1)]
    BY <1>2, <1>3, <1>5, <2>1
  <2>3. Tail(InRing)[k] = clifd[SlotAt((k + 1) - 1)]
    BY <1>1, <1>8, <2>1
  <2> QED BY <2>2, <2>3
<1> QED BY <1>2, <1>4, <1>6, <1>7, <1>8, <1>9, SeqEqual

\* The steps that change neither the ring, nor main's hand, nor who is busy with
\* what, are no steps of the queue.
LEMMA NoQueueStep ==
  ASSUME UNCHANGED <<ring, mainFd, fd>>, Busy' = Busy
  PROVE  Accepted' = Accepted /\ Serving' = Serving
<1>1. Serving' = Serving
  BY DEF Serving
<1>2. Size' = Size /\ InRing' = InRing
  BY DEF ring, Size, SlotAt, InRing
<1> QED BY <1>1, <1>2 DEF Accepted

\* Each step of main is a step of the queue or none.
LEMMA MainQueues ==
  ASSUME Roomy, IInv, IInv', main
  PROVE  [Queue!Next]_<<Accepted, Serving>>
<1>1. CASE Accept
  <2> DEFINE c == Head(backlog)
  <2>1. c \in Client /\ c \notin open
    <3>1. backlog # <<>> /\ backlog \in Seq(Client)
      BY <1>1 DEF IInv, TypeOK, Accept
    <3>2. c \in Client /\ c = backlog[1] /\ Len(backlog) \in Nat \ {0}
      BY <3>1, HeadTailProperties, LenProperties, EmptySeq
    <3> QED BY <3>2 DEF IInv, Backlogged
  <2>2. mainFd = NoClient /\ mainFd' = c
    BY <1>1 DEF IInv, Hands, Accept, MainGoes
  <2>3. InRing' = InRing /\ Serving' = Serving
    BY <1>1 DEF Accept, ring, workerVars, Size, SlotAt, InRing, Serving, Busy
  <2>4. Accepted' = Append(Accepted, c)
    BY <2>1, <2>2, <2>3, ClientAssumption DEF Accepted
  <2>5. ~Queue!Arrived(c)
    BY <2>1, AcceptedSeq DEF Queue!Arrived, IInv, Held
  <2> QED BY <2>1, <2>3, <2>4, <2>5 DEF Queue!Next, Queue!Arrive
<1>2. CASE put
  <2>1. Size' = Size /\ Serving' = Serving /\ mainFd' = mainFd
    BY <1>2 DEF put, workerVars, Size, Serving, Busy
  <2>2. \A k \in 1 .. Size : clifd'[SlotAt(k - 1)'] = clifd[SlotAt(k - 1)]
    <3>1. \A i \in Filled : clifd'[i] = clifd[i]
      <4>1. clifd' = [clifd EXCEPT ![iput] = mainFd] /\ iput \notin Filled
        BY <1>2, Ends DEF IInv, put
      <4>2. \A i \in Filled : i \in Slot
        BY DEF Filled
      <4> QED BY <4>1, <4>2 DEF IInv, TypeOK
    <3>2. \A k \in 1 .. Size : SlotAt(k - 1)' = SlotAt(k - 1)
      BY <1>2 DEF put, SlotAt
    <3>3. \A k \in 1 .. Size : SlotAt(k - 1) \in Filled
      BY RingSlots DEF IInv
    <3> QED BY <3>1, <3>2, <3>3
  <2>3. InRing' = InRing
    BY <2>1, <2>2 DEF InRing
  <2> QED BY <2>1, <2>3 DEF Accepted
<1>3. CASE advancePut
  <2>1. InRing' = Append(InRing, mainFd)
    BY <1>3, InRingPut
  <2>2. mainFd # NoClient /\ mainFd' = NoClient /\ Serving' = Serving
    BY <1>3 DEF IInv, Hands, advancePut, MainGoes, workerVars, Serving, Busy
  <2> QED BY <2>1, <2>2 DEF Accepted
<1>4. CASE Gethostbyaddr \/ mainLock \/ signal \/ mainUnlock
  BY <1>4, MainQuiet, NoQueueStep DEF IInv, Places
<1> QED BY <1>1, <1>2, <1>3, <1>4 DEF main

\* Each step of a worker is a step of the queue or none.
LEMMA WorkerQueues ==
  ASSUME NEW w \in Worker, IInv, IInv', thread_main(w)
  PROVE  [Queue!Next]_<<Accepted, Serving>>
<1>1. CASE take(w)
  <2>1. Busy' = Busy /\ w \notin Busy /\ UNCHANGED <<ring, mainFd>>
    BY <1>1 DEF IInv, TypeOK, take, Goes, Busy, mainVars
  <2>2. Serving' = Serving
    <3>1. \A v \in Busy : fd'[v] = fd[v]
      <4>1. fd' = [fd EXCEPT ![w] = clifd[iget]] /\ \A v \in Busy : v \in Worker
        BY <1>1 DEF take, Busy
      <4> QED BY <2>1, <4>1 DEF IInv, TypeOK
    <3> QED BY <2>1, <3>1 DEF Serving
  <2>3. InRing' = InRing
    BY <2>1 DEF ring, Size, SlotAt, InRing
  <2> QED BY <2>1, <2>2, <2>3 DEF Accepted
<1>2. CASE advanceGet(w)
  <2>1. InRing # <<>> /\ Head(InRing) = fd[w] /\ InRing' = Tail(InRing)
    BY <1>2, InRingGet
  <2>2. Serving' = Serving \union {fd[w]} /\ mainFd' = mainFd
    BY <1>2, GetAdvances
  <2>3. InRing \in Seq(Client)
    BY RingSeq DEF RingListed
  <2>4. Accepted # <<>> /\ Head(Accepted) = fd[w] /\ Accepted' = Tail(Accepted)
    <3>1. CASE mainFd = NoClient
      BY <2>1, <2>2, <3>1 DEF Accepted
    <3>2. CASE mainFd # NoClient
      <4>1. mainFd \in Client
        BY <3>2 DEF IInv, TypeOK
      <4>2. /\ Append(InRing, mainFd) # <<>>
            /\ Head(Append(InRing, mainFd)) = Head(InRing)
            /\ Tail(Append(InRing, mainFd)) = Append(Tail(InRing), mainFd)
        BY <2>1, <2>3, <4>1, HeadTailAppend, AppendProperties
      <4> QED BY <2>1, <2>2, <3>2, <4>2 DEF Accepted
    <3> QED BY <3>1, <3>2
  <2> QED BY <2>2, <2>4 DEF Queue!Next, Queue!HandOut
<1>3. CASE Close(w)
  <2>1. /\ UNCHANGED <<ring, mainFd>> /\ w \in Busy
        /\ Serving' = Serving \ {fd[w]}
    BY <1>3, CloseFrees
  <2>2. fd[w] \in Client /\ fd[w] \in Serving
    BY <2>1 DEF IInv, Distinct, Serving
  <2>3. Accepted' = Accepted
    BY <2>1 DEF ring, Size, SlotAt, InRing, Accepted
  <2> QED BY <2>1, <2>2, <2>3 DEF Queue!Next, Queue!Finish
<1>4. CASE \/ lock(w) \/ unlock(w) \/ test(w) \/ wake(w)
           \/ read(w) \/ client(w) \/ format_log_entry(w)
  BY <1>4, WorkerQuiet, NoQueueStep DEF IInv, Places
<1> QED BY <1>1, <1>2, <1>3, <1>4 DEF thread_main

\* At the start the queue is empty.
LEMMA QueueInit == Init => Queue!Init
<1> SUFFICES ASSUME Init PROVE Queue!Init
  OBVIOUS
<1>1. Serving = {}
  BY DEF Init, Serving, Busy
<1>2. Size = 0 /\ mainFd = NoClient
  BY DEF Init, Size
<1>3. InRing = <<>>
  BY <1>2 DEF InRing
<1> QED BY <1>1, <1>2, <1>3 DEF Accepted, Queue!Init

\* While there are fewer clients than slots, proxy.c implements the queue of
\* ProxyQueue: connections reach the workers in the order of Accept, each once.
THEOREM RingIsQueue == Roomy => (Spec => IsQueue)
<1> SUFFICES ASSUME Roomy PROVE Spec => IsQueue
  OBVIOUS
<1>1. IInv /\ [Next]_vars => IInv'
  BY IInvStep
<1>2. IInv /\ IInv' /\ [Next]_vars => [Queue!Next]_<<Accepted, Serving>>
  <2> SUFFICES ASSUME IInv, IInv', [Next]_vars PROVE [Queue!Next]_<<Accepted, Serving>>
    OBVIOUS
  <2>1. CASE main
    BY <2>1, MainQueues
  <2>2. ASSUME NEW w \in Worker, thread_main(w) PROVE [Queue!Next]_<<Accepted, Serving>>
    BY <2>2, WorkerQueues
  <2>3. CASE (\E c \in Client : connect(c) \/ abort(c)) \/ UNCHANGED vars
    <3>1. UNCHANGED <<ring, mainFd, fd>> /\ Busy' = Busy
      BY <2>3 DEF connect, abort, vars, mainVars, workerVars, Busy
    <3> QED BY <3>1, NoQueueStep
  <2> QED BY <2>1, <2>2, <2>3 DEF Next, Halted
<1> QED BY <1>1, <1>2, IInvInit, QueueInit, PTL DEF Spec, IsQueue, Queue!Spec
================================================================================
