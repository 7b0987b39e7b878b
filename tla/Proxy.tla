--------------------------------- MODULE Proxy ---------------------------------
(******************************************************************************)
(* The threaded web proxy c-proxy/my/proxy.c: the main thread accepts         *)
(* connections and puts them in the ring clifd[iget .. iput), a fixed set of  *)
(* workers takes them out and serves them.  clifd_mutex guards the ring and   *)
(* the log, clifd_cond tells the workers of a new connection.                 *)
(*                                                                            *)
(* A client has at most one connection at a time, so it also stands for the   *)
(* descriptor of its connection and for its address.  The contents of         *)
(* requests and responses are left out; what ends a read or the process is    *)
(* kept.                                                                      *)
(******************************************************************************)
EXTENDS Integers, Sequences, FiniteSets

CONSTANTS
  Client,       \* the browsers
  Worker,       \* the NTHREADS threads of thread_make
  MAXNCLI,      \* the number of slots of the ring
  MaxAborts,    \* bound: clients that close before the end of their headers
  MaxFailures   \* bound: lookups and connections to end servers that fail

Main == "main"
Free == "free"         \* nobody holds the mutex
NoClient == "none"     \* no descriptor, no address

ASSUME SlotsAssumption == MAXNCLI \in Nat \ {0, 1}
ASSUME ClientAssumption == IsFiniteSet(Client) /\ NoClient \notin Client
ASSUME WorkerAssumption == Main \notin Worker /\ Free \notin Worker
ASSUME BoundsAssumption == MaxAborts \in Nat /\ MaxFailures \in Nat

Slot == 0 .. MAXNCLI - 1
NextSlot(i) == IF i + 1 = MAXNCLI THEN 0 ELSE i + 1   \* ++i == MAXNCLI, i = 0

VARIABLES
  backlog,     \* Seq(Client): the kernel's queue of the listening socket
  open,        \* SUBSET Client: the accepted connections not closed by the proxy
  gone,        \* SUBSET Client: those that closed before the end of their headers
  clientaddr,  \* the global filled in by the last Accept
  clifd, iget, iput,
  mutex,       \* who holds clifd_mutex
  mainPc, mainFd,   \* main's place in its loop and its connfd
  pc, fd,           \* [Worker -> ...]: the same of each worker
  running,     \* the process has not exited
  aborts, failures  \* counters for the bounds

ring == <<clifd, iget, iput>>
mainVars == <<mainPc, mainFd>>
workerVars == <<pc, fd>>
outside == <<backlog, gone, aborts>>
vars == <<outside, open, clientaddr, ring, mutex, mainVars, workerVars, running, failures>>

MainPc == {"accept", "lookup", "lock", "put", "advance", "signal", "unlock"}
WorkerPc == {"lock", "test", "wait", "relock", "take", "advance", "unlock",
             "read", "forward", "lockLog", "log", "unlockLog", "close"}

TypeOK ==
  /\ backlog \in Seq(Client) /\ open \subseteq Client /\ gone \subseteq Client
  /\ clientaddr \in Client \union {NoClient}
  /\ clifd \in [Slot -> Client \union {NoClient}] /\ iget \in Slot /\ iput \in Slot
  /\ mutex \in {Free, Main} \union Worker
  /\ mainPc \in MainPc /\ mainFd \in Client \union {NoClient}
  /\ pc \in [Worker -> WorkerPc] /\ fd \in [Worker -> Client \union {NoClient}]
  /\ running \in BOOLEAN
  /\ aborts \in 0 .. MaxAborts /\ failures \in 0 .. MaxFailures

Init ==
  /\ backlog = <<>> /\ open = {} /\ gone = {}
  /\ clientaddr = NoClient
  /\ clifd = [i \in Slot |-> NoClient] /\ iget = 0 /\ iput = 0
  /\ mutex = Free
  /\ mainPc = "accept" /\ mainFd = NoClient
  /\ pc = [w \in Worker |-> "lock"] /\ fd = [w \in Worker |-> NoClient]
  /\ running = TRUE
  /\ aborts = 0 /\ failures = 0

--------------------------------------------------------------------------------
(* main                                                                       *)

MainGoes(from, to) == running /\ mainPc = from /\ mainPc' = to

Accept ==
  /\ MainGoes("accept", "lookup")
  /\ backlog # <<>>
  /\ backlog' = Tail(backlog)
  /\ mainFd' = Head(backlog)
  /\ clientaddr' = Head(backlog)
  /\ open' = open \union {Head(backlog)}
  /\ UNCHANGED <<gone, aborts, ring, mutex, workerVars, running, failures>>

\* A wrapper of csapp.c meets an error: the whole process exits.
Exit ==
  /\ failures < MaxFailures
  /\ failures' = failures + 1
  /\ running' = FALSE

\* Gethostbyaddr exits when the client has no name.
Gethostbyaddr ==
  /\ \/ MainGoes("lookup", "lock") /\ UNCHANGED <<running, failures>>
     \/ running /\ mainPc = "lookup" /\ Exit /\ UNCHANGED mainPc
  /\ UNCHANGED <<outside, open, clientaddr, ring, mutex, mainFd, workerVars>>

mainLock ==
  /\ MainGoes("lock", "put")
  /\ mutex = Free
  /\ mutex' = Main
  /\ UNCHANGED <<outside, open, clientaddr, ring, mainFd, workerVars, running,
                 failures>>

\* clifd[iput] = connfd: there is no test for a full ring.
put ==
  /\ MainGoes("put", "advance")
  /\ clifd' = [clifd EXCEPT ![iput] = mainFd]
  /\ UNCHANGED <<outside, open, clientaddr, iget, iput, mutex, mainFd, workerVars,
                 running, failures>>

advancePut ==
  /\ MainGoes("advance", "signal")
  /\ iput' = NextSlot(iput)
  /\ mainFd' = NoClient
  /\ UNCHANGED <<outside, open, clientaddr, clifd, iget, mutex, workerVars, running, failures>>

Waiting == {w \in Worker : pc[w] = "wait"}

\* mutant: nobody is told
signalNobody ==
  /\ MainGoes("signal", "unlock")
  /\ UNCHANGED <<outside, open, clientaddr, ring, mutex, mainFd, workerVars, running, failures>>

\* pthread_cond_signal wakes one of the waiting workers, if there is one.
signal ==
  /\ MainGoes("signal", "unlock")
  /\ \/ Waiting = {} /\ UNCHANGED pc
     \/ \E w \in Waiting : pc' = [pc EXCEPT ![w] = "relock"]
  /\ UNCHANGED <<outside, open, clientaddr, ring, mutex, mainFd, fd, running,
                 failures>>

mainUnlock ==
  /\ MainGoes("unlock", "accept")
  /\ mutex' = Free
  /\ UNCHANGED <<outside, open, clientaddr, ring, mainFd, workerVars, running,
                 failures>>

main == \/ Accept \/ Gethostbyaddr \/ mainLock \/ put \/ advancePut \/ signal
        \/ mainUnlock

--------------------------------------------------------------------------------
(* thread_main                                                                *)

Goes(w, from, to) == running /\ pc[w] = from /\ pc' = [pc EXCEPT ![w] = to]

lock(w) ==
  /\ \/ Goes(w, "lock", "test") \/ Goes(w, "relock", "test") \/ Goes(w, "lockLog", "log")
  /\ mutex = Free
  /\ mutex' = w
  /\ UNCHANGED <<outside, open, clientaddr, ring, mainVars, fd, running, failures>>

unlock(w) ==
  /\ \/ Goes(w, "unlock", "read") \/ Goes(w, "unlockLog", "close")
  /\ mutex' = Free
  /\ UNCHANGED <<outside, open, clientaddr, ring, mainVars, fd, running, failures>>

\* mutant: if (iget == iput) in place of while
testOnce(w) ==
  /\ \/ iget = iput /\ Goes(w, "test", "wait") /\ mutex' = Free
     \/ Goes(w, "test", "take") /\ UNCHANGED mutex
  /\ UNCHANGED <<outside, open, clientaddr, ring, mainVars, fd, running, failures>>

\* while (iget == iput) pthread_cond_wait(...): waiting gives up the mutex
test(w) ==
  /\ \/ iget = iput /\ Goes(w, "test", "wait") /\ mutex' = Free
     \/ iget # iput /\ Goes(w, "test", "take") /\ UNCHANGED mutex
  /\ UNCHANGED <<outside, open, clientaddr, ring, mainVars, fd, running, failures>>

\* pthread_cond_wait may return for no reason.
wake(w) ==
  /\ Goes(w, "wait", "relock")
  /\ UNCHANGED <<outside, open, clientaddr, ring, mutex, mainVars, fd, running,
                 failures>>

take(w) ==
  /\ Goes(w, "take", "advance")
  /\ fd' = [fd EXCEPT ![w] = clifd[iget]]
  /\ UNCHANGED <<outside, open, clientaddr, ring, mutex, mainVars, running, failures>>

\* mutant: the slot is read and not passed
advanceGetNot(w) ==
  /\ Goes(w, "advance", "unlock")
  /\ UNCHANGED <<outside, open, clientaddr, ring, mutex, mainVars, fd, running, failures>>

advanceGet(w) ==
  /\ Goes(w, "advance", "unlock")
  /\ iget' = NextSlot(iget)
  /\ UNCHANGED <<outside, open, clientaddr, clifd, iput, mutex, mainVars, fd, running, failures>>

\* server() reads lines up to an empty one.  The buffer it compares is not
\* initialised: it may hold the empty line of an earlier request, and nothing is
\* read.  At the end of the input the buffer stays as it is and the loop goes on:
\* for ever, or until its strcat has run over the stack and the process dies.
read(w) ==
  /\ \/ Goes(w, "read", "forward") /\ UNCHANGED running
     \/ /\ running /\ pc[w] = "read" /\ fd[w] \in gone
        /\ running' = FALSE
        /\ UNCHANGED pc
  /\ UNCHANGED <<outside, open, clientaddr, ring, mutex, mainVars, fd, failures>>

\* client(): forward and copy the response.  A failed Open_clientfd exits, for a
\* DNS error in the Close of its -2; only a response that is not empty is logged.
client(w) ==
  /\ \/ Goes(w, "forward", "lockLog") /\ UNCHANGED <<running, failures>>
     \/ Goes(w, "forward", "close") /\ UNCHANGED <<running, failures>>
     \/ running /\ pc[w] = "forward" /\ Exit /\ UNCHANGED pc
  /\ UNCHANGED <<outside, open, clientaddr, ring, mutex, mainVars, fd>>

\* format_log_entry(lstring, &clientaddr, uri, responseSize): the line that is
\* written for the request of fd[w] names the client in clientaddr.
format_log_entry(w) ==
  /\ Goes(w, "log", "unlockLog")
  /\ UNCHANGED <<outside, open, clientaddr, ring, mutex, mainVars, fd, running, failures>>

Close(w) ==
  /\ Goes(w, "close", "lock")
  /\ open' = open \ {fd[w]}
  /\ gone' = gone \ {fd[w]}
  /\ fd' = [fd EXCEPT ![w] = NoClient]
  /\ UNCHANGED <<backlog, aborts, clientaddr, ring, mutex, mainVars, running,
                 failures>>

thread_main(w) ==
  \/ lock(w) \/ unlock(w) \/ test(w) \/ wake(w) \/ take(w) \/ advanceGet(w)
  \/ read(w) \/ client(w) \/ format_log_entry(w) \/ Close(w)

--------------------------------------------------------------------------------
(* The clients.                                                               *)

Connected(c) == c \in open \/ \E i \in 1 .. Len(backlog) : backlog[i] = c

connect(c) ==
  /\ running
  /\ ~Connected(c)
  /\ backlog' = Append(backlog, c)
  /\ UNCHANGED <<open, gone, clientaddr, ring, mutex, mainVars, workerVars, running, aborts, failures>>

\* Before its headers are complete; what happens afterwards is not seen by read.
abort(c) ==
  /\ running
  /\ c \in open \ gone /\ \A w \in Worker : fd[w] = c => pc[w] \in {"advance", "unlock", "read"}
  /\ aborts < MaxAborts
  /\ aborts' = aborts + 1
  /\ gone' = gone \union {c}
  /\ UNCHANGED <<backlog, open, clientaddr, ring, mutex, mainVars, workerVars, running, failures>>

\* The process has exited.
Halted == ~running /\ UNCHANGED vars

Next == \/ main
        \/ \E w \in Worker : thread_main(w)
        \/ \E c \in Client : connect(c) \/ abort(c)
        \/ Halted

Spec == Init /\ [][Next]_vars

\* The threads run, a mutex that is free again and again is obtained, lookups
\* and end servers answer, and a client sends its headers or closes.  Nothing is
\* assumed of wake, of new connections or of the loop in read after a close.
Scheduling ==
  /\ WF_vars(Accept) /\ WF_vars(Gethostbyaddr) /\ SF_vars(mainLock)
  /\ WF_vars(put \/ advancePut \/ signal \/ mainUnlock)
  /\ \A w \in Worker :
       /\ SF_vars(lock(w))
       /\ WF_vars(unlock(w) \/ test(w) \/ take(w) \/ advanceGet(w) \/ client(w)
                    \/ format_log_entry(w) \/ Close(w))
       /\ WF_vars(read(w) /\ fd[w] \notin gone)

FairSpec == Spec /\ Scheduling

--------------------------------------------------------------------------------
(* What the ring is for.                                                      *)

Size == IF iget <= iput THEN iput - iget ELSE MAXNCLI - iget + iput
SlotAt(k) == IF iget + k < MAXNCLI THEN iget + k ELSE iget + k - MAXNCLI
InRing == [k \in 1 .. Size |-> clifd[SlotAt(k - 1)]]

\* the connections accepted and not handed to a worker, in their order
Accepted == IF mainFd = NoClient THEN InRing ELSE Append(InRing, mainFd)

\* the workers that have taken a connection out of the ring, and the connections
Busy == {w \in Worker : pc[w] \in {"unlock", "read", "forward", "lockLog", "log",
                                   "unlockLog", "close"}}
Serving == {fd[w] : w \in Busy}

\* No connection is lost: what main has accepted and no worker has closed is in
\* main's hand, in the ring, or with a worker of thread_main.  The ring has no
\* test for being full; that is no harm while there are fewer clients than slots.
NoConnectionLost ==
  open = {Accepted[k] : k \in 1 .. Len(Accepted)} \union Serving

\* The ring, the mutex and the condition variable implement a queue: connections
\* are handed to the workers in the order of Accept, each to one worker.
Queue == INSTANCE ProxyQueue WITH waiting <- Accepted, serving <- Serving
IsQueue == Queue!Spec

\* Every accepted connection is served and closed, although a client that closes
\* before the end of its headers may keep one worker in server() for ever: a
\* wakeup is never lost in thread_main and no worker is forgotten.
EveryoneServed ==
  \A c \in Client : (c \in open) ~> (c \notin open \/ c \in gone \/ ~running)
================================================================================
