---------------------------------- MODULE WebGet --------------------------------
(******************************************************************************)
(* unpv13e/threads/web03.c: a client that fetches files, each in a thread of  *)
(* its own, with at most maxnconn at a time.  A thread that is done sets its  *)
(* file's flag, then increments ndone under the mutex and signals; the main   *)
(* thread waits for ndone and joins every file whose flag says done.  The     *)
(* connection and the transfer are external and take one step.                *)
(******************************************************************************)
EXTENDS Integers, FiniteSets

CONSTANTS WgFiles, maxnconn

ASSUME WgAssumption == WgFiles \in Nat \ {0} /\ maxnconn \in Nat \ {0}

VARIABLES
  f_flags,                  \* of each file: "0", "CONNECTING", "READING", "DONE", "JOINED"
  nconn, nlefttoconn, nlefttoread, ndone,
  ndone_mutex,              \* who holds it: "none", "main" or a file's thread
  wgMain,                   \* "start", "lock", "wait", "asleep", "scan", "join", "exit"
  wgI,                      \* the main thread's i
  wgThread                  \* of each file: "none", "get", "read", "lock", "count", "ended"

wgCounts == <<nconn, nlefttoconn, nlefttoread, ndone>>
wgVars == <<f_flags, wgCounts, ndone_mutex, wgMain, wgI, wgThread>>

File == 1 .. WgFiles
WgFree == 0
WgMain == WgFiles + 1       \* the main thread as the mutex's owner

WgInit ==
  /\ f_flags = [f \in File |-> "0"]
  /\ nconn = 0 /\ nlefttoconn = WgFiles /\ nlefttoread = WgFiles /\ ndone = 0
  /\ ndone_mutex = WgFree /\ wgMain = "start" /\ wgI = 0
  /\ wgThread = [f \in File |-> "none"]

WgMayStart == nconn < maxnconn /\ nlefttoconn > 0

\* The first file that was not started gets a thread.
WgStart ==
  /\ wgMain = "start" /\ WgMayStart
  /\ LET f == CHOOSE g \in File : f_flags[g] = "0" /\ \A h \in File : f_flags[h] = "0" => g <= h
     IN  /\ f_flags' = [f_flags EXCEPT ![f] = "CONNECTING"]
         /\ wgThread' = [wgThread EXCEPT ![f] = "get"]
  /\ nconn' = nconn + 1 /\ nlefttoconn' = nlefttoconn - 1
  /\ UNCHANGED <<nlefttoread, ndone, ndone_mutex, wgMain, wgI>>

\* Enough are started: the main thread locks the mutex, or takes it again after the signal.
WgLock ==
  /\ wgMain = "lock" \/ (wgMain = "start" /\ ~WgMayStart)
  /\ ndone_mutex = WgFree /\ ndone_mutex' = WgMain
  /\ wgMain' = "wait"
  /\ UNCHANGED <<f_flags, wgCounts, wgI, wgThread>>

\* mutant: the main thread sleeps without a look at ndone.
WgWaitBlind ==
  /\ wgMain = "wait"
  /\ ndone_mutex' = WgFree /\ wgMain' = "asleep"
  /\ UNCHANGED <<f_flags, wgCounts, wgI, wgThread>>

WgWait ==
  /\ wgMain = "wait"
  /\ IF ndone = 0
     THEN ndone_mutex' = WgFree /\ wgMain' = "asleep" /\ UNCHANGED wgI
     ELSE wgMain' = "scan" /\ wgI' = 1 /\ UNCHANGED ndone_mutex
  /\ UNCHANGED <<f_flags, wgCounts, wgThread>>

\* The flags are read in order, and the mutex is held; after the last file it is unlocked.
WgScan ==
  /\ wgMain = "scan"
  /\ \/ /\ wgI <= WgFiles
        /\ IF f_flags[wgI] = "DONE" THEN wgMain' = "join" /\ UNCHANGED wgI ELSE wgI' = wgI + 1 /\ UNCHANGED wgMain
        /\ UNCHANGED ndone_mutex
     \/ /\ wgI > WgFiles
        /\ ndone_mutex' = WgFree
        /\ wgMain' = (IF nlefttoread > 0 THEN "start" ELSE "exit") /\ wgI' = 0
  /\ UNCHANGED <<f_flags, wgCounts, wgThread>>

WgJoin ==
  /\ wgMain = "join" /\ wgThread[wgI] = "ended"
  /\ f_flags' = [f_flags EXCEPT ![wgI] = "JOINED"]
  /\ ndone' = ndone - 1 /\ nconn' = nconn - 1 /\ nlefttoread' = nlefttoread - 1
  /\ wgMain' = "scan" /\ wgI' = wgI + 1
  /\ UNCHANGED <<nlefttoconn, ndone_mutex, wgThread>>

\* do_get_read: the command is sent.
WgGet(f) ==
  /\ wgThread[f] = "get" /\ wgThread' = [wgThread EXCEPT ![f] = "read"]
  /\ f_flags' = [f_flags EXCEPT ![f] = "READING"]
  /\ UNCHANGED <<wgCounts, ndone_mutex, wgMain, wgI>>

\* The file is read and the flag set, without the mutex.
WgDone(f) ==
  /\ wgThread[f] = "read" /\ wgThread' = [wgThread EXCEPT ![f] = "lock"]
  /\ f_flags' = [f_flags EXCEPT ![f] = "DONE"]
  /\ UNCHANGED <<wgCounts, ndone_mutex, wgMain, wgI>>

WgThreadLocks(f) ==
  /\ wgThread[f] = "lock" /\ wgThread' = [wgThread EXCEPT ![f] = "count"]
  /\ ndone_mutex = WgFree /\ ndone_mutex' = f
  /\ UNCHANGED <<f_flags, wgCounts, wgMain, wgI>>

\* ndone is incremented and signalled, the mutex unlocked, and the thread ends.
WgSignal(f) ==
  /\ wgThread[f] = "count" /\ wgThread' = [wgThread EXCEPT ![f] = "ended"]
  /\ ndone' = ndone + 1 /\ ndone_mutex' = WgFree
  /\ wgMain' = IF wgMain = "asleep" THEN "lock" ELSE wgMain
  /\ UNCHANGED <<f_flags, nconn, nlefttoconn, nlefttoread, wgI>>

WgNext ==
  \/ WgStart \/ WgLock \/ WgWait \/ WgScan \/ WgJoin
  \/ \E f \in File : WgGet(f) \/ WgDone(f) \/ WgThreadLocks(f) \/ WgSignal(f)

WgSpec == WgInit /\ [][WgNext]_wgVars

--------------------------------------------------------------------------------
(* Properties                                                                 *)

\* Each variable has its type.
WgTypeOK ==
  /\ f_flags \in [File -> {"0", "CONNECTING", "READING", "DONE", "JOINED"}]
  /\ nconn \in 0 .. maxnconn /\ nlefttoconn \in 0 .. WgFiles /\ nlefttoread \in 0 .. WgFiles
  /\ ndone \in 0 .. WgFiles /\ ndone_mutex \in 0 .. WgFiles + 1
  /\ wgMain \in {"start", "lock", "wait", "asleep", "scan", "join", "exit"} /\ wgI \in 0 .. WgFiles + 1
  /\ wgThread \in [File -> {"none", "get", "read", "lock", "count", "ended"}]

\* The counters say what the flags say: never more than maxnconn threads are there, ndone counts the
\* ended threads that were not joined, and main exits when every file was joined.
WgCounted ==
  /\ nconn = Cardinality({f \in File : f_flags[f] \notin {"0", "JOINED"}})
  /\ ndone = Cardinality({f \in File : wgThread[f] = "ended" /\ f_flags[f] # "JOINED"})
  /\ nlefttoread = Cardinality({f \in File : f_flags[f] # "JOINED"})
  /\ nlefttoconn = Cardinality({f \in File : f_flags[f] = "0"})

\* The main thread never sleeps for a thread that has counted itself: no signal is lost.
WgNoLostSignal == wgMain = "asleep" => ndone = 0 /\ \E f \in File : wgThread[f] \in {"get", "read", "lock", "count"}

\* The counters, the flags and the sleep of the main thread agree with what the threads have done.
WgSafe == WgTypeOK /\ WgCounted /\ WgNoLostSignal
====
