--------------------------------- MODULE Printd --------------------------------
(******************************************************************************)
(* apue.3e/printer: the print spooling daemon (printd.c) and its client       *)
(* command (print.c).  A client sends a header and its file over a connection *)
(* it keeps open; a thread of the daemon spools them as a data file and a     *)
(* control file, answers, and queues the job; the printer thread sends the    *)
(* jobs to the printer, a job that fails going back to the head of the queue. *)
(* On start the daemon queues again what it finds in the spool directory.     *)
(*                                                                            *)
(* A client's file is PR_FILE reads long.  Reading the printer's answer is    *)
(* in PrinterStatus.                                                          *)
(******************************************************************************)
EXTENDS Integers, Sequences, FiniteSets

CONSTANTS
  PrClient,      \* runs of the print command, one file each
  PR_FILE,       \* reads it takes to get a whole file
  PrStops,       \* bound: ends of the daemon, by SIGTERM or a crash
  PrFaults       \* bound: failures of the disk or of the printer

ASSUME PrAssumption == PR_FILE \in Nat \ {0} /\ PrStops \in Nat /\ PrFaults \in Nat

PrId == 1 .. Cardinality(PrClient)
PrNobody == "nobody"
PrEmpty == "empty"           \* a control file not yet written
NoData == [of |-> PrNobody, len |-> 0]
NoPrJob == [id |-> 0, of |-> PrNobody]

VARIABLES
  prUp,        \* "down", "boot" (in build_qonstart) or "ready"
  prSent,      \* [PrClient -> how much of header and file it has sent]
  prStatus,    \* [PrClient -> what the print command knows of its job]
  prAt,        \* [PrClient -> where client_thread is with it, "none" without one]
  prJob, prRead,   \* [PrClient -> jobid], [PrClient -> reads of the file so far]
  prData, prReq,   \* the spool: [PrId -> data file], [PrId -> whose request, or PrNobody]
  prJobFile, nextjob,   \* the job ID file and the counter
  prScan,      \* the entries build_qonstart has still to read
  prQueue,     \* the list from jobhead to jobtail: Seq([id, of])
  prPc, prCur, \* the printer thread and the job it holds
  prReread,    \* reread
  prPrinted,   \* history: what the printer printed: a set of data files
  prTwice,     \* history: a job number has been given out that a spooled job had
  prStopped, prFaulted   \* bounded counters

prSpool == <<prData, prReq, prJobFile>>
prThreads == <<prAt, prJob, prRead>>
prPrinter == <<prPc, prCur, prReread>>
prCounts == <<prStopped, prFaulted>>
prVars == <<prUp, prSent, prStatus, prThreads, prSpool, nextjob, prScan, prQueue, prPrinter,
            prPrinted, prTwice, prCounts>>

PrInit ==
  /\ prUp = "down" /\ prScan = {} /\ prQueue = <<>> /\ prPc = "none" /\ prCur = NoPrJob
  /\ prSent = [c \in PrClient |-> 0] /\ prStatus = [c \in PrClient |-> "new"]
  /\ prAt = [c \in PrClient |-> "none"] /\ prJob = [c \in PrClient |-> 0]
  /\ prRead = [c \in PrClient |-> 0]
  /\ prData = [i \in PrId |-> NoData] /\ prReq = [i \in PrId |-> PrNobody]
  /\ prJobFile = 0 /\ nextjob = 0 /\ prReread = FALSE
  /\ prPrinted = {} /\ prTwice = FALSE /\ prStopped = 0 /\ prFaulted = 0

PrFault == prFaulted < PrFaults /\ prFaulted' = prFaulted + 1

--------------------------------------------------------------------------------
(* The print command                                                          *)

\* connect_retry, and the daemon's accept and pthread_create.
PrConnect(c) ==
  /\ prUp = "ready" /\ prStatus[c] = "new"
  /\ prStatus' = [prStatus EXCEPT ![c] = "sending"]
  /\ prAt' = [prAt EXCEPT ![c] = "header"]
  /\ UNCHANGED <<prUp, prSent, prJob, prRead, prSpool, nextjob, prScan, prQueue, prPrinter, prPrinted,
                 prTwice, prCounts>>

\* submit_file: the header, then the file; it then reads the answer.
SubmitFile(c) ==
  /\ prStatus[c] = "sending" /\ prSent[c] <= PR_FILE
  /\ prSent' = [prSent EXCEPT ![c] = @ + 1]
  /\ UNCHANGED <<prUp, prStatus, prThreads, prSpool, nextjob, prScan, prQueue, prPrinter,
                 prPrinted, prTwice, prCounts>>

--------------------------------------------------------------------------------
(* client_thread                                                              *)

ThreadGoes(c, from, to) == prAt[c] = from /\ prAt' = [prAt EXCEPT ![c] = to]
ThreadKeeps == UNCHANGED <<prUp, prSent, prJobFile, prScan, prPrinter, prPrinted, prStopped>>

\* The thread writes an answer with an error and exits.
Rejects(c) ==
  /\ prAt' = [prAt EXCEPT ![c] = "gone"]
  /\ prStatus' = [prStatus EXCEPT ![c] = "rejected"]

\* treadn of the header, then get_newjobno; or treadn gives up after 10 seconds.
ReadHeader(c) ==
  /\ prAt[c] = "header"
  /\ \/ /\ prSent[c] > 0 /\ nextjob \in PrId
        /\ ThreadGoes(c, "header", "create")
        /\ prJob' = [prJob EXCEPT ![c] = nextjob] /\ nextjob' = nextjob + 1
        /\ prTwice' = (prTwice \/ prReq[nextjob] # PrNobody)
        /\ UNCHANGED prStatus
     \/ /\ prSent[c] = 0
        /\ Rejects(c)
        /\ UNCHANGED <<prJob, prRead, nextjob, prTwice>>
  /\ UNCHANGED <<prRead, prData, prReq, prQueue, prFaulted>> /\ ThreadKeeps

\* creat of the data file.
CreateData(c) ==
  /\ prAt[c] = "create"
  /\ \/ /\ ThreadGoes(c, "create", "read")
        /\ prData' = [prData EXCEPT ![prJob[c]] = [of |-> c, len |-> 0]]
        /\ UNCHANGED <<prStatus, prFaulted>>
     \/ PrFault /\ Rejects(c) /\ UNCHANGED prData
  /\ UNCHANGED <<prJob, prRead, nextjob, prReq, prQueue, prTwice>> /\ ThreadKeeps

HasMore(c) == prRead[c] + 1 < prSent[c]

\* tread of the file, each read written to the data file (if it still has its name); a short
\* write ends it.
ReadFile(c) ==
  LET id == prJob[c]
  IN  /\ prAt[c] = "read" /\ HasMore(c)
      /\ \/ /\ prRead' = [prRead EXCEPT ![c] = @ + 1]
            /\ prData' = IF prData[id].of = c THEN [prData EXCEPT ![id].len = prRead[c] + 1] ELSE prData
            /\ UNCHANGED <<prAt, prStatus, prFaulted>>
         \/ PrFault /\ Rejects(c) /\ prData' = [prData EXCEPT ![id] = NoData] /\ UNCHANGED prRead
      /\ UNCHANGED <<prJob, nextjob, prReq, prQueue, prTwice>> /\ ThreadKeeps

\* tread finds nothing for 20 seconds: the connection stays open, so this is how every file ends.
ReadTimesOut(c) ==
  /\ ~HasMore(c)
  /\ ThreadGoes(c, "read", "control")
  /\ UNCHANGED <<prStatus, prJob, prRead, nextjob, prData, prReq, prQueue, prTwice, prFaulted>>
  /\ ThreadKeeps

\* creat of the control file, or the data file goes.
CreateControl(c) ==
  /\ prAt[c] = "control"
  /\ \/ /\ ThreadGoes(c, "control", "write")
        /\ prReq' = [prReq EXCEPT ![prJob[c]] = PrEmpty]
        /\ UNCHANGED <<prStatus, prData, prFaulted>>
     \/ PrFault /\ Rejects(c) /\ prData' = [prData EXCEPT ![prJob[c]] = NoData] /\ UNCHANGED prReq
  /\ UNCHANGED <<prJob, prRead, nextjob, prQueue, prTwice>> /\ ThreadKeeps

\* write of the control file, or both files go.
WriteControl(c) ==
  /\ prAt[c] = "write"
  /\ \/ /\ ThreadGoes(c, "write", "respond")
        /\ prReq' = [prReq EXCEPT ![prJob[c]] = c]
        /\ UNCHANGED <<prStatus, prData, prFaulted>>
     \/ /\ PrFault /\ Rejects(c)
        /\ prData' = [prData EXCEPT ![prJob[c]] = NoData]
        /\ prReq' = [prReq EXCEPT ![prJob[c]] = PrNobody]
  /\ UNCHANGED <<prJob, prRead, nextjob, prQueue, prTwice>> /\ ThreadKeeps

Respond(c) ==
  /\ ThreadGoes(c, "respond", "queue")
  /\ prStatus' = [prStatus EXCEPT ![c] = "accepted"]
  /\ UNCHANGED <<prJob, prRead, nextjob, prData, prReq, prQueue, prTwice, prFaulted>> /\ ThreadKeeps

\* add_job up to the unlock.
AddJob(c) ==
  /\ ThreadGoes(c, "queue", "signal")
  /\ prQueue' = Append(prQueue, [id |-> prJob[c], of |-> c])
  /\ UNCHANGED <<prStatus, prJob, prRead, nextjob, prData, prReq, prTwice, prFaulted>> /\ ThreadKeeps

\* pthread_cond_signal of jobwait wakes the printer thread.
SignalJob == prPc' = IF prPc = "asleep" THEN "get" ELSE prPc

AddJobSignals(c) ==
  /\ ThreadGoes(c, "signal", "gone")
  /\ SignalJob
  /\ UNCHANGED <<prUp, prSent, prStatus, prJob, prRead, prSpool, nextjob, prScan, prQueue, prCur, prReread,
                 prPrinted, prTwice, prCounts>>

--------------------------------------------------------------------------------
(* printer_thread and signal_thread                                           *)

PrinterGoes(from, to) == prPc = from /\ prPc' = to
PrinterKeeps == UNCHANGED <<prUp, prSent, prStatus, prThreads, nextjob, prScan, prTwice, prStopped>>

\* Get a job to print, or wait for one.
GetJob ==
  /\ \/ /\ prQueue = <<>> /\ PrinterGoes("get", "asleep")
        /\ UNCHANGED <<prQueue, prCur>>
     \/ /\ prQueue # <<>> /\ PrinterGoes("get", "number")
        /\ prCur' = Head(prQueue) /\ prQueue' = Tail(prQueue)
  /\ UNCHANGED <<prSpool, prReread, prPrinted, prFaulted>> /\ PrinterKeeps

\* update_jobno: nextjob is read without its lock, an aligned int.
UpdateJobno ==
  /\ PrinterGoes("number", "config")
  /\ prJobFile' = nextjob
  /\ UNCHANGED <<prData, prReq, prQueue, prCur, prReread, prPrinted, prFaulted>> /\ PrinterKeeps

CheckConfig ==
  /\ PrinterGoes("config", "open")
  /\ prReread' = FALSE
  /\ UNCHANGED <<prSpool, prQueue, prCur, prPrinted, prFaulted>> /\ PrinterKeeps

\* open of the data file; without it the job is dropped, its control file left.
OpenData ==
  /\ \/ /\ PrinterGoes("open", "send") /\ prData[prCur.id] # NoData
        /\ UNCHANGED prCur
     \/ /\ PrinterGoes("open", "get") /\ prData[prCur.id] = NoData
        /\ prCur' = NoPrJob
  /\ UNCHANGED <<prSpool, prQueue, prReread, prPrinted, prFaulted>> /\ PrinterKeeps

\* The job is printed and the printer says so.
SendJob ==
  /\ PrinterGoes("send", "unlink")
  /\ prPrinted' = prPrinted \union {prData[prCur.id]}
  /\ UNCHANGED <<prSpool, prQueue, prCur, prReread, prFaulted>> /\ PrinterKeeps


\* The printer cannot be reached or does not answer well, the job printed or not: replace_job.
DeferJob ==
  /\ PrFault /\ PrinterGoes("send", "sleep")
  /\ prPrinted' \in {prPrinted, prPrinted \union {prData[prCur.id]}}
  /\ prQueue' = <<prCur>> \o prQueue /\ prCur' = NoPrJob
  /\ UNCHANGED <<prSpool, prReread>> /\ PrinterKeeps


\* nanosleep, one minute.
PrinterSleeps ==
  /\ PrinterGoes("sleep", "get")
  /\ UNCHANGED <<prSpool, prQueue, prCur, prReread, prPrinted, prFaulted>> /\ PrinterKeeps

UnlinkData ==
  /\ PrinterGoes("unlink", "unlinkreq")
  /\ prData' = [prData EXCEPT ![prCur.id] = NoData]
  /\ UNCHANGED <<prReq, prJobFile, prQueue, prCur, prReread, prPrinted, prFaulted>> /\ PrinterKeeps

UnlinkReq ==
  /\ PrinterGoes("unlinkreq", "get")
  /\ prReq' = [prReq EXCEPT ![prCur.id] = PrNobody] /\ prCur' = NoPrJob
  /\ UNCHANGED <<prData, prJobFile, prQueue, prReread, prPrinted, prFaulted>> /\ PrinterKeeps

\* bound: SIGHUP comes right before the printer thread looks at reread, as nothing else does
Sighup ==
  /\ prPc = "config" /\ prReread = FALSE
  /\ prReread' = TRUE
  /\ UNCHANGED <<prPc, prCur, prSpool, prQueue, prPrinted, prFaulted>> /\ PrinterKeeps

--------------------------------------------------------------------------------
(* The daemon's life                                                          *)

\* The process ends: on SIGTERM, in a crash, or because init_printer, reading the configuration
\* again, finds no printer.  The clients not yet answered lose their connection.
DaemonEnds ==
  /\ prUp # "down" /\ prStopped < PrStops
  /\ prStopped' = prStopped + 1
  /\ prUp' = "down" /\ prScan' = {} /\ prQueue' = <<>> /\ nextjob' = 0
  /\ prPc' = "none" /\ prCur' = NoPrJob /\ prReread' = FALSE
  /\ prAt' = [c \in PrClient |-> "none"] /\ prJob' = [c \in PrClient |-> 0]
  /\ prRead' = [c \in PrClient |-> 0]
  /\ prStatus' = [c \in PrClient |-> IF prStatus[c] = "sending" THEN "lost" ELSE prStatus[c]]
  /\ UNCHANGED <<prSent, prSpool, prPrinted, prTwice, prFaulted>>

\* main up to build_qonstart: init_request reads the job ID file; the printer thread starts.
DaemonStarts ==
  /\ prUp = "down"
  /\ prUp' = "boot" /\ prPc' = "get"
  /\ nextjob' = IF prJobFile = 0 THEN 1 ELSE prJobFile
  /\ prScan' = {i \in PrId : prReq[i] # PrNobody}
  /\ UNCHANGED <<prSent, prStatus, prThreads, prSpool, prQueue, prCur, prReread, prPrinted, prTwice,
                 prCounts>>

\* build_qonstart: one entry of the directory, in any order; a control file it cannot read goes,
\* and its data file with it.
BuildQonstart ==
  /\ prUp = "boot"
  /\ \E i \in prScan :
       /\ prScan' = prScan \ {i}
       /\ \/ /\ prReq[i] = PrEmpty
             /\ prReq' = [prReq EXCEPT ![i] = PrNobody] /\ prData' = [prData EXCEPT ![i] = NoData]
             /\ UNCHANGED <<prQueue, prPc>>
          \/ /\ prReq[i] \in PrClient
             /\ prQueue' = Append(prQueue, [id |-> i, of |-> prReq[i]])
             /\ SignalJob
             /\ UNCHANGED <<prReq, prData>>
  /\ UNCHANGED <<prUp, prSent, prStatus, prThreads, prJobFile, nextjob, prCur, prReread, prPrinted,
                 prTwice, prCounts>>

BuildEnds ==
  /\ prUp = "boot" /\ prScan = {}
  /\ prUp' = "ready"
  /\ UNCHANGED <<prSent, prStatus, prThreads, prSpool, nextjob, prScan, prQueue, prPrinter,
                 prPrinted, prTwice, prCounts>>

PrThread(c) ==
  \/ ReadHeader(c) \/ CreateData(c) \/ ReadFile(c) \/ ReadTimesOut(c) \/ CreateControl(c)
  \/ WriteControl(c) \/ Respond(c) \/ AddJob(c) \/ AddJobSignals(c)
PrinterThread ==
  \/ GetJob \/ UpdateJobno \/ CheckConfig \/ OpenData \/ SendJob \/ DeferJob \/ PrinterSleeps
  \/ UnlinkData \/ UnlinkReq
PrMain == DaemonStarts \/ BuildQonstart \/ BuildEnds

PrNext ==
  \/ \E c \in PrClient : PrConnect(c) \/ SubmitFile(c) \/ PrThread(c)
  \/ PrinterThread \/ PrMain \/ Sighup \/ DaemonEnds

PrSpec == PrInit /\ [][PrNext]_prVars
PrFairness ==
  /\ \A c \in PrClient : WF_prVars(PrConnect(c)) /\ WF_prVars(SubmitFile(c)) /\ WF_prVars(PrThread(c))
  /\ WF_prVars(PrinterThread) /\ WF_prVars(PrMain)
--------------------------------------------------------------------------------
(* Properties                                                                 *)

PrJobs == {[id |-> i, of |-> c] : i \in PrId, c \in PrClient}

\* Each variable has its type.
PrTypeOK ==
  /\ prUp \in {"down", "boot", "ready"}
  /\ prSent \in [PrClient -> 0 .. PR_FILE + 1] /\ prRead \in [PrClient -> 0 .. PR_FILE]
  /\ prStatus \in [PrClient -> {"new", "sending", "accepted", "rejected", "lost"}]
  /\ prAt \in [PrClient -> {"none", "header", "create", "read", "control", "write", "respond",
                             "queue", "signal", "gone"}]
  /\ prJob \in [PrClient -> PrId \union {0}]
  /\ prData \in [PrId -> [of : PrClient \union {PrNobody}, len : 0 .. PR_FILE]]
  /\ prReq \in [PrId -> PrClient \union {PrNobody, PrEmpty}]
  /\ prJobFile \in 0 .. Cardinality(PrId) + 1 /\ nextjob \in 0 .. Cardinality(PrId) + 1
  /\ prScan \subseteq PrId /\ prQueue \in Seq(PrJobs) /\ prCur \in PrJobs \union {NoPrJob}
  /\ prPc \in {"none", "get", "asleep", "number", "config", "open", "send", "sleep", "unlink",
               "unlinkreq"}
  /\ prReread \in BOOLEAN /\ prTwice \in BOOLEAN
  /\ prPrinted \subseteq [of : PrClient \union {PrNobody}, len : 0 .. PR_FILE]
  /\ prStopped \in 0 .. PrStops /\ prFaulted \in 0 .. PrFaults

IsPrinted(c) == \E d \in prPrinted : d.of = c

\* What the client was told is accepted is printed or is in the spool with its control file, at
\* every point where the daemon may end; as long as no job number was given out twice.
PrAcceptedKept ==
  \A c \in PrClient : prStatus[c] = "accepted" /\ ~prTwice =>
    IsPrinted(c) \/ \E i \in PrId : prReq[i] = c /\ prData[i].of = c

\* While the daemon serves clients every accepted job is in the hands of someone who will bring it
\* to the printer: its thread about to queue it, the queue, or the printer thread; a restart and
\* a deferral included.
PrAcceptedQueued ==
  \A c \in PrClient : prStatus[c] = "accepted" /\ ~prTwice /\ prUp = "ready" =>
    \/ IsPrinted(c) \/ prAt[c] = "queue"
    \/ \E job \in {prQueue[n] : n \in DOMAIN prQueue} \union {prCur} :
         job.of = c /\ prData[job.id].of = c

\* No job is in the queue twice, though the start-up scan and the printer thread run together.
PrQueuedOnce ==
  ~prTwice => \A m, n \in DOMAIN prQueue : /\ m # n => prQueue[m].id # prQueue[n].id
                                            /\ prQueue[n].id # prCur.id

\* The printer thread does not sleep over a queued job: someone is about to signal jobwait, though
\* add_job signals after it has released joblock.
PrNoLostWakeup ==
  prPc = "asleep" /\ prQueue # <<>> => \E c \in PrClient : prAt[c] = "signal"


====
