------------------------------- MODULE VipManager -------------------------------
(******************************************************************************)
(* The virtual IP addresses of one host: HAControllerVipManager, the commands *)
(* of HAControllerVip and HAControllerAutoIfDown, and scripts/autoifdown.sh.  *)
(*                                                                            *)
(* initializeAvailableVips adds each address to the interface and starts a    *)
(* guard for it: a task of the pool that runs autoifdown.sh, which blocks in  *)
(* read and deletes the address when its input is closed, because the task is *)
(* interrupted or because the JVM has died.  destroyVips cancels the tasks;   *)
(* the addresses go later, when the scripts end.  Any thread may make either  *)
(* call: nothing in the manager is synchronized.                              *)
(******************************************************************************)
EXTENDS Integers, Sequences, FiniteSets, FiniteSetsExt

CONSTANTS
  NVips,       \* the number of configured addresses; address i is the i-th
  Caller,      \* the threads that command the local node
  MaxTasks,    \* bound: guards that exist at a time
  MaxCrashes,  \* bound: deaths of the JVM
  Calm         \* calls and restarts wait until all scripts have come to rest

ASSUME VipCounts == NVips \in Nat /\ MaxTasks \in Nat /\ MaxCrashes \in Nat
ASSUME CalmIsBoolean == Calm \in BOOLEAN

Vip == 1 .. NVips
Task == 1 .. MaxTasks

VARIABLES
  up,        \* SUBSET Vip: the addresses the interface has
  known,     \* SUBSET Vip: NetworkInterface.getSubInterfaces, as of the start of the JVM
  vipsup,    \* SUBSET Task: the entries of the map of the manager
  vip,       \* [Task -> Vip]: the address a guard is for
  guard,     \* [Task -> {"submitted", "running", "ending", "done"}]
  at,        \* [Caller -> STRING]: the next step of each thread
  index,     \* [Caller -> Vip]: the address initializeAvailableVips is at
  held,      \* [Caller -> SUBSET Task]: the futures init has submitted and not put;
             \* the entries destroyVips has still to visit
  stale,     \* SUBSET Caller: those whose iterator has missed a change of the map
  pool,      \* BOOLEAN: the pool takes tasks
  jvm,       \* BOOLEAN: the JVM runs
  asked,     \* the last command: "none", "up", "down" or "finish"
  crashes

map == <<vipsup, stale>>
tasks == <<vip, guard>>
threads == <<at, index, held>>
host == <<known, pool, jvm, crashes>>
vars == <<up, map, tasks, threads, host, asked>>

Place == {"idle", "bringInterfaceDown", "bringInterfaceUp", "submit", "put",
          "cancel", "cancelAll"}

TypeOK ==
  /\ up \subseteq Vip /\ known \subseteq Vip
  /\ vipsup \subseteq Task /\ stale \subseteq Caller
  /\ vip \in [Task -> Vip]
  /\ guard \in [Task -> {"submitted", "running", "ending", "done"}]
  /\ at \in [Caller -> Place]
  /\ index \in [Caller -> Vip]
  /\ held \in [Caller -> SUBSET Task]
  /\ pool \in BOOLEAN /\ jvm \in BOOLEAN
  /\ asked \in {"none", "up", "down", "finish"}
  /\ crashes \in 0 .. MaxCrashes

Init ==
  /\ up = {} /\ known = {}
  /\ vipsup = {} /\ stale = {}
  /\ vip = [t \in Task |-> 1] /\ guard = [t \in Task |-> "done"]
  /\ at = [c \in Caller |-> "idle"] /\ index = [c \in Caller |-> 1]
  /\ held = [c \in Caller |-> {}]
  /\ pool = TRUE /\ jvm = TRUE
  /\ asked = "none"
  /\ crashes = 0

\* Nobody is in a call, and every script blocks in read or has ended.
Settled == /\ \A c \in Caller : at[c] = "idle"
           /\ \A t \in Task : guard[t] \in {"running", "done"}

Possible == Calm => Settled

\* The tasks that are in nobody's hands.
Unused == {t \in Task : guard[t] = "done" /\ t \notin vipsup
                        /\ \A c \in Caller : t \notin held[c]}

--------------------------------------------------------------------------------
(* initializeAvailableVips                                                    *)

Return(c) == /\ at' = [at EXCEPT ![c] = "idle"]
             /\ index' = [index EXCEPT ![c] = 1]
             /\ held' = [held EXCEPT ![c] = {}]
             /\ stale' = stale \ {c}

Goes(c, from, to) == jvm /\ at[c] = from /\ at' = [at EXCEPT ![c] = to]

\* The bound on guards leaves room for every call that has begun, and this one.
Initializing == {c \in Caller : at[c] \in {"bringInterfaceDown", "bringInterfaceUp",
                                          "submit", "put"}}
RoomForGuards == NVips * (Cardinality(Initializing) + 1) <= Cardinality(Unused)

initializeAvailableVips(c) ==
  /\ Possible /\ RoomForGuards
  /\ Goes(c, "idle", "bringInterfaceDown")
  /\ asked' = "up"
  /\ UNCHANGED <<up, map, tasks, index, held, host>>

\* mutant: previous settings stay
bringInterfaceDownNot(c) ==
  /\ Goes(c, "bringInterfaceDown", "bringInterfaceUp")
  /\ UNCHANGED <<up, map, tasks, index, held, host, asked>>

\* Clear previous settings: sudo ip addr del, if the sub-interface is known.
\* Whether the command fails is only logged.
bringInterfaceDown(c) ==
  /\ Goes(c, "bringInterfaceDown", "bringInterfaceUp")
  /\ up' = up \ ({index[c]} \intersect known)
  /\ UNCHANGED <<map, tasks, index, held, host, asked>>

\* sudo ip addr add: an address the interface already has is an error, and the
\* exception ends the loop over the addresses.
bringInterfaceUp(c) ==
  /\ \/ /\ index[c] \notin up
        /\ Goes(c, "bringInterfaceUp", "submit")
        /\ up' = up \union {index[c]}
        /\ UNCHANGED <<index, held, stale>>
     \/ /\ jvm /\ at[c] = "bringInterfaceUp" /\ index[c] \in up
        /\ Return(c)
        /\ UNCHANGED up
  /\ UNCHANGED <<vipsup, tasks, host, asked>>

\* pool.submit(createIfDownCallable(...)); a pool that has been shut down
\* rejects the task with an exception.
submit(c) ==
  /\ \/ /\ pool /\ Unused # {}
        /\ Goes(c, "submit", "put")
        /\ LET t == Min(Unused) IN
             /\ vip' = [vip EXCEPT ![t] = index[c]]
             /\ guard' = [guard EXCEPT ![t] = "submitted"]
             /\ held' = [held EXCEPT ![c] = {t}]
        /\ UNCHANGED <<index, stale>>
     \/ /\ jvm /\ ~pool /\ at[c] = "submit"
        /\ Return(c)
        /\ UNCHANGED tasks
  /\ UNCHANGED <<up, vipsup, host, asked>>

\* The map has changed under the iterators of the other threads.
Iterating == {d \in Caller : at[d] \in {"cancel", "cancelAll"}}

\* vipsup.put(vip, futures), and on to the next address
put(c) ==
  /\ jvm /\ at[c] = "put"
  /\ vipsup' = vipsup \union held[c]
  /\ stale' = stale \union Iterating
  /\ held' = [held EXCEPT ![c] = {}]
  /\ IF index[c] < NVips
     THEN /\ at' = [at EXCEPT ![c] = "bringInterfaceDown"]
          /\ index' = [index EXCEPT ![c] = index[c] + 1]
     ELSE /\ at' = [at EXCEPT ![c] = "idle"]
          /\ index' = [index EXCEPT ![c] = 1]
  /\ UNCHANGED <<up, tasks, host, asked>>

--------------------------------------------------------------------------------
(* destroyVips, and destroy after it when it is called by finish().           *)

destroyVips(c) ==
  /\ Possible
  /\ \/ Goes(c, "idle", "cancel") /\ asked' = "down"
     \/ pool /\ Goes(c, "idle", "cancelAll") /\ asked' = "finish"
  /\ held' = [held EXCEPT ![c] = vipsup]
  /\ UNCHANGED <<up, map, tasks, index, host>>

\* future.cancel(true): a task that has not started never runs, one that runs is
\* interrupted in waitFor and closes the input of its script.
Cancelled(s) ==
  [t \in Task |-> CASE t \in s /\ guard[t] = "submitted" -> "done"
                    [] t \in s /\ guard[t] = "running" -> "ending"
                    [] OTHER -> guard[t]]

\* The next entry; an iterator that has missed a change throws
\* ConcurrentModificationException.
cancel(c) ==
  /\ jvm /\ c \in Iterating
  /\ held[c] # {}
  /\ \/ /\ c \notin stale
        /\ \E t \in held[c] :
             /\ guard' = Cancelled({t})
             /\ held' = [held EXCEPT ![c] = @ \ {t}]
        /\ UNCHANGED <<at, index, stale>>
     \/ c \in stale /\ Return(c) /\ UNCHANGED guard
  /\ UNCHANGED <<up, vipsup, vip, host, asked>>

\* pool.shutdownNow interrupts every task; one that is about to start runs its
\* script and finds itself interrupted in waitFor.
ShutDown == [t \in Task |-> IF guard[t] \in {"submitted", "running"} THEN "ending"
                                                                     ELSE guard[t]]

\* vipsup.clear(); finish() goes on with destroy().
clear(c) ==
  /\ jvm /\ c \in Iterating
  /\ held[c] = {}
  /\ vipsup' = {}
  /\ stale' = (stale \union Iterating) \ {c}
  /\ at' = [at EXCEPT ![c] = "idle"]
  /\ \/ at[c] = "cancel" /\ UNCHANGED <<guard, pool>>
     \/ at[c] = "cancelAll" /\ guard' = ShutDown /\ pool' = FALSE
  /\ UNCHANGED <<up, vip, index, held, known, jvm, crashes, asked>>

--------------------------------------------------------------------------------
(* The guards, the scripts and the JVM.                                       *)

\* A thread of the pool starts the task: sudo autoifdown.sh
launch(t) ==
  /\ jvm /\ guard[t] = "submitted"
  /\ guard' = [guard EXCEPT ![t] = "running"]
  /\ UNCHANGED <<up, map, vip, threads, host, asked>>

\* mutant: the script does not delete the address at its exit
do_at_exitNothing(t) ==
  /\ guard[t] = "ending"
  /\ guard' = [guard EXCEPT ![t] = "done"]
  /\ UNCHANGED <<up, map, vip, threads, host, asked>>

\* read has seen the end of the input, or a signal: trap do_at_exit, which
\* deletes the address of the script whoever added it last.  "ip addr del" finds
\* an address by its value; that the index in the label is passed in binary
\* (Integer.toBinaryString, "10" for the third address) has no effect on it.
do_at_exit(t) ==
  /\ guard[t] = "ending"
  /\ guard' = [guard EXCEPT ![t] = "done"]
  /\ up' = up \ {vip[t]}
  /\ UNCHANGED <<map, vip, threads, host, asked>>

\* The JVM dies: the input of every script is closed.
die ==
  /\ jvm /\ crashes < MaxCrashes
  /\ jvm' = FALSE /\ crashes' = crashes + 1
  /\ guard' = [t \in Task |-> CASE guard[t] = "submitted" -> "done"
                                [] guard[t] = "running" -> "ending"
                                [] OTHER -> guard[t]]
  /\ vipsup' = {} /\ stale' = {}
  /\ at' = [c \in Caller |-> "idle"] /\ index' = [c \in Caller |-> 1]
  /\ held' = [c \in Caller |-> {}]
  /\ asked' = "none"
  /\ UNCHANGED <<up, vip, known, pool>>

\* A new JVM: recognizeNodeByInterfaces takes the NetworkInterface as it is.
recognizeNodeByInterfaces ==
  /\ ~jvm /\ Possible
  /\ jvm' = TRUE /\ pool' = TRUE
  /\ known' = up
  /\ UNCHANGED <<up, map, tasks, threads, crashes, asked>>

CallerStep(c) == \/ bringInterfaceDown(c) \/ bringInterfaceUp(c) \/ submit(c) \/ put(c)
                 \/ cancel(c) \/ clear(c)

Next == \/ \E c \in Caller : CallerStep(c) \/ initializeAvailableVips(c) \/ destroyVips(c)
        \/ \E t \in Task : launch(t) \/ do_at_exit(t)
        \/ die \/ recognizeNodeByInterfaces

Spec == Init /\ [][Next]_vars

--------------------------------------------------------------------------------
\* initializeAvailableVips brings every address up, also on a host where an
\* earlier JVM has died anywhere in the call and left addresses behind.
UpAfterInit == Settled /\ asked = "up" /\ pool => up = Vip

\* Once the scripts have come to rest the addresses follow the last command: all
\* are up after initializeAvailableVips, none after destroyVips or finish() but
\* those that a dead JVM left and the interface had when this one started.
VipsFollowCommand ==
  /\ UpAfterInit
  /\ Settled => /\ asked = "down" /\ pool => up \subseteq known
                /\ asked = "finish" => up \subseteq known

\* The addresses that a script guards or has begun to delete.
Guarded == {vip[t] : t \in {u \in Task : guard[u] \in {"running", "ending"}}}

\* autoifdown.sh: when the JVM dies, the addresses with a guard go down without
\* it, whatever the threads of the manager were doing.
AutoDown == \A v \in Vip : (~jvm /\ v \in Guarded) ~> (v \notin up \/ jvm)

\* The host's addresses, the JVM's books and the last command agree.
VipSafe == TypeOK /\ VipsFollowCommand
================================================================================
