---------------------------------- MODULE Dtree ---------------------------------
(******************************************************************************)
(* tlpi-dist/inotify/inotify_dtree.c: a cache of the directories of a tree,   *)
(* kept consistent with the filesystem by inotify.  The filesystem changes    *)
(* while the program runs: events tell of what has happened, the walk of a    *)
(* new subtree (nftw) sees what is there now.                                 *)
(*                                                                            *)
(* A path is the sequence of names below the one root directory, which stays  *)
(* where it is.  The kernel's side (watches, the event queue and its          *)
(* overflow, directories) is external.  IN_IGNORED events, which the program  *)
(* skips, and IN_UNMOUNT are left out.  A cache slot is a record [wd, path];  *)
(* the order of the slots does not matter.                                    *)
(******************************************************************************)
EXTENDS Integers, Sequences, FiniteSets, SequencesExt

CONSTANTS
  DtDir,       \* the directories that can exist below the root or outside the tree
  DtName,      \* the names of directory entries
  DT_QMAX,     \* the length of the kernel's event queue
  DtQuiet,     \* TRUE: directories are renamed only when no event is waiting
  DtChanges, DtCommands  \* bounds: changes of the filesystem, commands of the user

ASSUME DtAssumption == DT_QMAX \in Nat \ {0} /\ DtQuiet \in BOOLEAN /\ DtChanges \in Nat /\ DtCommands \in Nat

DtRoot == "root"
DtOut == "outside"      \* a directory that is not watched
DtNowhere == "nowhere"  \* the parent of a directory that does not exist
DtLost == <<"lost">>    \* the path of a directory that is not below the root
NoName == "none"

VARIABLES
  dtParent, dtName,   \* the filesystem: [DtDir -> its parent and its name there]
  dtWatch, dtWd,      \* the inotify instance: [directory -> wd, 0 for none], and the last wd used
  dtQueue,            \* its events, oldest first
  dtBuf,              \* the events read and not yet processed
  dtFirstTry,         \* firstTry
  dtCache,            \* wlCache: a set of [wd, path]
  dtWalk,             \* what nftw has still to do: a sequence of [do, path]
  dtPc,               \* "select", "events" or "again" (to read more after an IN_MOVED_FROM)
  dtChanged, dtCommanded   \* bounded counters

dtFs == <<dtParent, dtName>>
dtInotify == <<dtWatch, dtWd, dtQueue>>
dtProgram == <<dtBuf, dtFirstTry, dtCache, dtWalk, dtPc>>
dtVars == <<dtFs, dtInotify, dtProgram, dtChanged, dtCommanded>>

--------------------------------------------------------------------------------
(* The filesystem and inotify (external)                                      *)

DtPath ==
  LET at[n \in 0 .. Cardinality(DtDir)] ==
        [d \in DtDir \union {DtRoot, DtOut, DtNowhere} |->
           IF d = DtRoot THEN <<>>
           ELSE IF n = 0 \/ d \in {DtOut, DtNowhere} \/ at[n - 1][dtParent[d]] = DtLost THEN DtLost
           ELSE Append(at[n - 1][dtParent[d]], dtName[d])]
  IN  at[Cardinality(DtDir)]
DtTree == {d \in DtDir \union {DtRoot} : DtPath[d] # DtLost}
DtAt(path) == {d \in DtTree : DtPath[d] = path}      \* the directory there, if there is one
DtFreeName(p, n) == \A d \in DtDir : ~(dtParent[d] = p /\ dtName[d] = n)

DtEvent(wd, kind, name, cookie) == [wd |-> wd, kind |-> kind, name |-> name, cookie |-> cookie]
Overflow == DtEvent(0, "overflow", NoName, 0)

\* An event of a directory that is watched goes to the queue, or is lost where the queue is full.
Queued(queue, events) ==
  LET add(q, e) == IF e.wd = 0 THEN q
                   ELSE IF Len(q) < DT_QMAX THEN Append(q, e)
                   ELSE IF Last(q) = Overflow THEN q ELSE Append(q, Overflow)
  IN  FoldLeft(add, queue, events)

DtWdOf(p) == IF p \in DOMAIN dtWatch THEN dtWatch[p] ELSE 0

DtChange == /\ dtChanged < DtChanges /\ dtChanged' = dtChanged + 1
            /\ UNCHANGED <<dtProgram, dtWd, dtCommanded>>

Mkdir(d, p, n) ==
  /\ dtParent[d] = DtNowhere /\ p \in DtTree \ {d} /\ DtFreeName(p, n)
  /\ dtParent' = [dtParent EXCEPT ![d] = p] /\ dtName' = [dtName EXCEPT ![d] = n]
  /\ dtQueue' = Queued(dtQueue, <<DtEvent(DtWdOf(p), "create", n, 0)>>)
  /\ DtChange /\ UNCHANGED dtWatch

Rmdir(d) ==
  /\ dtParent[d] # DtNowhere /\ \A e \in DtDir : dtParent[e] # d
  /\ dtParent' = [dtParent EXCEPT ![d] = DtNowhere] /\ dtName' = [dtName EXCEPT ![d] = NoName]
  /\ dtQueue' = Queued(dtQueue, <<DtEvent(dtWatch[d], "delete_self", NoName, 0)>>)
  /\ dtWatch' = [dtWatch EXCEPT ![d] = 0]
  /\ DtChange

\* rename within the tree, out of it or into it; the number of the change serves as the cookie.
Rename(d, p, n) ==
  /\ dtParent[d] # DtNowhere /\ p # d
  /\ p \in DtTree \union {DtOut} /\ DtFreeName(p, n)
  /\ p \in DtDir => ~IsPrefix(DtPath[d], DtPath[p]) \/ DtPath[d] = DtLost
  /\ dtParent[d] = DtOut => p # DtOut
  /\ DtQuiet => dtQueue = <<>> /\ dtBuf = <<>> /\ dtWalk = <<>>
  /\ dtParent' = [dtParent EXCEPT ![d] = p] /\ dtName' = [dtName EXCEPT ![d] = n]
  /\ dtQueue' = Queued(dtQueue, << DtEvent(DtWdOf(dtParent[d]), "moved_from", dtName[d], dtChanged + 1),
                                   DtEvent(DtWdOf(p), "moved_to", n, dtChanged + 1) >>)
  /\ DtChange /\ UNCHANGED dtWatch

--------------------------------------------------------------------------------
(* The program                                                                *)

DtCached(wd) == {c \in dtCache : c.wd = wd}            \* findWatch
DtCachedAt(path) == {c \in dtCache : c.path = path}    \* pathnameToCacheSlot
DtBelow(path) == {c \in dtCache : IsPrefix(path, c.path)}
DtVisit(path) == [do |-> "watch", path |-> path]
DtList(path) == [do |-> "list", path |-> path]

\* reinitialize: a new inotify instance, an empty cache, and the walk from the root; the events of
\* the old instance are gone, those already read are discarded.
Reinitialize ==
  /\ dtWatch' = [d \in DtDir \union {DtRoot} |-> 0] /\ dtWd' = 0 /\ dtQueue' = <<>>
  /\ dtBuf' = <<>> /\ dtFirstTry' = TRUE /\ dtCache' = {} /\ dtWalk' = <<DtVisit(<<>>)>>

DtInit ==
  /\ dtParent = [d \in DtDir |-> DtNowhere] /\ dtName = [d \in DtDir |-> NoName]
  /\ dtWatch = [d \in DtDir \union {DtRoot} |-> 0] /\ dtWd = 0 /\ dtQueue = <<>>
  /\ dtBuf = <<>> /\ dtFirstTry = TRUE /\ dtCache = {} /\ dtWalk = <<DtVisit(<<>>)>>
  /\ dtPc = "select" /\ dtChanged = 0 /\ dtCommanded = 0

DtKeeps == UNCHANGED <<dtFs, dtChanged, dtCommanded>>

\* nftw calls traverseTree for a directory: watch it, and cache the watch if it is new.
TraverseTree ==
  /\ dtWalk # <<>> /\ Head(dtWalk).do = "watch"
  /\ LET path == Head(dtWalk).path
     IN  IF DtAt(path) = {}
           THEN dtWalk' = Tail(dtWalk) /\ UNCHANGED <<dtWatch, dtWd, dtCache>>
           ELSE LET d == CHOOSE x \in DtAt(path) : TRUE
                    wd == IF dtWatch[d] = 0 THEN dtWd + 1 ELSE dtWatch[d]
                IN  /\ dtWalk' = <<DtList(path)>> \o Tail(dtWalk)
                    /\ dtWatch' = [dtWatch EXCEPT ![d] = wd]
                    /\ dtWd' = IF dtWatch[d] = 0 THEN wd ELSE dtWd
                    /\ dtCache' = IF DtCached(wd) # {} THEN dtCache
                                  ELSE dtCache \union {[wd |-> wd, path |-> path]}
  /\ UNCHANGED <<dtQueue, dtBuf, dtFirstTry, dtPc>> /\ DtKeeps

\* nftw reads the entries of a directory.
ReadEntries ==
  /\ dtWalk # <<>> /\ Head(dtWalk).do = "list"
  /\ LET path == Head(dtWalk).path
         entries == {n \in DtName : DtAt(Append(path, n)) # {}}
     IN  \E visits \in SetToSeqs({DtVisit(Append(path, n)) : n \in entries}) : dtWalk' = visits \o Tail(dtWalk)
  /\ UNCHANGED <<dtInotify, dtBuf, dtFirstTry, dtCache, dtPc>> /\ DtKeeps

\* read in processInotifyEvents: as many events as fit.
ReadEvents ==
  /\ dtPc = "select" /\ dtWalk = <<>> /\ dtQueue # <<>>
  /\ \E n \in 1 .. Len(dtQueue) :
       dtBuf' = SubSeq(dtQueue, 1, n) /\ dtQueue' = SubSeq(dtQueue, n + 1, Len(dtQueue))
  /\ dtPc' = "events" /\ dtFirstTry' = TRUE
  /\ UNCHANGED <<dtWatch, dtWd, dtCache, dtWalk>> /\ DtKeeps

TriedOnce == dtFirstTry' = FALSE

\* The second read, for the IN_MOVED_TO: it gets what has come, or nothing within 2 ms.
ReadMore ==
  /\ dtPc = "again"
  /\ \E n \in 0 .. Len(dtQueue) :
       dtBuf' = dtBuf \o SubSeq(dtQueue, 1, n) /\ dtQueue' = SubSeq(dtQueue, n + 1, Len(dtQueue))
  /\ dtPc' = "events" /\ TriedOnce
  /\ UNCHANGED <<dtWatch, dtWd, dtCache, dtWalk>> /\ DtKeeps

\* The events consumed leave the buffer; with the last one the program goes back to select.
Consumes(n) ==
  /\ dtBuf' = SubSeq(dtBuf, n + 1, Len(dtBuf)) /\ dtFirstTry' = TRUE
  /\ dtPc' = IF n >= Len(dtBuf) THEN "select" ELSE "events"

Processing(kinds) == dtPc = "events" /\ dtWalk = <<>> /\ Head(dtBuf).kind \in kinds
DtEv == Head(dtBuf)
DtEvPath(e) == (CHOOSE c \in DtCached(e.wd) : TRUE).path

\* findWatchChecked fails, or the queue has overflowed.
CacheLost ==
  /\ \/ Processing({"overflow"})
     \/ Processing({"create", "moved_to", "moved_from", "delete_self"}) /\ DtCached(DtEv.wd) = {}
  /\ Reinitialize /\ dtPc' = "select"
  /\ DtKeeps

\* IN_CREATE or IN_MOVED_TO: watch the subtree, unless its path is in the cache.
SubtreeAppears ==
  /\ Processing({"create", "moved_to"}) /\ DtCached(DtEv.wd) # {}
  /\ LET path == Append(DtEvPath(DtEv), DtEv.name)
     IN  dtWalk' = IF DtCachedAt(path) = {} THEN <<DtVisit(path)>> ELSE <<>>
  /\ Consumes(1)
  /\ UNCHANGED <<dtInotify, dtCache>> /\ DtKeeps

\* IN_DELETE_SELF: the watch is gone by itself.
DirectoryDeleted ==
  /\ Processing({"delete_self"}) /\ DtCached(DtEv.wd) # {}
  /\ dtCache' = dtCache \ DtCached(DtEv.wd)
  /\ Consumes(1)
  /\ UNCHANGED <<dtInotify, dtWalk>> /\ DtKeeps

\* IN_MOVED_FROM with its IN_MOVED_TO behind it.
IsRename == Len(dtBuf) > 1 /\ dtBuf[2].kind = "moved_to" /\ dtBuf[2].cookie = DtEv.cookie

\* rewriteCachedPaths, or a reinitialization where the cache lacks the new parent.
RewriteCachedPaths ==
  /\ Processing({"moved_from"}) /\ DtCached(DtEv.wd) # {} /\ IsRename
  /\ IF DtCached(dtBuf[2].wd) = {}
       THEN Reinitialize /\ dtPc' = "select"
       ELSE LET old == Append(DtEvPath(DtEv), DtEv.name)
                new == Append(DtEvPath(dtBuf[2]), dtBuf[2].name)
                fixed(c) == [c EXCEPT !.path = new \o SubSeq(@, Len(old) + 1, Len(@))]
            IN  /\ dtCache' = (dtCache \ DtBelow(old)) \union {fixed(c) : c \in DtBelow(old)}
                /\ Consumes(2)
                /\ UNCHANGED <<dtInotify, dtWalk>>
  /\ DtKeeps

\* IN_MOVED_FROM as the last event read: try once to read more.
HangingMovedFrom ==
  /\ Processing({"moved_from"}) /\ DtCached(DtEv.wd) # {} /\ Len(dtBuf) = 1 /\ dtFirstTry
  /\ dtPc' = "again"
  /\ UNCHANGED <<dtInotify, dtBuf, dtFirstTry, dtCache, dtWalk>> /\ DtKeeps

\* zapSubtree of the entries zap: inotify_rm_watch each; it fails where a watch is gone.
RmWatches(zap) ==
  /\ dtWatch' = [d \in DOMAIN dtWatch |-> IF \E c \in zap : c.wd = dtWatch[d] THEN 0 ELSE dtWatch[d]]
  /\ dtCache' = dtCache \ zap
RmFails(zap) == \E c \in zap : \A d \in DOMAIN dtWatch : dtWatch[d] # c.wd

\* IN_MOVED_FROM alone: the directory has left the tree.
MovedOut ==
  /\ Processing({"moved_from"}) /\ DtCached(DtEv.wd) # {} /\ ~IsRename
  /\ Len(dtBuf) > 1 \/ ~dtFirstTry
  /\ LET zap == DtBelow(Append(DtEvPath(DtEv), DtEv.name))
     IN  IF RmFails(zap) THEN Reinitialize /\ dtPc' = "select"
         ELSE RmWatches(zap) /\ Consumes(1) /\ UNCHANGED <<dtWd, dtQueue, dtWalk>>
  /\ DtKeeps

\* executeCommand: "0" rebuilds the cache; "a" zaps the tree, up to an entry whose watch is gone, and
\* watches it again.
ExecuteCommand ==
  /\ dtPc = "select" /\ dtWalk = <<>>
  /\ dtCommanded < DtCommands /\ dtCommanded' = dtCommanded + 1
  /\ \/ Reinitialize
     \/ /\ \E zap \in SUBSET dtCache : /\ ~RmFails(zap) /\ (RmFails(dtCache) \/ zap = dtCache)
                                        /\ RmWatches(zap)
        /\ dtWalk' = <<DtVisit(<<>>)>>
        /\ UNCHANGED <<dtWd, dtQueue, dtBuf, dtFirstTry>>
  /\ UNCHANGED <<dtFs, dtPc, dtChanged>>

DtStep ==
  \/ TraverseTree \/ ReadEntries \/ ReadEvents \/ ReadMore \/ CacheLost \/ SubtreeAppears
  \/ DirectoryDeleted \/ RewriteCachedPaths \/ HangingMovedFrom \/ MovedOut

DtNext ==
  \/ DtStep \/ ExecuteCommand
  \/ \E d \in DtDir : \/ Rmdir(d)
                      \/ \E p \in DtDir \union {DtRoot, DtOut}, n \in DtName : Mkdir(d, p, n) \/ Rename(d, p, n)

DtSpec == DtInit /\ [][DtNext]_dtVars
DtFairness == WF_dtVars(DtStep)

--------------------------------------------------------------------------------
(* Properties                                                                 *)

\* The program has processed every event and waits for the next.
DtIdle == dtPc = "select" /\ dtWalk = <<>> /\ dtQueue = <<>>

\* Each variable has its type.
DtTypeOK ==
  LET place == DtDir \union {DtRoot, DtOut, DtNowhere}
      names == DtName \union {NoName}
      event == [wd : 0 .. dtWd, name : names, cookie : 0 .. DtChanges,
                kind : {"create", "delete_self", "moved_from", "moved_to", "overflow"}]
  IN  /\ dtParent \in [DtDir -> place] /\ dtName \in [DtDir -> names]
      /\ dtWatch \in [DtDir \union {DtRoot} -> 0 .. dtWd] /\ dtWd \in Nat
      /\ dtQueue \in Seq(event) /\ dtBuf \in Seq(event) /\ Len(dtQueue) <= DT_QMAX + 1
      /\ dtFirstTry \in BOOLEAN /\ dtPc \in {"select", "events", "again"}
      /\ \A c \in dtCache : c.wd \in 1 .. dtWd /\ c.path \in Seq(DtName)
      /\ \A n \in DOMAIN dtWalk : dtWalk[n].do \in {"watch", "list"} /\ dtWalk[n].path \in Seq(DtName)
      /\ dtChanged \in 0 .. DtChanges /\ dtCommanded \in 0 .. DtCommands

\* No watch descriptor is in the cache twice, and the watches of the kernel are those of the cache,
\* but for the directories whose IN_DELETE_SELF is on its way: no watch is forgotten in either.
DtWatchesCached ==
  LET pending == {e \in Range(dtQueue) \union Range(dtBuf) : e.kind \in {"delete_self", "overflow"}}
  IN  /\ \A c, d \in dtCache : c.wd = d.wd => c = d
      /\ \A d \in DtDir \union {DtRoot} : dtWatch[d] # 0 => DtCached(dtWatch[d]) # {}
      /\ \A c \in dtCache : \/ \E d \in DtDir \union {DtRoot} : dtWatch[d] = c.wd
                            \/ \E e \in pending : e.wd \in {0, c.wd}

DtCacheIsTree == dtCache = {[wd |-> dtWatch[d], path |-> DtPath[d]] : d \in DtTree}

\* Once it has processed every event the cache holds the paths of the directories of the tree, each
\* with the watch of the directory there.
DtConsistent == DtIdle => DtCacheIsTree


================================================================================
