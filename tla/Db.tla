----------------------------------- MODULE Db ----------------------------------
(******************************************************************************)
(* apue.3e/db/db.c: a database library used by several processes at once.     *)
(* The index file holds a free-list pointer, a hash table of chain pointers   *)
(* and the index records, each on a hash chain or on the free list; the data  *)
(* file holds the data records.  The lists are guarded by fcntl record locks: *)
(* one on each hash chain, one on the free list.                              *)
(*                                                                            *)
(* A key or a datum is the sequence of its characters.  Offsets are numbers   *)
(* of records, 0 for none.  A system call that changes what a process without *)
(* the same lock may read is a step; so is waiting for a lock.  Appending,    *)
(* which locks the end of the file for one lseek and one write, is one step.  *)
(******************************************************************************)
EXTENDS Integers, Sequences, FiniteSets

CONSTANTS
  DbProc,   \* the processes, each with the database open
  DbKey, DbData,   \* the keys and data in use: sequences of characters
  NHASH,    \* the size of the hash table
  DbCalls   \* bound: calls of db_store, db_delete and db_fetch

ASSUME DbAssumption ==
  NHASH \in Nat \ {0} /\ DbCalls \in Nat 
  /\ DbKey \subseteq Seq(Nat) /\ DbData \subseteq Seq(Nat)
  /\ \A k \in DbKey : \E i \in 1 .. Len(k) : k[i] # 32    \* a blank key is a deleted record

SPACE == 32
Blank(n) == [i \in 1 .. n |-> SPACE]
DbFree == 0               \* FREE_OFF; the chains follow it
DbLock == 0 .. NHASH      \* the pointers at the start of the index file, each with its lock
DbNone == <<>>     \* no data: db_fetch returns NULL

\* _db_hash: the sum of each character times its position.
DbHash(key) ==
  LET sum[i \in 0 .. Len(key)] == IF i = 0 THEN 0 ELSE sum[i - 1] + key[i] * i
  IN  sum[Len(key)] % NHASH
ChainOff(key) == DbHash(key) + 1

VARIABLES
  dbIdx,      \* Seq([key, next, datoff]): the index records
  dbDat,      \* Seq of data records
  dbHead,     \* [DbLock -> the first record of the chain or of the free list]
  dbReaders, dbWriter,   \* [DbLock -> the processes with a read lock, with the write lock]
  dbPc,       \* [DbProc -> its place in the call]
  dbCall,     \* [DbProc -> the call: op, key, data]
  idxoff, ptroff,   \* [DbProc -> db->idxoff; the record whose ptr leads there, 0 for the head]
  datoff,     \* [DbProc -> db->datoff]
  dbPos,      \* [DbProc -> the record at the file offset of idxfd, 0 if it is not at one]
  dbDict,     \* history: [DbKey -> the data stored by the calls that have returned]
  dbOwed,     \* history: [DbProc -> the keys its scan has still to return]
  dbMade      \* calls made

dbFile == <<dbIdx, dbDat, dbHead>>
dbLocks == <<dbReaders, dbWriter>>
dbMine == <<idxoff, ptroff, datoff>>
dbVars == <<dbFile, dbLocks, dbPc, dbCall, dbMine, dbPos, dbDict, dbOwed, dbMade>>

NoDbCall == [op |-> "none", key |-> <<>>, data |-> <<>>]

\* db_open with O_CREAT | O_TRUNC: pointers of value 0.
DbInit ==
  /\ dbIdx = <<>> /\ dbDat = <<>> /\ dbHead = [l \in DbLock |-> 0]
  /\ dbReaders = [l \in DbLock |-> {}] /\ dbWriter = [l \in DbLock |-> {}]
  /\ dbPc = [p \in DbProc |-> "idle"] /\ dbCall = [p \in DbProc |-> NoDbCall]
  /\ idxoff = [p \in DbProc |-> 0] /\ ptroff = [p \in DbProc |-> 0]
  /\ datoff = [p \in DbProc |-> 0] /\ dbPos = [p \in DbProc |-> 1]
  /\ dbDict = [k \in DbKey |-> DbNone] /\ dbOwed = [p \in DbProc |-> {}] /\ dbMade = 0

--------------------------------------------------------------------------------
(* Lists and locks                                                            *)

\* The n-th record of a list, 0 past its end.
DbWalk(l) ==
  LET at[n \in 0 .. Len(dbIdx)] ==
        IF n = 0 THEN dbHead[l] ELSE IF at[n - 1] = 0 THEN 0 ELSE dbIdx[at[n - 1]].next
  IN  at
DbList(l) == {DbWalk(l)[n] : n \in 0 .. Len(dbIdx)} \ {0}

\* The place in the list of the first of the records sought, or of the end.
DbSearch(l, sought) ==
  LET at == DbWalk(l)
  IN  CHOOSE n \in 0 .. Len(dbIdx) :
        /\ at[n] = 0 \/ at[n] \in sought
        /\ \A m \in 0 .. n - 1 : at[m] # 0 /\ at[m] \notin sought
DbWith(key) == {i \in DOMAIN dbIdx : dbIdx[i].key = key}
DbBefore(l, n) == IF n = 0 THEN 0 ELSE DbWalk(l)[n - 1]

\* _db_writeptr of a record's ptr, or of the head of list l.
WritePtr(idx, head, l, at, val) ==
  IF at = 0 THEN dbIdx' = idx /\ dbHead' = [head EXCEPT ![l] = val]
            ELSE dbIdx' = [idx EXCEPT ![at].next = val] /\ dbHead' = head

DbChain(p) == ChainOff(dbCall[p].key)
DbGoes(p, from, to) == dbPc[p] = from /\ dbPc' = [dbPc EXCEPT ![p] = to]
DbPast == <<dbDict, dbOwed, dbMade>>

Readw(p, l) ==
  /\ dbWriter[l] \subseteq {p}
  /\ dbReaders' = [dbReaders EXCEPT ![l] = @ \union {p}]
  /\ UNCHANGED dbWriter
Writew(p, l) ==
  /\ dbWriter[l] \union dbReaders[l] \subseteq {p}
  /\ dbWriter' = [dbWriter EXCEPT ![l] = {p}]
  /\ UNCHANGED dbReaders
DbHeldChains == DbLock \ {DbFree}        \* mutant: the free list stays locked
DbHeld == DbLock

Unlocks(p, ls) ==
  /\ dbReaders' = [l \in DbLock |-> IF l \in ls THEN dbReaders[l] \ {p} ELSE dbReaders[l]]
  /\ dbWriter' = [l \in DbLock |-> IF l \in ls THEN dbWriter[l] \ {p} ELSE dbWriter[l]]

\* A call returns: its fields of DB are not used again.
DbReturns(p) ==
  /\ dbPc' = [dbPc EXCEPT ![p] = "idle"] /\ dbCall' = [dbCall EXCEPT ![p] = NoDbCall]
  /\ idxoff' = [idxoff EXCEPT ![p] = 0] /\ ptroff' = [ptroff EXCEPT ![p] = 0]
  /\ datoff' = [datoff EXCEPT ![p] = 0]
  /\ Unlocks(p, DbHeld)

--------------------------------------------------------------------------------
(* db_fetch, db_delete, db_store                                              *)

DbOps == {"fetch", "delete", "insert", "replace", "store"}

DbBegins(p) ==
  /\ DbGoes(p, "idle", "lock") /\ dbMade < DbCalls
  /\ \E op \in DbOps, key \in DbKey, data \in DbData :
       /\ op \in {"fetch", "delete"} => data = CHOOSE d \in DbData : TRUE
       /\ dbCall' = [dbCall EXCEPT ![p] = [op |-> op, key |-> key, data |-> data]]
  /\ dbMade' = dbMade + 1
  /\ dbOwed' = [dbOwed EXCEPT ![p] = {}]     \* the call moves the file offset
  /\ UNCHANGED <<dbFile, dbLocks, dbMine, dbPos, dbDict>>

\* _db_find_and_lock
FindAndLock(p) ==
  LET l == DbChain(p)
      n == DbSearch(l, DbWith(dbCall[p].key))
      i == DbWalk(l)[n]
      last == IF i = 0 THEN DbBefore(l, n) ELSE i   \* the record read last
  IN  /\ DbGoes(p, "lock", IF i = 0 THEN "absent" ELSE "found")
      /\ IF dbCall[p].op = "fetch" THEN Readw(p, l) ELSE Writew(p, l)
      /\ idxoff' = [idxoff EXCEPT ![p] = i]
      /\ ptroff' = [ptroff EXCEPT ![p] = DbBefore(l, n)]
      /\ datoff' = [datoff EXCEPT ![p] = IF i = 0 THEN 0 ELSE dbIdx[i].datoff]
      /\ dbPos' = [dbPos EXCEPT ![p] = IF last = 0 THEN 0 ELSE last + 1]
      /\ UNCHANGED <<dbFile, dbCall, DbPast>>

Fetch(p) ==
  /\ dbPc[p] \in {"found", "absent"} /\ dbCall[p].op = "fetch"
  /\ DbReturns(p)
  /\ UNCHANGED <<dbFile, dbPos, DbPast>>

\* db_delete or db_store returns with nothing done.
NotFoundOrExists(p) ==
  /\ \/ dbPc[p] = "absent" /\ dbCall[p].op \in {"delete", "replace"}
     \/ dbPc[p] = "found" /\ dbCall[p].op = "insert"
  /\ DbReturns(p)
  /\ UNCHANGED <<dbFile, dbPos, DbPast>>

\* _db_dodelete, under the lock of the free list: blank the data and the key, put the record at
\* the front of the free list, take it off its chain.
DoDelete(p) ==
  /\ dbPc[p] = "found"
  /\ \/ dbCall[p].op = "delete"
     \/ dbCall[p].op \in {"store", "replace"} /\ Len(dbCall[p].data) # Len(dbDat[datoff[p]])
  /\ dbWriter[DbFree] \union dbReaders[DbFree] = {}
  /\ LET i == idxoff[p]
     IN  /\ dbDat' = [dbDat EXCEPT ![datoff[p]] = Blank(Len(@))]
         /\ WritePtr([dbIdx EXCEPT ![i].key = Blank(Len(@)), ![i].next = dbHead[DbFree]],
                     [dbHead EXCEPT ![DbFree] = i],
                     DbChain(p), ptroff[p], dbIdx[i].next)
  /\ dbPos' = [dbPos EXCEPT ![p] = 0]
  /\ IF dbCall[p].op = "delete"
       THEN DbReturns(p) /\ dbDict' = [dbDict EXCEPT ![dbCall[p].key] = DbNone]
       ELSE DbGoes(p, "found", "putdat") /\ idxoff' = [idxoff EXCEPT ![p] = 0]
            /\ UNCHANGED <<dbLocks, dbCall, ptroff, datoff, dbDict>>
  /\ dbOwed' = [q \in DbProc |-> dbOwed[q] \ {dbCall[p].key}]
  /\ UNCHANGED dbMade

DbUnfree(n, i) == WritePtr(dbIdx, dbHead, DbFree, DbBefore(DbFree, n), dbIdx[i].next)

\* _db_findfree, under the lock of the free list: take a record of the same lengths off it.
FindFree(p) ==
  /\ dbCall[p].op \in {"insert", "store"}
  /\ dbWriter[DbFree] \union dbReaders[DbFree] = {}
  /\ DbGoes(p, "absent", "putdat")
  /\ LET fits == {i \in DOMAIN dbIdx : /\ Len(dbIdx[i].key) = Len(dbCall[p].key)
                                       /\ Len(dbDat[dbIdx[i].datoff]) = Len(dbCall[p].data)}
         n == DbSearch(DbFree, fits)
         i == DbWalk(DbFree)[n]
     IN  /\ idxoff' = [idxoff EXCEPT ![p] = i]
         /\ datoff' = [datoff EXCEPT ![p] = IF i = 0 THEN 0 ELSE dbIdx[i].datoff]
         /\ IF i = 0 THEN UNCHANGED <<dbIdx, dbHead>>
            ELSE DbUnfree(n, i)
  /\ dbPos' = [dbPos EXCEPT ![p] = 0]
  /\ UNCHANGED <<dbDat, dbLocks, dbCall, ptroff, DbPast>>

\* The new value takes effect.
Stored(p) == /\ dbDict' = [dbDict EXCEPT ![dbCall[p].key] = dbCall[p].data]
             /\ UNCHANGED <<dbOwed, dbMade>>

DbEnd == Len(dbDat) + 1

\* _db_writedat: append, or write over the record of an index record.
WriteDat(p) ==
  /\ DbGoes(p, "putdat", "putidx")
  /\ IF idxoff[p] = 0
       THEN /\ dbDat' = Append(dbDat, dbCall[p].data)
            /\ datoff' = [datoff EXCEPT ![p] = DbEnd]
       ELSE /\ dbDat' = [dbDat EXCEPT ![datoff[p]] = dbCall[p].data]
            /\ UNCHANGED datoff
  /\ UNCHANGED <<dbIdx, dbHead, dbLocks, dbCall, idxoff, ptroff, dbPos, DbPast>>

DbChainPtr(p) == dbHead[DbChain(p)]

\* _db_writeidx, with the chain ptr that was read under the chain's lock.
WriteIdx(p) ==
  LET rec == [key |-> dbCall[p].key, next |-> DbChainPtr(p), datoff |-> datoff[p]]
  IN  /\ DbGoes(p, "putidx", "putptr")
      /\ IF idxoff[p] = 0
           THEN dbIdx' = Append(dbIdx, rec) /\ idxoff' = [idxoff EXCEPT ![p] = Len(dbIdx) + 1]
           ELSE dbIdx' = [dbIdx EXCEPT ![idxoff[p]] = rec] /\ UNCHANGED idxoff
      /\ UNCHANGED <<dbDat, dbHead, dbLocks, dbCall, ptroff, datoff, dbPos, DbPast>>

\* _db_writeptr: the record goes to the front of the chain.
LinkIdx(p) ==
  /\ dbPc[p] = "putptr"
  /\ dbHead' = [dbHead EXCEPT ![DbChain(p)] = idxoff[p]]
  /\ Stored(p)
  /\ DbReturns(p)
  /\ dbPos' = [dbPos EXCEPT ![p] = 0]
  /\ UNCHANGED <<dbIdx, dbDat>>

\* Data of the same size: write it over the old.
Overwrite(p) ==
  /\ dbPc[p] = "found" /\ dbCall[p].op \in {"store", "replace"}
  /\ Len(dbCall[p].data) = Len(dbDat[datoff[p]])
  /\ dbDat' = [dbDat EXCEPT ![datoff[p]] = dbCall[p].data]
  /\ Stored(p)
  /\ DbReturns(p)
  /\ UNCHANGED <<dbIdx, dbHead, dbPos>>

--------------------------------------------------------------------------------
(* db_rewind and db_nextrec                                                   *)

Rewind(p) ==
  /\ dbPc[p] = "idle" /\ dbPos[p] # 1
  /\ dbPos' = [dbPos EXCEPT ![p] = 1]
  /\ dbOwed' = [dbOwed EXCEPT ![p] = {dbIdx[i].key : i \in DOMAIN dbIdx} \intersect DbKey]
  /\ UNCHANGED <<dbFile, dbLocks, dbPc, dbCall, dbMine, dbDict, dbMade>>

Nextrec(p) ==
  /\ DbGoes(p, "idle", "nextrec")
  /\ Readw(p, DbFree)
  /\ UNCHANGED <<dbFile, dbCall, dbMine, dbPos, DbPast>>

DbBlankStarts(i) == dbIdx[i].key[1] = SPACE        \* mutant: only the first character is looked at
DbBlank(i) == dbIdx[i].key = Blank(Len(dbIdx[i].key))

\* One round of the loop: the record at the file offset, if there is one and it is not blank.
\* An offset that is not at a record ends in err_dump, and with it the process and its locks.
ReadNext(p) ==
  LET i == dbPos[p]
      pass == dbPos' = [dbPos EXCEPT ![p] = i + 1]
  IN  /\ dbPc[p] = "nextrec"
      /\ \/ /\ i = 0
            /\ dbPc' = [dbPc EXCEPT ![p] = "dump"]
            /\ Unlocks(p, DbLock)
            /\ UNCHANGED <<dbPos, dbCall, dbMine>>
         \/ /\ i > Len(dbIdx)
            /\ DbReturns(p)
            /\ UNCHANGED dbPos
         \/ /\ i \in DOMAIN dbIdx /\ DbBlank(i)
            /\ pass
            /\ UNCHANGED <<dbPc, dbLocks, dbCall, dbMine>>
         \/ /\ i \in DOMAIN dbIdx /\ ~DbBlank(i)
            /\ pass
            /\ DbGoes(p, "nextrec", "nextdat")
            /\ dbCall' = [dbCall EXCEPT ![p].key = dbIdx[i].key]
            /\ datoff' = [datoff EXCEPT ![p] = dbIdx[i].datoff]
            /\ UNCHANGED <<dbLocks, idxoff, ptroff>>
      /\ UNCHANGED <<dbFile, DbPast>>

NextDat(p) ==
  /\ dbPc[p] = "nextdat"
  /\ DbReturns(p)
  /\ dbOwed' = [dbOwed EXCEPT ![p] = @ \ {dbCall[p].key}]
  /\ UNCHANGED <<dbFile, dbPos, dbDict, dbMade>>

DbStep(p) ==
  \/ FindAndLock(p) \/ Fetch(p) \/ NotFoundOrExists(p) \/ DoDelete(p) \/ FindFree(p)
  \/ WriteDat(p) \/ WriteIdx(p) \/ LinkIdx(p) \/ Overwrite(p)
  \/ ReadNext(p) \/ NextDat(p)

DbNext == \E p \in DbProc : DbBegins(p) \/ Rewind(p) \/ Nextrec(p) \/ DbStep(p)

DbSpec == DbInit /\ [][DbNext]_dbVars

--------------------------------------------------------------------------------
(* Properties                                                                 *)

\* Each variable has its type.
DbTypeOK ==
  LET recs == 0 .. Len(dbIdx)
  IN  /\ \A i \in DOMAIN dbIdx : /\ dbIdx[i].next \in recs
                                /\ dbIdx[i].datoff \in DOMAIN dbDat
                                /\ dbIdx[i].key \in DbKey \union {Blank(Len(k)) : k \in DbKey}
      /\ \A d \in DOMAIN dbDat : dbDat[d] \in DbData \union {Blank(Len(v)) : v \in DbData}
      /\ dbHead \in [DbLock -> recs]
      /\ dbReaders \in [DbLock -> SUBSET DbProc] /\ dbWriter \in [DbLock -> SUBSET DbProc]
      /\ dbPc \in [DbProc -> {"idle", "lock", "absent", "found", "putdat", "putidx", "putptr",
                              "nextrec", "nextdat", "dump"}]
      /\ idxoff \in [DbProc -> recs] /\ ptroff \in [DbProc -> recs]
      /\ datoff \in [DbProc -> 0 .. Len(dbDat)] /\ dbPos \in [DbProc -> 0 .. Len(dbIdx) + 1]
      /\ dbDict \in [DbKey -> DbData \union {DbNone}] /\ dbOwed \in [DbProc -> SUBSET DbKey]
      /\ dbMade \in 0 .. DbCalls

\* What db_fetch would find in the files.
DbLookup(key) ==
  LET i == DbWalk(ChainOff(key))[DbSearch(ChainOff(key), DbWith(key))]
  IN  IF i = 0 THEN DbNone ELSE dbDat[dbIdx[i].datoff]

\* A chain nobody is writing holds exactly what the calls that have returned stored, whatever
\* other processes are doing to other chains, to the free list and to the ends of the files.
DbChainsAgree ==
  \A key \in DbKey : dbWriter[ChainOff(key)] = {} => DbLookup(key) = dbDict[key]

\* Every index record is on one chain, on the free list, or in the hands of the one db_store that
\* is about to link it; and no two index records share a data record.  A record lost between the
\* lists, or on two of them, would not show until much later.
DbEachOnOneList ==
  LET held == [p \in DbProc |-> IF dbPc[p] \in {"putdat", "putidx", "putptr"}
                                  THEN {idxoff[p]} \ {0} ELSE {}]
      list == [l \in DbLock |-> DbList(l)]
  IN  /\ \A i \in DOMAIN dbIdx :
           Cardinality({l \in DbLock : i \in list[l]}) + Cardinality({p \in DbProc : i \in held[p]}) = 1
      /\ \A i, j \in DOMAIN dbIdx : i # j => dbIdx[i].datoff # dbIdx[j].datoff

\* db_nextrec, which locks no chain, returns the data of the key it returns: what was last stored
\* for it or what a db_store now at work is storing, never blanks or another record's data.
DbNextrecPairs ==
  \A p \in DbProc : dbPc[p] = "nextdat" =>
    LET key == dbCall[p].key
    IN  dbDat[datoff[p]] \in {dbDict[key]} \union {dbCall[q].data : q \in {r \in DbProc \ {p} :
              dbCall[r].key = key /\ dbPc[r] \in {"putidx", "putptr"}}}

\* A scan that reaches the end of the file has returned every record that was there when it
\* began and was not deleted since, though others added, reused and overwrote records meanwhile.
DbScanComplete ==
  \A p \in DbProc : dbPc[p] = "nextrec" /\ dbPos[p] > Len(dbIdx) => dbOwed[p] = {}

\* Some call under way can go on: the locks of the chains and of the free list, and the order in
\* which db_store, db_delete and db_nextrec take them, leave no ring of processes each waiting.
DbNeverStuck ==
  (\E p \in DbProc : dbPc[p] \notin {"idle", "dump"}) => \E p \in DbProc : ENABLED DbStep(p)

====
