------------------------------- MODULE Database -------------------------------
(*****************************************************************************)
(* The database library apue.3e/db/db.c: processes that share an index file  *)
(* with hash chains and a free list, and a data file, under record locks.    *)
(*                                                                           *)
(* A file is the sequence of its records and an offset in it is a record's   *)
(* position, 0 for none.  A pointer is kept at a location: the free list, a  *)
(* hash chain, or an index record.  A datum is <<key, length, version>>; a   *)
(* deleted record has the key and the data Blank.  A step is one lock call,  *)
(* with the reads up to the next write, or one write, with the unlock calls  *)
(* after it; the records of a chain are read one per step.                   *)
(*****************************************************************************)
EXTENDS Integers, Sequences, FiniteSets

CONSTANTS
  Procs,      \* the processes
  Keys,       \* the keys they use
  KeyLen(_),  \* the length of a key
  Chains,     \* the hash chains
  Calls,      \* the calls they make: records [op, key, data]
  Scanners,   \* those that call db_nextrec
  Files,      \* the databases to start from: records [hash, idx, dat, head]
  MaxCalls,   \* bound: calls in all, db_nextrec aside
  PtrMax,     \* PTR_MAX, as a number of index records
  FREE,       \* FREE_OFF: where the free list pointer is
  Blank, Absent

IDX_END == "idx_end"   \* the bytes behind the hash table
DAT     == "dat"       \* the data file
Length(d) == d[2]

Lists    == Chains \cup {FREE}
Data     == (Keys \cup {Blank}) \X Nat \X Nat
Record   == [key : Keys \cup {Blank}, klen : Nat, ptr : Nat, dat : Nat, len : Nat]
StoreOps == {"insert", "replace", "store"}

(* The list that record i of a file belongs to, and whether v is the record  *)
(* of rank r on list l, counted from its end; 0 is behind the last one.      *)
ListOf(f, i) == IF f.idx[i].key = Blank THEN FREE ELSE f.hash[f.idx[i].key]
Ranked(f, rank, v, l, r) ==
  (v = 0 /\ r = 0) \/ (v \in 1 .. Len(f.idx) /\ ListOf(f, v) = l /\ rank[v] = r)

(* A database to start from: the records are linked in lists that end, each  *)
(* on the list of its key, and each key is there once.                       *)
GoodFile(f) ==
  LET Offs == 1 .. Len(f.idx) IN
  /\ f.hash \in [Keys -> Chains]
  /\ f.idx \in Seq(Record) /\ f.dat \in Seq(Data)
  /\ f.head \in [Lists -> Nat]
  /\ \A i \in Offs :
       f.idx[i].dat \in 1 .. Len(f.dat) /\ f.idx[i].len = Length(f.dat[f.idx[i].dat])
  /\ \A i, j \in Offs : f.idx[i].key = f.idx[j].key /\ f.idx[i].key # Blank => i = j
  /\ \E rank \in [Offs -> Offs], h \in [Lists -> 0 .. Len(f.idx)] :
       /\ \A i \in Offs : rank[i] <= h[ListOf(f, i)]
       /\ \A i, j \in Offs : ListOf(f, i) = ListOf(f, j) /\ rank[i] = rank[j] => i = j
       /\ \A l \in Lists : \A r \in 1 .. h[l] : \E i \in Offs : ListOf(f, i) = l /\ rank[i] = r
       /\ \A l \in Lists : Ranked(f, rank, f.head[l], l, h[l])
       /\ \A i \in Offs : Ranked(f, rank, f.idx[i].ptr, ListOf(f, i), rank[i] - 1)

Given ==
  /\ \A l \in Lists : l \notin Nat
  /\ FREE \notin Chains /\ {IDX_END, DAT} \cap Lists = {}
  /\ Blank \notin Keys
  /\ \A k \in Keys : KeyLen(k) \in Nat
  /\ \A c \in Calls :
       /\ c.op \in {"fetch", "delete"} \cup StoreOps
       /\ c.key \in Keys
       /\ c.op \in StoreOps => c.data \in Data
  /\ MaxCalls \in Nat
  /\ \A f \in Files : GoodFile(f)

ASSUME DatabaseAssumption == Given

VARIABLES
  hash,    \* _db_hash of each key
  idx,     \* the index records [key, klen, ptr, dat, len]
  dat,     \* the data records
  head,    \* the free list pointer and the hash table
  lock,    \* the lock each process has on each range: "none", "read", "write"
  pc,      \* where each process is
  call,    \* the call each process makes: [op, key, data]
  db,      \* fields of struct DB: idxoff, datoff, ptrval, ptroff
  off,     \* offset in _db_find_and_lock and _db_findfree, and the read
           \* position of db_nextrec
  link,    \* ptrval in db_store, saveptr in _db_dodelete
  rc,      \* the result of the call in progress
  calls,   \* how many calls were made
  ret,     \* what the last call returned
  before   \* history: the map when the chain was locked

files == <<hash, idx, dat, head>>
vars ==
  <<hash, idx, dat, head, lock, pc, call, db, off, link, rc, calls, ret, before>>

Offsets(file) == 0 .. Len(file)

TypeOK ==
  /\ hash \in [Keys -> Chains]
  /\ head \in [Chains \cup {FREE} -> Offsets(idx)]
  /\ \A i \in DOMAIN idx :
       /\ idx[i].key \in Keys \cup {Blank} /\ idx[i].ptr \in Offsets(idx)
       /\ idx[i].dat \in DOMAIN dat /\ idx[i].len = Length(dat[idx[i].dat])
  /\ \A p \in Procs :
       /\ \A l \in DOMAIN lock[p] : lock[p][l] \in {"none", "read", "write"}
       /\ off[p] \in 0 .. Len(idx) + 1 /\ link[p] \in Offsets(idx)
  /\ calls \in 0 .. MaxCalls
-------------------------------------------------------------------------------
(* The list a pointer starts, and the contents of the database.              *)

Pointer(loc) == IF loc \in DOMAIN head THEN head[loc] ELSE idx[loc].ptr

(* The n-th record of the list at a location, 0 behind its end. *)
Nth(loc) ==
  LET nth[n \in 0 .. Len(idx)] ==
        IF n = 0 THEN Pointer(loc)
        ELSE IF nth[n - 1] = 0 THEN 0 ELSE idx[nth[n - 1]].ptr
  IN  nth

Members(loc) == LET nth == Nth(loc) IN {nth[n] : n \in DOMAIN nth} \ {0}

Contents(k) ==
  LET at == {i \in Members(hash[k]) : idx[i].key = k}
  IN  IF at = {} THEN Absent ELSE dat[idx[CHOOSE i \in at : TRUE].dat]

Writing(loc) == {p \in Procs : lock[p][loc] = "write"}

(* What the other processes can know: a key whose chain is under a write     *)
(* lock counts as it was when the chain was locked.                          *)
Visible ==
  [k \in Keys |->
     IF Writing(hash[k]) = {} THEN Contents(k)
     ELSE before[CHOOSE p \in Writing(hash[k]) : TRUE][k]]
-------------------------------------------------------------------------------
(* Locks and files.                                                          *)

Goto(p, label) == pc' = [pc EXCEPT ![p] = label]

(* fcntl(F_SETLKW): wait until no other process has a conflicting lock. *)
Lock(p, loc, mode) ==
  /\ \A q \in Procs \ {p} :
       lock[q][loc] = "none" \/ (mode = "read" /\ lock[q][loc] = "read")
  /\ lock' = [lock EXCEPT ![p][loc] = mode]

Unlock(p, loc) == lock' = [lock EXCEPT ![p][loc] = "none"]

(* _db_writeptr. *)
WritePtr(loc, val) ==
  IF loc \in DOMAIN head
  THEN head' = [head EXCEPT ![loc] = val] /\ UNCHANGED idx
  ELSE idx' = [idx EXCEPT ![loc].ptr = val] /\ UNCHANGED head

(* Write record r at offset i, at the end or over an older record. *)
WriteAt(file, i, r) == IF i <= Len(file) THEN [file EXCEPT ![i] = r] ELSE Append(file, r)

(* _db_readidx: the fields it sets. *)
ReadIdx(p, i) ==
  db' = [db EXCEPT ![p].idxoff = i, ![p].datoff = idx[i].dat, ![p].ptrval = idx[i].ptr]

Chain(p) == hash[call[p].key]
-------------------------------------------------------------------------------
(* The calls begin.                                                          *)

NoCall == [op |-> "none", key |-> Absent, data |-> Absent]

Begin(p, c, label) ==
  /\ pc[p] = "idle"
  /\ calls < MaxCalls
  /\ calls' = calls + 1
  /\ call' = [call EXCEPT ![p] = c]
  /\ Goto(p, label)

(* db_fetch, db_delete and db_store; the file offset of db_nextrec is lost. *)
CallDb(p) ==
  /\ \E c \in Calls : Begin(p, c, "find")
  /\ off' = [off EXCEPT ![p] = 0]
  /\ UNCHANGED <<files, lock, db, link, rc, ret, before>>

(* db_rewind. *)
Rewind(p) ==
  /\ p \in Scanners
  /\ Begin(p, NoCall, "idle")
  /\ off' = [off EXCEPT ![p] = 1]
  /\ UNCHANGED <<files, lock, db, link, rc, ret, before>>
-------------------------------------------------------------------------------
(* _db_find_and_lock.                                                        *)

FindLock(p) ==
  /\ pc[p] = "find"
  /\ Lock(p, Chain(p), IF call[p].op = "fetch" THEN "read" ELSE "write")
  /\ db' = [db EXCEPT ![p].ptroff = Chain(p)]
  /\ off' = [off EXCEPT ![p] = head[Chain(p)]]
  /\ before' = [before EXCEPT ![p] = [k \in Keys |-> Contents(k)]]
  /\ Goto(p, "walk")
  /\ UNCHANGED <<files, call, link, rc, calls, ret>>

(* What db_fetch, db_delete and db_store do with the answer; r is the return *)
(* value when nothing more is to do.                                         *)
Code(n) == <<n, Absent>>
Datum(d) == <<0, d>>
Stop(p, r) == rc' = [rc EXCEPT ![p] = r] /\ Goto(p, "unlock")
GoOn(p, label) == Goto(p, label) /\ UNCHANGED rc

NotFound(p) ==
  /\ off[p] = 0
  /\ CASE call[p].op = "fetch" -> Stop(p, Datum(Absent))
       [] call[p].op \in {"delete", "replace"} -> Stop(p, Code(-1))
       [] OTHER -> GoOn(p, "findfree")
  /\ link' = [link EXCEPT ![p] = head[Chain(p)]]
  /\ UNCHANGED <<db, off>>

SameLength(p, i) == Length(call[p].data) = idx[i].len

Found(p) ==
  LET i == off[p] IN
  /\ i # 0 /\ idx[i].key = call[p].key
  /\ ReadIdx(p, i)
  /\ CASE call[p].op = "fetch" -> GoOn(p, "readdat")
       [] call[p].op = "delete" -> GoOn(p, "delete")
       [] call[p].op = "insert" -> Stop(p, Code(1))
       [] OTHER -> GoOn(p, IF SameLength(p, i) THEN "overwrite" ELSE "delete")
  /\ UNCHANGED <<off, link>>

Skip(p) ==
  LET i == off[p] IN
  /\ i # 0 /\ idx[i].key # call[p].key
  /\ db' = [db EXCEPT ![p].ptroff = i]
  /\ off' = [off EXCEPT ![p] = idx[i].ptr]
  /\ UNCHANGED <<pc, link, rc>>

Walk(p) ==
  /\ pc[p] = "walk"
  /\ NotFound(p) \/ Found(p) \/ Skip(p)
  /\ UNCHANGED <<files, lock, call, calls, ret, before>>

(* _db_readdat in db_fetch. *)
FetchDat(p) ==
  /\ pc[p] = "readdat"
  /\ Stop(p, Datum(dat[db[p].datoff]))
  /\ UNCHANGED <<files, lock, call, db, off, link, calls, ret, before>>

NoDb == [idxoff |-> 0, datoff |-> 0, ptrval |-> 0, ptroff |-> FREE]

(* The process is between two calls; what it read is of no use any more. *)
Idle(p) ==
  /\ call' = [call EXCEPT ![p] = NoCall]
  /\ db' = [db EXCEPT ![p] = NoDb]
  /\ link' = [link EXCEPT ![p] = 0]
  /\ rc' = [rc EXCEPT ![p] = Code(0)]
  /\ before' = [before EXCEPT ![p] = <<>>]

(* The end of db_fetch, db_delete and db_store: unlock the chain. *)
EndCall(p) ==
  /\ pc[p] = "unlock"
  /\ Unlock(p, Chain(p))
  /\ ret' = [ret EXCEPT ![p] = <<call[p], rc[p]>>]
  /\ off' = [off EXCEPT ![p] = 0]
  /\ Idle(p)
  /\ Goto(p, "idle")
  /\ UNCHANGED <<files, calls>>
-------------------------------------------------------------------------------
(* _db_dodelete.                                                             *)

BlankData(d) == <<Blank, Length(d), 0>>

(* Mutant: the free list is not locked. *)
DelDat_NoLock(p) ==
  /\ pc[p] = "delete"
  /\ dat' = [dat EXCEPT ![db[p].datoff] = BlankData(@)]
  /\ Goto(p, "del_idx")
  /\ UNCHANGED <<hash, idx, head, lock, call, db, off, link, rc, calls, ret, before>>

(* Lock the free list, write the data record with blanks. *)
DelDat(p) ==
  /\ pc[p] = "delete"
  /\ Lock(p, FREE, "write")
  /\ dat' = [dat EXCEPT ![db[p].datoff] = BlankData(@)]
  /\ Goto(p, "del_idx")
  /\ UNCHANGED <<hash, idx, head, call, db, off, link, rc, calls, ret, before>>

(* Read the free list pointer, save the record's chain pointer, rewrite the  *)
(* index record as the new head of the free list.                            *)
DelIdx(p) ==
  /\ pc[p] = "del_idx"
  /\ link' = [link EXCEPT ![p] = db[p].ptrval]
  /\ idx' = [idx EXCEPT ![db[p].idxoff].key = Blank, ![db[p].idxoff].ptr = head[FREE]]
  /\ db' = [db EXCEPT ![p].ptrval = head[FREE]]
  /\ Goto(p, "del_free")
  /\ UNCHANGED <<hash, dat, head, lock, call, off, rc, calls, ret, before>>

DelFree(p) ==
  /\ pc[p] = "del_free"
  /\ WritePtr(FREE, db[p].idxoff)
  /\ Goto(p, "del_unlink")
  /\ UNCHANGED <<hash, dat, lock, call, db, off, link, rc, calls, ret, before>>

(* Mutant: the record is linked in front of the one that followed the        *)
(* deleted one.                                                              *)
DelUnlink_NoReread(p) ==
  /\ pc[p] = "del_unlink"
  /\ WritePtr(db[p].ptroff, link[p])
  /\ Unlock(p, FREE)
  /\ IF call[p].op = "delete" THEN Stop(p, Code(0)) ELSE GoOn(p, "app_dat")
  /\ UNCHANGED <<hash, dat, call, db, off, link, calls, ret, before>>

(* Take the record off its chain, unlock the free list; db_store reads the   *)
(* chain pointer again.                                                      *)
DelUnlink(p) ==
  /\ pc[p] = "del_unlink"
  /\ WritePtr(db[p].ptroff, link[p])
  /\ Unlock(p, FREE)
  /\ IF call[p].op = "delete" THEN Stop(p, Code(0)) /\ UNCHANGED link
     ELSE GoOn(p, "app_dat") /\ link' = [link EXCEPT ![p] = head'[Chain(p)]]
  /\ UNCHANGED <<hash, dat, call, db, off, calls, ret, before>>
-------------------------------------------------------------------------------
(* _db_findfree.                                                             *)

(* Lock the free list; ptroff holds saveoffset from here on. *)
FreeLock(p) ==
  /\ pc[p] = "findfree"
  /\ Lock(p, FREE, "write")
  /\ db' = [db EXCEPT ![p].ptroff = FREE]
  /\ off' = [off EXCEPT ![p] = head[FREE]]
  /\ Goto(p, "freewalk")
  /\ UNCHANGED <<files, call, link, rc, calls, ret, before>>

Fits(p, i) == idx[i].klen = KeyLen(call[p].key) /\ SameLength(p, i)

(* Mutant: the free list stays locked when no record fits. *)
FreeWalk_KeepLock(p) ==
  LET i == off[p] IN
  /\ pc[p] = "freewalk"
  /\ \/ i = 0 /\ Goto(p, "app_dat") /\ UNCHANGED <<lock, db, off>>
     \/ i # 0 /\ Fits(p, i) /\ ReadIdx(p, i) /\ Goto(p, "takefree") /\ UNCHANGED <<lock, off>>
     \/ /\ i # 0 /\ ~Fits(p, i)
        /\ db' = [db EXCEPT ![p].ptroff = i]
        /\ off' = [off EXCEPT ![p] = idx[i].ptr]
        /\ UNCHANGED <<lock, pc>>
  /\ UNCHANGED <<files, call, link, rc, calls, ret, before>>

FreeWalk(p) ==
  LET i == off[p] IN
  /\ pc[p] = "freewalk"
  /\ \/ i = 0 /\ Unlock(p, FREE) /\ Goto(p, "app_dat") /\ UNCHANGED <<db, off>>
     \/ i # 0 /\ Fits(p, i) /\ ReadIdx(p, i) /\ Goto(p, "takefree") /\ UNCHANGED <<lock, off>>
     \/ /\ i # 0 /\ ~Fits(p, i)
        /\ db' = [db EXCEPT ![p].ptroff = i]
        /\ off' = [off EXCEPT ![p] = idx[i].ptr]
        /\ UNCHANGED <<lock, pc>>
  /\ UNCHANGED <<files, call, link, rc, calls, ret, before>>

(* Take the record off the free list, unlock the free list. *)
TakeFree(p) ==
  /\ pc[p] = "takefree"
  /\ WritePtr(db[p].ptroff, db[p].ptrval)
  /\ Unlock(p, FREE)
  /\ Goto(p, "write_dat")
  /\ UNCHANGED <<hash, dat, call, db, off, link, rc, calls, ret, before>>
-------------------------------------------------------------------------------
(* db_store: the new record, at the end of the files or in place.            *)

(* _db_writedat with SEEK_END: lock the data file and seek. *)
AppendDat(p) ==
  /\ pc[p] = "app_dat"
  /\ Lock(p, DAT, "write")
  /\ db' = [db EXCEPT ![p].datoff = Len(dat) + 1, ![p].idxoff = 0]
  /\ Goto(p, "write_dat")
  /\ UNCHANGED <<files, call, off, link, rc, calls, ret, before>>

(* The data are written; a record of the same length stays where it is. *)
WriteDat(p) ==
  /\ pc[p] \in {"write_dat", "overwrite"}
  /\ dat' = WriteAt(dat, db[p].datoff, call[p].data)
  /\ Unlock(p, DAT)
  /\ IF pc[p] = "overwrite" THEN Stop(p, Code(0))
     ELSE GoOn(p, IF db[p].idxoff = 0 THEN "app_idx" ELSE "write_idx")
  /\ UNCHANGED <<hash, idx, head, call, db, off, link, calls, ret, before>>

(* _db_writeidx with SEEK_END: lock what is behind the hash table and seek. *)
AppendIdx(p) ==
  /\ pc[p] = "app_idx"
  /\ Lock(p, IDX_END, "write")
  /\ db' = [db EXCEPT ![p].idxoff = Len(idx) + 1]
  /\ Goto(p, "write_idx")
  /\ UNCHANGED <<files, call, off, link, rc, calls, ret, before>>

WriteIdx(p) ==
  /\ pc[p] = "write_idx"
  /\ idx' = WriteAt(idx, db[p].idxoff,
                    [key |-> call[p].key, klen |-> KeyLen(call[p].key), ptr |-> link[p],
                     dat |-> db[p].datoff, len |-> Length(call[p].data)])
  /\ Unlock(p, IDX_END)
  /\ Goto(p, "link")
  /\ UNCHANGED <<hash, dat, head, call, db, off, link, rc, calls, ret, before>>

(* The record goes to the front of its chain. *)
LinkChain(p) ==
  /\ pc[p] = "link"
  /\ db[p].idxoff <= PtrMax
  /\ WritePtr(Chain(p), db[p].idxoff)
  /\ Stop(p, Code(0))
  /\ UNCHANGED <<hash, dat, lock, call, db, off, link, calls, ret, before>>

(* The offset does not fit in a pointer: err_quit, and the locks go. *)
PointerTooBig(p) ==
  /\ pc[p] = "link"
  /\ db[p].idxoff > PtrMax
  /\ lock' = [lock EXCEPT ![p] = [l \in DOMAIN @ |-> "none"]]
  /\ ret' = [ret EXCEPT ![p] = <<call[p]>>]
  /\ off' = [off EXCEPT ![p] = 0]
  /\ Idle(p)
  /\ Goto(p, "quit")
  /\ UNCHANGED <<files, calls>>
-------------------------------------------------------------------------------
(* db_nextrec.                                                               *)

(* Read lock the free list. *)
NextLock(p) ==
  /\ pc[p] = "idle"
  /\ p \in Scanners /\ off[p] # 0
  /\ Lock(p, FREE, "read")
  /\ Goto(p, "next_idx")
  /\ UNCHANGED <<files, call, db, off, link, rc, calls, ret, before>>

(* Read the next index record; deleted records are skipped. *)
NextIdx(p) ==
  LET i == off[p] IN
  /\ pc[p] = "next_idx"
  /\ i <= Len(idx)
  /\ ReadIdx(p, i)
  /\ off' = [off EXCEPT ![p] = i + 1]
  /\ IF idx[i].key = Blank THEN UNCHANGED <<pc, call>>
     ELSE /\ call' = [call EXCEPT ![p] = [op |-> "next", key |-> idx[i].key, data |-> Absent]]
          /\ Goto(p, "next_dat")
  /\ UNCHANGED <<files, lock, link, rc, calls, ret, before>>

(* End of file, where a scan ends, or the data of the record; unlock the     *)
(* free list.                                                                *)
NextReturn(p) ==
  /\ \/ /\ pc[p] = "next_idx" /\ off[p] > Len(idx)
        /\ ret' = [ret EXCEPT ![p] = <<[NoCall EXCEPT !.op = "eof"]>>]
        /\ off' = [off EXCEPT ![p] = 0]
     \/ /\ pc[p] = "next_dat"
        /\ ret' = [ret EXCEPT ![p] = <<[call[p] EXCEPT !.data = dat[db[p].datoff]]>>]
        /\ UNCHANGED off
  /\ Unlock(p, FREE)
  /\ Idle(p)
  /\ Goto(p, "idle")
  /\ UNCHANGED <<files, calls>>
-------------------------------------------------------------------------------
Step(p) ==
  \/ FindLock(p) \/ Walk(p) \/ FetchDat(p) \/ EndCall(p)
  \/ DelDat(p) \/ DelIdx(p) \/ DelFree(p) \/ DelUnlink(p)
  \/ FreeLock(p) \/ FreeWalk(p) \/ TakeFree(p)
  \/ AppendDat(p) \/ WriteDat(p) \/ AppendIdx(p) \/ WriteIdx(p)
  \/ LinkChain(p) \/ PointerTooBig(p)
  \/ NextIdx(p) \/ NextReturn(p)

Init ==
  /\ \E f \in Files : hash = f.hash /\ idx = f.idx /\ dat = f.dat /\ head = f.head
  /\ lock = [p \in Procs |-> [l \in Chains \cup {FREE, IDX_END, DAT} |-> "none"]]
  /\ pc = [p \in Procs |-> "idle"]
  /\ call = [p \in Procs |-> NoCall]
  /\ db = [p \in Procs |-> NoDb]
  /\ off = [p \in Procs |-> 1]
  /\ link = [p \in Procs |-> 0]
  /\ rc = [p \in Procs |-> Code(0)]
  /\ calls = 0
  /\ ret = [p \in Procs |-> <<>>]
  /\ before = [p \in Procs |-> <<>>]

Next == \E p \in Procs : CallDb(p) \/ Rewind(p) \/ NextLock(p) \/ Step(p)

Spec == Init /\ [][Next]_vars

(* A process goes on with a call it has begun. *)
FairSpec == Spec /\ \A p \in Procs : WF_vars(Step(p))
-------------------------------------------------------------------------------
(* The calls of all processes act on one map, each at once: a call takes     *)
(* effect when it unlocks its chain, and returns what the map had then.      *)
Known(k) ==
  {c.data : c \in {x \in Calls : x.key = k /\ x.data # Absent}} \cup
    UNION {{d \in {f.dat[i] : i \in DOMAIN f.dat} : d[1] = k} : f \in Files}
Abstract == INSTANCE KeyStore WITH map <- Visible, Data <- Known

(* The list at a location ends. *)
Ends(loc) == Nth(loc)[Len(idx)] = 0

(* Whenever nobody has a write lock on a chain, it ends and holds each of    *)
(* its keys once; the free list ends and holds deleted records only; and     *)
(* when no call is in progress, no record is lost: each is on exactly one    *)
(* of the lists, unless a process ended for lack of room.                    *)
IndexSound ==
  /\ \A c \in Chains : Writing(c) = {} =>
       /\ Ends(c)
       /\ \A i \in Members(c) : idx[i].key \in Keys /\ hash[idx[i].key] = c
       /\ \A i, j \in Members(c) : idx[i].key = idx[j].key => i = j
  /\ Writing(FREE) = {} =>
       Ends(FREE) /\ \A i \in Members(FREE) : idx[i].key = Blank
  /\ (\A p \in Procs : pc[p] = "idle") =>
       \A i \in 1 .. Len(idx) :
         Cardinality({loc \in Chains \cup {FREE} : i \in Members(loc)}) = 1

(* Every call returns: the locks on a chain, on the free list and on the     *)
(* ends of the files are never waited for in a circle.  There are finitely   *)
(* many calls, so the processes are all at rest in the end.                  *)
CallReturns == []<>(\A p \in Procs : pc[p] \in {"idle", "quit"})
===============================================================================
