----------------------------- MODULE ObjStore ------------------------------
(***************************************************************************)
(* One object store of gefs (src/sys/src/9/gefs/obj.c): versioned objects  *)
(* in the file system's tree.                                              *)
(*                                                                         *)
(* The header names N, the published version, K, the oldest kept, and W,   *)
(* the last begun.  A transaction writes the chunks of version N+1 as its  *)
(* records come, and its commit publishes them by writing the header.      *)
(* runmutate handles the Twrites, runsweep the transactions that a fid     *)
(* left open, the removals and the syncs; both hold fs->mutlk, but a long  *)
(* run of drops lets go of it between flushes (flushtx), so each flush is  *)
(* a step.  Readers hold no lock.  A crash brings back the tree of the     *)
(* last sync that finished.                                                *)
(***************************************************************************)
EXTENDS Integers, Sequences, FiniteSets, FiniteSetsExt

CONSTANTS Fid,        \* fids that write the store
          Reader,     \* fids that read it
          Oid,        \* object ids, a set of numbers (keys are in their order)
          Val,        \* what a chunk may hold
          MaxChunks,  \* bound: chunks of an object
          MaxVer,     \* bound: versions begun
          MaxRecs,    \* bound: objects a transaction puts or deletes
          Objkeep,    \* versions kept (3 in obj.c)
          Flush,      \* keys dropped between two yields of mutlk
          Env,        \* what happens in this instance, of EnvEvents
          None        \* nobody, nothing

EnvEvents == {"abort", "cut", "delete", "fail", "crash", "remove", "old"}

ASSUME ObjAssumption == /\ Oid \subseteq Nat /\ Env \subseteq EnvEvents
                        /\ MaxChunks \in Nat \ {0} /\ MaxVer \in Nat /\ MaxRecs \in Nat
                        /\ Objkeep \in Nat \ {0} /\ Flush \in Nat \ {0}

VARIABLES
  tree,     \* the mount's tree: header, chunks, dirent, pending mark
  disk,     \* the tree of the last finished sync
  taken,    \* the tree a sync under way has packed, or None
  fid,      \* per Fid: its transaction (Otx)
  owner,    \* otxs: who has the store's transaction
  job,      \* what runmutate and runsweep are in the middle of
  admq,     \* admchan: work for runsweep
  resumed,  \* runsweep has called objresume
  rd,       \* per Reader: its read stream
  hist,     \* history: what each version published
  acked     \* history: the newest version whose commit a sync has answered

vars == <<tree, disk, taken, fid, owner, job, admq, resumed, rd, hist, acked>>

Ver == 1..MaxVer
Idx == 0..(MaxChunks - 1)
Tomb == 0                      \* the length of a tombstone, in chunks
Absent == <<>>                 \* the content of an object that is not there

\* Key order of the tree: oid, then newest version (~ver), then index.
Before(a, b) == \/ a[1] < b[1]
                \/ a[1] = b[1] /\ a[2] > b[2]
                \/ a[1] = b[1] /\ a[2] = b[2] /\ a[3] < b[3]

First(S) == CHOOSE x \in S : \A y \in S \ {x} : Before(x, y)
FirstOnes(S) == {x \in S : Cardinality({y \in S : Before(y, x)}) < Flush}

Keys(t) == DOMAIN t.chunks
Drop(f, S) == [x \in DOMAIN f \ S |-> f[x]]
Write(f, x, y) == [z \in DOMAIN f \cup {x} |-> IF z = x THEN y ELSE f[z]]

EmptyTree == [n |-> 0, k |-> 0, w |-> 0, hdr |-> FALSE, chunks |-> <<>>,
              dent |-> TRUE, mark |-> FALSE]
NoTx == [ver |-> 0, ents |-> {}, oid |-> None, left |-> 0, idx |-> 0,
         recs |-> 0, content |-> Absent, want |-> <<>>]
Closed == [open |-> FALSE, tx |-> NoTx]
Opened == [open |-> TRUE, tx |-> NoTx]
NoJob == [op |-> "none", fid |-> None, todo |-> {}, then |-> "end", ver |-> 0]
NoRead == [st |-> "idle", ver |-> 0, last |-> None, oid |-> None, state |-> "skip",
           cver |-> 0, idx |-> 0, left |-> 0, out |-> [o \in Oid |-> Absent]]

Init ==
  /\ tree = EmptyTree /\ disk = EmptyTree /\ taken = None
  /\ fid = [f \in Fid |-> Opened]
  /\ owner = None
  /\ job = [p \in {"mut", "swp"} |-> NoJob]
  /\ admq = <<>> /\ resumed = FALSE
  /\ rd = [r \in Reader |-> NoRead]
  /\ hist = [v \in 0..MaxVer |-> [o \in Oid |-> Absent]]
  /\ acked = 0

(***************************************************************************)
(* Twrites, in runmutate.  A record, and the data of one chunk, is a step: *)
(* each may be the end of a Twrite, where objwrite flushes.  gone and      *)
(* rdonly are checked by fswrite.                                          *)
(***************************************************************************)
Idle(p) == job[p].op = "none"
MayWrite(f) == Idle("mut") /\ fid[f].open /\ tree.dent

SetTx(f, tx) == fid' = [fid EXCEPT ![f].tx = tx]
SetJob(p, j) == job' = [job EXCEPT ![p] = j]

\* A record finds tx->ver set, or begins.  With the store in otxs it fails
\* ("object store busy") and changes nothing.
Begun(f) == /\ tree' = [tree EXCEPT !.w = tree.n + 1, !.hdr = TRUE]
            /\ SetTx(f, [NoTx EXCEPT !.ver = tree.n + 1])
            /\ owner' = f

\* Mutant: otxs is not searched for the store.
Begin_NotBusy(f) ==
  /\ MayWrite(f)
  /\ fid[f].tx.ver = 0 /\ tree.n < MaxVer
  /\ Begun(f)
  /\ UNCHANGED <<disk, taken, job, admq, resumed, rd, hist, acked>>

Begin(f) ==
  /\ MayWrite(f)
  /\ fid[f].tx.ver = 0 /\ owner = None
  /\ tree.n < MaxVer
  /\ IF tree.w > tree.n
     THEN /\ SetJob("mut", [NoJob EXCEPT !.op = "unpub", !.fid = f])
          /\ UNCHANGED <<tree, fid, owner>>
     ELSE Begun(f) /\ UNCHANGED job
  /\ UNCHANGED <<disk, taken, admq, resumed, rd, hist, acked>>

PutRecord(f, o, content) ==
  /\ MayWrite(f)
  /\ fid[f].tx.ver # 0 /\ fid[f].tx.left = 0 /\ fid[f].tx.recs < MaxRecs
  /\ SetTx(f, [fid[f].tx EXCEPT !.oid = o, !.idx = 0, !.left = Len(content), !.recs = @ + 1,
                                !.content = content, !.ents = @ \cup {<<o, 0>>}])
  /\ UNCHANGED <<tree, disk, taken, owner, job, admq, resumed, rd, hist, acked>>

\* Mutant: the index is counted before the chunk's key is packed.
PutData_Counted(f) ==
  LET tx == fid[f].tx
      chunk == [len |-> Len(tx.content), val |-> tx.content[tx.idx + 1]]
  IN /\ MayWrite(f)
     /\ tx.left > 0
     /\ tree' = [tree EXCEPT !.chunks = Write(@, <<tx.oid, tx.ver, tx.idx + 1>>, chunk)]
     /\ SetTx(f, [tx EXCEPT !.idx = @ + 1, !.left = @ - 1])
     /\ UNCHANGED <<disk, taken, owner, job, admq, resumed, rd, hist, acked>>

\* The chunk's data is complete: putchunk; after the last one the entry
\* counts all of the object's chunks.
PutData(f) ==
  LET tx == fid[f].tx
      chunk == [len |-> Len(tx.content), val |-> tx.content[tx.idx + 1]]
      all == {<<tx.oid, i>> : i \in 0..tx.idx}
  IN /\ MayWrite(f)
     /\ tx.left > 0
     /\ tree' = [tree EXCEPT !.chunks = Write(@, <<tx.oid, tx.ver, tx.idx>>, chunk)]
     /\ SetTx(f, IF tx.left > 1
                 THEN [tx EXCEPT !.idx = @ + 1, !.left = @ - 1]
                 ELSE [NoTx EXCEPT !.ver = tx.ver, !.recs = tx.recs, !.ents = tx.ents \cup all,
                                   !.want = Write(tx.want, tx.oid, tx.content)])
     /\ UNCHANGED <<disk, taken, owner, job, admq, resumed, rd, hist, acked>>

\* Mutant: a tombstone without its entry (addent).
DeleteRecord_NoEntry(f, o) ==
  LET tx == fid[f].tx IN
  /\ "delete" \in Env
  /\ MayWrite(f)
  /\ tx.ver # 0 /\ tx.left = 0 /\ tx.recs < MaxRecs
  /\ tree' = [tree EXCEPT !.chunks = Write(@, <<o, tx.ver, 0>>, [len |-> Tomb, val |-> None])]
  /\ SetTx(f, [tx EXCEPT !.recs = @ + 1, !.want = Write(@, o, Absent)])
  /\ UNCHANGED <<disk, taken, owner, job, admq, resumed, rd, hist, acked>>

DeleteRecord(f, o) ==
  LET tx == fid[f].tx IN
  /\ "delete" \in Env
  /\ MayWrite(f)
  /\ tx.ver # 0 /\ tx.left = 0 /\ tx.recs < MaxRecs
  /\ tree' = [tree EXCEPT !.chunks = Write(@, <<o, tx.ver, 0>>, [len |-> Tomb, val |-> None])]
  /\ SetTx(f, [tx EXCEPT !.recs = @ + 1, !.ents = @ \cup {<<o, 0>>}, !.want = Write(@, o, Absent)])
  /\ UNCHANGED <<disk, taken, owner, job, admq, resumed, rd, hist, acked>>

(***************************************************************************)
(* commit: the header publishes the version, and the transaction is no     *)
(* more (tx->ver = 0, still in otxs); then the history is swept.  With     *)
(* flags&1 the reply waits for a sync (AOsync).                            *)
(***************************************************************************)
NewK(n, k) == LET k1 == IF n >= Objkeep /\ k < n - Objkeep + 1 THEN n - Objkeep + 1 ELSE k
              IN IF k1 = 0 THEN 1 ELSE k1

Commit(f, sync) ==
  LET tx == fid[f].tx IN
  /\ sync => "crash" \in Env
  /\ MayWrite(f)
  /\ tx.ver # 0 /\ tx.left = 0
  /\ tree.w = tx.ver             \* else Ecorrupt: OpenTx says it never is
  /\ tree' = [tree EXCEPT !.n = tx.ver, !.k = NewK(tx.ver, tree.k)]
  /\ SetTx(f, [tx EXCEPT !.ver = 0])
  /\ SetJob("mut", [NoJob EXCEPT !.op = "history", !.fid = f,
                                 !.then = IF sync THEN "sync" ELSE "end"])
  /\ hist' = [hist EXCEPT ![tx.ver] =
                [o \in Oid |-> IF o \in DOMAIN tx.want THEN tx.want[o] ELSE hist[tree.n][o]]]
  /\ UNCHANGED <<disk, taken, owner, admq, resumed, rd, acked>>

(***************************************************************************)
(* abort1: the chunks of the entries out, then W = N.  Called for the      *)
(* record 'a', by objwrite's error handler ("cut" when in the middle of a  *)
(* put: a disk that is full, an interrupt), by fsremove, and by runsweep   *)
(* for a fid that was clunked.                                             *)
(***************************************************************************)
AbortKeys(tx) == {<<e[1], tx.ver, e[2]>> : e \in tx.ents}

Abort(f) ==
  LET tx == fid[f].tx IN
  /\ "abort" \in Env
  /\ MayWrite(f)
  /\ tx.ver # 0 /\ (tx.left = 0 \/ "cut" \in Env)
  /\ SetJob("mut", [NoJob EXCEPT !.op = "abort", !.fid = f, !.todo = AbortKeys(tx)])
  /\ UNCHANGED <<tree, disk, taken, fid, owner, admq, resumed, rd, hist, acked>>

\* fsclunk, in the connection's process, waits for the fid's lock: objclunk
\* leaves an open transaction to runsweep.
Clunk(f) ==
  LET tx == fid[f].tx IN
  /\ fid[f].open /\ job["mut"].fid # f
  /\ tx.left = 0 \/ "cut" \in Env
  /\ fid' = [fid EXCEPT ![f] = Closed]
  /\ IF tx.ver # 0
     THEN /\ admq' = Append(admq, [NoJob EXCEPT !.op = "abort", !.todo = AbortKeys(tx)])
          /\ owner' = "swp"
     ELSE UNCHANGED <<admq, owner>>
  /\ UNCHANGED <<tree, disk, taken, job, resumed, rd, hist, acked>>

Open(f) ==
  /\ ~fid[f].open /\ tree.dent
  /\ fid' = [fid EXCEPT ![f] = Opened]
  /\ UNCHANGED <<tree, disk, taken, owner, job, admq, resumed, rd, hist, acked>>

\* fsremove: the fid's own transaction is aborted first, with the job's end
\* going on to the removal (FinishRemove).
Remove(f) ==
  LET tx == fid[f].tx IN
  /\ "remove" \in Env
  /\ MayWrite(f)
  /\ tx.left = 0 \/ "cut" \in Env
  /\ SetJob("mut", [NoJob EXCEPT !.op = "abort", !.fid = f, !.then = "remove",
                                 !.todo = IF tx.ver = 0 THEN {} ELSE AbortKeys(tx)])
  /\ UNCHANGED <<tree, disk, taken, fid, owner, admq, resumed, rd, hist, acked>>

(***************************************************************************)
(* The jobs of several flushes: begin's sweep of what a cut transaction    *)
(* left (dropunpub), abort1, commit's sweep of the history (dropold), and  *)
(* objsweep of a removed store (dropall; the header is its first key).     *)
(***************************************************************************)
\* Mutant: the published version too.
DropUnpub_Published(x) == x[2] >= tree.n

DropUnpub(x) == x[2] > tree.n

\* Mutant: versions older than the newest, kept or not.
DropOld_Kept(x) == \E y \in Keys(tree) : y[1] = x[1] /\ y[2] <= tree.n /\ x[2] < y[2]

\* "an oid's versions older than its newest <= K": any key of a version
\* counts, a left over chunk's too.
DropOld(x) == \E y \in Keys(tree) : y[1] = x[1] /\ y[2] <= tree.k /\ x[2] < y[2]

Droppable(j) ==
  CASE j.op = "unpub"   -> {x \in Keys(tree) : DropUnpub(x)}
    [] j.op = "abort"   -> Keys(tree) \cap j.todo
    [] j.op = "history" -> {x \in Keys(tree) :
                              DropOld(x) /\ \E e \in fid[j.fid].tx.ents : e[1] = x[1]}
    [] j.op = "clear"   -> Keys(tree)
    [] OTHER            -> {}

DropSome(p) ==
  LET S == FirstOnes(Droppable(job[p])) IN
  /\ S # {}
  /\ tree' = IF job[p].op = "clear"
             THEN [EmptyTree EXCEPT !.chunks = Drop(tree.chunks, S),
                                    !.dent = tree.dent, !.mark = tree.mark]
             ELSE [tree EXCEPT !.chunks = Drop(@, S)]
  /\ UNCHANGED <<disk, taken, fid, owner, job, admq, resumed, rd, hist, acked>>

\* endtx, for the fid a job works for or for the Otx runsweep was given.
EndTx(p) == /\ fid' = IF p = "mut" THEN [fid EXCEPT ![job[p].fid].tx = NoTx] ELSE fid
            /\ owner' = None

Swept(p, op) == job[p].op = op /\ Droppable(job[p]) = {}

FinishUnpub ==
  /\ Swept("mut", "unpub")
  /\ Begun(job["mut"].fid)
  /\ SetJob("mut", NoJob)
  /\ UNCHANGED <<disk, taken, admq, resumed, rd, hist, acked>>

\* Mutant: the commit is answered without waiting for its sync.
FinishHistory_Answers ==
  /\ Swept("mut", "history")
  /\ EndTx("mut")
  /\ SetJob("mut", NoJob)
  /\ acked' = IF job["mut"].then = "sync" THEN tree.n ELSE acked
  /\ UNCHANGED <<tree, disk, taken, admq, resumed, rd, hist>>

FinishHistory ==
  LET j == job["mut"] IN
  /\ Swept("mut", "history") \/ (j.op = "history" /\ "fail" \in Env)
  /\ EndTx("mut")
  /\ SetJob("mut", NoJob)
  /\ admq' = IF j.then = "sync" THEN Append(admq, [NoJob EXCEPT !.op = "sync", !.ver = tree.n])
                                ELSE admq
  /\ UNCHANGED <<tree, disk, taken, resumed, rd, hist, acked>>

\* The header is written even when nothing was (puthdr inserts it).
HasTx(p) == IF p = "swp" THEN TRUE ELSE fid[job[p].fid].tx.ver # 0

\* Mutant: the Otx stays in otxs (no endtx).
FinishAbort_Busy(p) ==
  /\ Swept(p, "abort")
  /\ tree' = IF HasTx(p) THEN [tree EXCEPT !.w = tree.n, !.hdr = TRUE] ELSE tree
  /\ SetJob(p, IF job[p].then = "remove" THEN [job[p] EXCEPT !.op = "remove"] ELSE NoJob)
  /\ UNCHANGED <<disk, taken, fid, owner, admq, resumed, rd, hist, acked>>

FinishAbort(p) ==
  /\ Swept(p, "abort")
  /\ IF HasTx(p) THEN /\ tree' = [tree EXCEPT !.w = tree.n, !.hdr = TRUE]
                     /\ EndTx(p)
                ELSE UNCHANGED <<tree, fid, owner>>
  /\ SetJob(p, IF job[p].then = "remove" THEN [job[p] EXCEPT !.op = "remove"] ELSE NoJob)
  /\ UNCHANGED <<disk, taken, admq, resumed, rd, hist, acked>>

\* An upsert fails inside abort1: W > N is left to the next begin.
FailAbort(p) ==
  /\ "fail" \in Env
  /\ job[p].op = "abort" /\ HasTx(p)
  /\ EndTx(p)
  /\ SetJob(p, NoJob)
  /\ UNCHANGED <<tree, disk, taken, admq, resumed, rd, hist, acked>>

\* Mutant: no pending mark in the dirent's delete.
FinishRemove_NoMark ==
  /\ job["mut"].op = "remove"
  /\ tree' = [tree EXCEPT !.dent = FALSE]
  /\ fid' = [fid EXCEPT ![job["mut"].fid] = Closed]
  /\ admq' = Append(admq, [NoJob EXCEPT !.op = "clear"])
  /\ SetJob("mut", NoJob)
  /\ UNCHANGED <<disk, taken, owner, resumed, rd, hist, acked>>

\* The dirent's delete and the pending mark in one upsert.
FinishRemove ==
  LET f == job["mut"].fid IN
  /\ job["mut"].op = "remove"
  /\ tree' = [tree EXCEPT !.dent = FALSE, !.mark = TRUE]
  /\ fid' = [fid EXCEPT ![f] = Closed]
  /\ admq' = Append(admq, [NoJob EXCEPT !.op = "clear"])
  /\ SetJob("mut", NoJob)
  /\ UNCHANGED <<disk, taken, owner, resumed, rd, hist, acked>>

\* The removal is refused (Eperm, Ephase): the fid is clunked all the same.
FailRemove ==
  /\ "fail" \in Env
  /\ job["mut"].op = "remove"
  /\ fid' = [fid EXCEPT ![job["mut"].fid] = Closed]
  /\ SetJob("mut", NoJob)
  /\ UNCHANGED <<tree, disk, taken, owner, admq, resumed, rd, hist, acked>>

\* The keys are out (an empty store has its header's): the mark goes last.
FinishClear ==
  /\ Swept("swp", "clear")
  /\ tree' = [EmptyTree EXCEPT !.dent = tree.dent]
  /\ SetJob("swp", NoJob)
  /\ UNCHANGED <<disk, taken, fid, owner, admq, resumed, rd, hist, acked>>

\* An upsert fails: begin fails with it; a removal waits for a restart.
FailSweep(p) ==
  /\ "fail" \in Env
  /\ job[p].op \in {"unpub", "clear"}
  /\ SetJob(p, NoJob)
  /\ UNCHANGED <<tree, disk, taken, fid, owner, admq, resumed, rd, hist, acked>>

(***************************************************************************)
(* runsweep's queue.  The first AOsync after the start resumes a removal   *)
(* that a crash cut short (objresume).  A sync packs the tree under mutlk  *)
(* and is answered when it is on the disk.                                 *)
(***************************************************************************)
IsSync(j) == j.op = "sync"

TimerSync ==
  /\ "crash" \in Env
  /\ ~IsSync(job["swp"]) /\ \A i \in DOMAIN admq : ~IsSync(admq[i])   \* bound: one waits
  /\ admq' = Append(admq, [NoJob EXCEPT !.op = "sync"])
  /\ UNCHANGED <<tree, disk, taken, fid, owner, job, resumed, rd, hist, acked>>

\* Mutant: no removal is resumed.
Resume_Nothing ==
  /\ Idle("swp") /\ admq # <<>> /\ IsSync(Head(admq)) /\ ~resumed
  /\ resumed' = TRUE
  /\ UNCHANGED <<tree, disk, taken, fid, owner, job, admq, rd, hist, acked>>

Resume ==
  /\ Idle("swp") /\ admq # <<>> /\ IsSync(Head(admq)) /\ ~resumed
  /\ resumed' = TRUE
  /\ SetJob("swp", IF tree.mark THEN [NoJob EXCEPT !.op = "clear"] ELSE NoJob)
  /\ UNCHANGED <<tree, disk, taken, fid, owner, admq, rd, hist, acked>>

Receive ==
  /\ Idle("swp") /\ admq # <<>> /\ (IsSync(Head(admq)) => resumed)
  /\ SetJob("swp", Head(admq))
  /\ admq' = Tail(admq)
  /\ UNCHANGED <<tree, disk, taken, fid, owner, resumed, rd, hist, acked>>

SyncPack ==
  /\ IsSync(job["swp"]) /\ taken = None
  /\ taken' = tree
  /\ UNCHANGED <<tree, disk, fid, owner, job, admq, resumed, rd, hist, acked>>

SyncDone ==
  /\ taken # None
  /\ disk' = taken /\ taken' = None
  /\ acked' = IF job["swp"].ver > acked THEN job["swp"].ver ELSE acked
  /\ SetJob("swp", NoJob)
  /\ UNCHANGED <<tree, fid, owner, admq, resumed, rd, hist>>

Crash ==
  /\ "crash" \in Env
  /\ tree' = disk
  /\ taken' = None
  /\ fid' = [f \in Fid |-> Closed]
  /\ owner' = None
  /\ job' = [p \in {"mut", "swp"} |-> NoJob]
  /\ admq' = <<>> /\ resumed' = FALSE
  /\ rd' = [r \in Reader |-> NoRead]
  /\ hist' = [v \in 0..MaxVer |-> IF v <= disk.n THEN hist[v] ELSE hist[0]]
  /\ UNCHANGED <<disk, acked>>

(***************************************************************************)
(* Treads, in a reader.  A read from offset 0 pins a version: N, or one    *)
(* the record 'v' chose.  Each Tread looks at gone, scans on from the key  *)
(* it was at, in the tree as it is then, and at its end reads the header   *)
(* again.  A Tread scans one key here: several in a row are a longer one.  *)
(***************************************************************************)
ReadStart(r, v) ==
  /\ rd[r].st = "idle" /\ tree.dent
  /\ v = tree.n \/ "old" \in Env
  /\ v <= tree.n /\ (v >= tree.k \/ v = 0)       \* else "object version not kept"
  /\ rd' = [rd EXCEPT ![r] = [NoRead EXCEPT !.st = "scan", !.ver = v]]
  /\ UNCHANGED <<tree, disk, taken, fid, owner, job, admq, resumed, hist, acked>>

ReadNext(r) ==
  /\ rd[r].st = "next"
  /\ rd' = [rd EXCEPT ![r] = IF tree.dent THEN [@ EXCEPT !.st = "scan"] ELSE NoRead]
  /\ UNCHANGED <<tree, disk, taken, fid, owner, job, admq, resumed, hist, acked>>

\* What the stream s becomes at the key x.
Seen(s, x) ==
  LET c == tree.chunks[x]
      state == IF x[1] # s.oid THEN "seek" ELSE s.state
      at == [s EXCEPT !.st = "check", !.last = x, !.oid = x[1], !.state = state]
      grown == [at EXCEPT !.out[x[1]] = Append(@, c.val)]
  IN CASE state = "skip" \/ x[2] > s.ver         -> at
       [] state = "seek" /\ x[2] <= s.ver /\ x[3] # 0 -> at          \* left over
       [] state = "seek" /\ x[2] <= s.ver /\ x[3] = 0 /\ c.len = Tomb ->
            [at EXCEPT !.state = "skip"]
       [] state = "seek" /\ x[2] <= s.ver /\ x[3] = 0 /\ c.len # Tomb ->
            [grown EXCEPT !.state = IF c.len > 1 THEN "data" ELSE "skip",
                          !.left = c.len - 1, !.idx = 1, !.cver = x[2]]
       [] state = "data" /\ x[2] <= s.ver ->
            IF x[2] # s.cver \/ x[3] # s.idx
            THEN [at EXCEPT !.st = "corrupt"]
            ELSE [grown EXCEPT !.left = @ - 1, !.idx = @ + 1,
                               !.state = IF s.left = 1 THEN "skip" ELSE "data"]

ReadScan(r) ==
  LET s == rd[r]
      ahead == {x \in Keys(tree) : s.last = None \/ Before(s.last, x)}
  IN /\ s.st = "scan"
     /\ rd' = [rd EXCEPT ![r] = IF ahead = {} THEN [s EXCEPT !.st = "end"]
                                             ELSE Seen(s, First(ahead))]
     /\ UNCHANGED <<tree, disk, taken, fid, owner, job, admq, resumed, hist, acked>>

\* Mutant: the header is not read again.
ReadCheck_Blind(r) ==
  /\ rd[r].st \in {"check", "end"}
  /\ rd' = [rd EXCEPT ![r].st = IF @ = "end" THEN "done" ELSE "next"]
  /\ UNCHANGED <<tree, disk, taken, fid, owner, job, admq, resumed, hist, acked>>

\* "object version not kept" ends the stream: the reader starts over.
ReadCheck(r) ==
  /\ rd[r].st \in {"check", "end"}
  /\ rd' = [rd EXCEPT ![r] =
       IF @.ver # 0 /\ @.ver < tree.k THEN NoRead
       ELSE [@ EXCEPT !.st = IF @ = "end" THEN "done" ELSE "next"]]
  /\ UNCHANGED <<tree, disk, taken, fid, owner, job, admq, resumed, hist, acked>>

ReadOver(r) ==
  /\ rd[r].st \in {"done", "corrupt"}
  /\ rd' = [rd EXCEPT ![r] = NoRead]
  /\ UNCHANGED <<tree, disk, taken, fid, owner, job, admq, resumed, hist, acked>>

Contents == UNION {{[i \in 1..n |-> v] : v \in Val} : n \in 1..MaxChunks}

Twrite(f) ==
  \/ Begin(f) \/ PutData(f) \/ Abort(f)
  \/ \E o \in Oid : DeleteRecord(f, o) \/ \E c \in Contents : PutRecord(f, o, c)
  \/ \E sync \in BOOLEAN : Commit(f, sync)

Mutate == \/ DropSome("mut") \/ FinishUnpub \/ FinishHistory \/ FinishAbort("mut")
          \/ FailAbort("mut") \/ FailSweep("mut") \/ FinishRemove \/ FailRemove

Sweep == \/ Resume \/ Receive \/ DropSome("swp") \/ FinishAbort("swp") \/ FailAbort("swp")
         \/ FinishClear \/ FailSweep("swp") \/ SyncPack \/ SyncDone

Read(r) == \/ \E v \in 0..MaxVer : ReadStart(r, v)
           \/ ReadNext(r) \/ ReadScan(r) \/ ReadCheck(r) \/ ReadOver(r)

Next ==
  \/ \E f \in Fid : Twrite(f) \/ Clunk(f) \/ Open(f) \/ Remove(f)
  \/ Mutate \/ Sweep \/ TimerSync \/ Crash
  \/ \E r \in Reader : Read(r)

Spec == Init /\ [][Next]_vars

\* runmutate finishes the message it is at, runsweep serves its queue.
\* runtasks sends an AOsync every few seconds.
LiveSpec == Spec /\ WF_vars(Mutate) /\ WF_vars(Sweep) /\ WF_vars(TimerSync)

TypeOK ==
  /\ tree.n \in 0..MaxVer /\ tree.k \in 0..MaxVer /\ tree.w \in 0..MaxVer
  /\ Keys(tree) \subseteq Oid \X Ver \X Idx
  /\ owner \in Fid \cup {"swp", None}
  /\ \A f \in Fid : fid[f].tx.ver \in 0..MaxVer /\ fid[f].tx.left \in 0..MaxChunks
  /\ \A p \in {"mut", "swp"} : job[p].op \in
        {"none", "unpub", "abort", "history", "remove", "clear", "sync"}
  /\ acked \in 0..MaxVer

\* What a reader of version v is to see: of each object its newest version
\* <= v, whole, unless that is a tombstone (obj.c's header comment).
ChunkVal(x) == IF x \in Keys(tree) THEN tree.chunks[x].val ELSE None

View(v) ==
  [o \in Oid |->
    LET vs == {x[2] : x \in {y \in Keys(tree) : y[1] = o /\ y[2] <= v /\ y[3] = 0}}
        top == tree.chunks[<<o, Max(vs), 0>>]
    IN IF vs = {} \/ top.len = Tomb THEN Absent
       ELSE [i \in 1..top.len |-> ChunkVal(<<o, Max(vs), i - 1>>)]]

\* The published version is what its commit made it, whatever was begun,
\* cut short, aborted, swept or lost in a crash since (commit publishes
\* with one message; dropold and abort1 touch nothing it shows).
PublishedIntact == tree.dent => View(tree.n) = hist[tree.n]

\* So is every version that the header says is kept, K..N (dropold: "an
\* oid's versions older than its newest <= K: seen by none kept").
KeptIntact ==
  tree.dent => \A v \in Ver : tree.k <= v /\ v <= tree.n => View(v) = hist[v]

\* An open transaction is the store's only one, and writes the version
\* after the published one: commit's Ecorrupt check never fires.
OpenTx ==
  \A f \in Fid : tree.dent /\ fid[f].tx.ver # 0 =>
    owner = f /\ fid[f].tx.ver = tree.n + 1 /\ tree.w = tree.n + 1

\* "A failed or abandoned transaction's keys are taken out (versions > N)":
\* once nobody has the store, W = N says that nothing is left.
NoStray ==
  tree.dent /\ owner = None /\ Idle("mut") /\ tree.w = tree.n
    => \A x \in Keys(tree) : x[2] <= tree.n

\* A stream that ends without an error has shown one whole version, though
\* it read a tree that changed under it (objread reads the header again).
ReadWhole == \A r \in Reader : rd[r].st = "done" => rd[r].out = hist[rd[r].ver]

\* A stream never meets a chunk it does not expect (Ecorrupt).
NeverCorrupt == \A r \in Reader : rd[r].st # "corrupt"

\* A commit answered after its sync is there, and the same, after a crash,
\* unless the store has been removed.
DurableHistory ==
  [][tree'.dent => \A v \in 0..acked : tree'.n >= acked /\ hist'[v] = hist[v]]_vars

\* Once a removed store's pending mark is out and runsweep has nothing more
\* to do, no key of the store is left, its header included (fsremove,
\* objsweep, objresume; docs/gefs-obj.md T5.4).
Quiet == owner = None /\ admq = <<>> /\ Idle("mut") /\ Idle("swp")

RemovedClean == Quiet /\ ~tree.dent /\ ~tree.mark => ~tree.hdr /\ Keys(tree) = {}

\* A transaction left open by a clunk does not keep the store busy for ever.
StoreFreed == (owner = "swp") ~> (owner # "swp")

\* A removal ends, unless crashes never do: the pending mark is found again
\* after a crash, and the store's keys and the mark go (objresume).
RemovalEnds == <>[][~Crash]_vars => [](tree.mark => <>~tree.mark)
=============================================================================
