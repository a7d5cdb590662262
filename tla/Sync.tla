------------------------------- MODULE Sync --------------------------------
(***************************************************************************)
(* How gefs gets a state of its trees onto the disk, and finds it again    *)
(* after a crash (src/sys/src/9/gefs: fs.c sync, blk.c, load.c).           *)
(*                                                                         *)
(* Mutators copy tree blocks and queue the copies; runsync takes the queue *)
(* in the order of qcmp, writes the blocks and gives freed ones back; the  *)
(* allocation log, a chain of blocks, says which blocks are free; sync     *)
(* commits in passes: the arena's header, the two superblocks, the arena's *)
(* footer.  A crash loses the memory and, where the disk has a write       *)
(* cache, any of the writes since the last flush; it may tear the block of *)
(* the queue that is being written.  A log block is written whole or not   *)
(* at all.  One arena; one syncer (nsyncers is 1).                         *)
(***************************************************************************)
EXTENDS Integers, Sequences, FiniteSets, SequencesExt

CONSTANTS Size,      \* the last block, the second superblock
          LogCap,    \* entries a log block has room for
          LogFloor,  \* blocks an arena keeps for its log (Logfloor)
          MaxUps,    \* bound: tree blocks written
          MaxSync,   \* bound: syncs begun
          MaxCrash,  \* bound: crashes
          Env        \* what happens in this instance, of EnvEvents

EnvEvents == {"cache", "compress", "plain", "torn"}

ASSUME SyncAssumption ==
  /\ {Size, LogCap, LogFloor, MaxUps, MaxSync, MaxCrash} \subseteq Nat
  /\ Size > 6 /\ LogCap > 1 /\ Env \subseteq EnvEvents

VARIABLES
  now,       \* what a read of each block gives
  may,       \* what each block may have after a crash
  free,      \* the arena's free blocks
  loghd,     \* its log's first block
  logtl,     \* the last one, and its entries, in memory
  ents,
  tree,      \* the tree: its blocks, with what is to be in them
  fresh,     \* of these blocks, those newer than the last sync's snapshot
  dead,      \* snapdl: blocks that go when the next sync is done
  limbo,     \* blocks that go when no worker can see them (module Epoch)
  q,         \* the sync queue
  qgen,
  sp,        \* the syncing process: its place, and what it has packed
  st,        \* "up", loading ("sb", "hdr", "log") or "dead"
  ptr,       \* the log block loadlog is at
  safe,      \* history: the trees a crash may leave, by what sync promises
  ups, syncs, crashes \* history: counters for the bounds

diskVars == <<now, may>>
logVars == <<free, loghd, logtl, ents>>
treeVars == <<tree, fresh, dead, limbo>>
queueVars == <<q, qgen>>
loadVars == <<st, ptr>>
counters == <<ups, syncs, crashes>>
vars == <<diskVars, logVars, treeVars, queueVars, sp, loadVars, safe, counters>>

Sb0 == 0
H0 == 1
H1 == 2
Sb1 == Size
Data == 3..(Size - 1)
Block == 0..Size

MaxTree == 2    \* bound: blocks the tree has

\* Contents.  A pointer carries its block's hash: here, the contents.
Junk == [junk |-> 0]
Log(es, next) == [ents |-> es, next |-> next]
Nil == -1
Leaf(n) == [leaf |-> n]
Arena(hd, f) == [loghd |-> hd, used |-> Cardinality(Data \ f)]
Super(g, t, h) == [qgen |-> g, tree |-> t, hdr |-> h]

\* Entries of the log.
LogAlloc(b) == [op |-> "alloc", blks |-> {b}]
LogFree(s) == [op |-> "free", blks |-> s]
LogSync(g) == [op |-> "sync", gen |-> g]

Idle == [pc |-> "idle", syncing |-> FALSE, sdl |-> {}, hdr |-> Arena(Nil, Data), sb |-> Junk, old |-> Nil]

Addrs(t) == {p.addr : p \in t}
Up == st = "up"

\* A fresh file system, synced: one tree block, and the log that says so.
Init ==
  LET f == Data \ {3, 4}
      h == Arena(3, f)
      t == {[addr |-> 4, leaf |-> 0]}
      sb == Super(1, t, h)
  IN /\ now = [b \in Block |-> CASE b \in {Sb0, Sb1} -> sb
                                 [] b \in {H0, H1} -> h
                                 [] b = 3 -> Log(<<LogFree(f), LogSync(1)>>, Nil)
                                 [] b = 4 -> Leaf(0)
                                 [] OTHER -> Junk]
     /\ may = [b \in Block |-> {now[b]}]
     /\ free = f /\ loghd = 3 /\ logtl = 3 /\ ents = <<LogFree(f), LogSync(1)>>
     /\ tree = t /\ fresh = {} /\ dead = {} /\ limbo = {}
     /\ q = {} /\ qgen = 1
     /\ sp = Idle /\ st = "up" /\ ptr = Nil
     /\ safe = {t}
     /\ ups = 0 /\ syncs = 0 /\ crashes = 0

(***************************************************************************)
(* The disk, and the log on it.  A step changes x, the part of the state   *)
(* that these operations share, and Set makes that the next state.         *)
(***************************************************************************)
Cur == [now |-> now, may |-> may, free |-> free, hd |-> loghd, tl |-> logtl, ents |-> ents]
Set(x) == /\ now' = x.now /\ may' = x.may /\ free' = x.free
          /\ loghd' = x.hd /\ logtl' = x.tl /\ ents' = x.ents

\* pwrite: at once on the disk, or in its cache until the next flush.
Syncblk(x, b, c) ==
  [x EXCEPT !.now[b] = c, !.may[b] = IF "cache" \in Env THEN @ \cup {c} ELSE {c}]

Flushlog(x) == Syncblk(x, x.tl, Log(x.ents, Nil))

\* Mutant: one entry more than there is room for.
Logappend_Over(x, e) ==
  IF Len(x.ents) <= LogCap THEN [x EXCEPT !.ents = Append(@, e)]
  ELSE LET o == Max(x.free)
           y == Syncblk(x, o, Log(<<e>>, Nil))
           z == Syncblk(y, x.tl, Log(Append(x.ents, LogAlloc(o)), o))
       IN [z EXCEPT !.free = @ \ {o}, !.tl = o, !.ents = <<e>>]

\* When the tail is full, the next block is written first, then the tail
\* that leads to it.
Logappend(x, e) ==
  IF Len(x.ents) < LogCap THEN [x EXCEPT !.ents = Append(@, e)]
  ELSE LET o == Max(x.free)
           y == Syncblk(x, o, Log(<<e>>, Nil))
           z == Syncblk(y, x.tl, Log(Append(x.ents, LogAlloc(o)), o))
       IN [z EXCEPT !.free = @ \ {o}, !.tl = o, !.ents = <<e>>]

\* blkdealloc_lk: logged, then free.
Blkdealloc(x, b) == LET y == Logappend(x, LogFree({b})) IN [y EXCEPT !.free = @ \cup {b}]

(***************************************************************************)
(* Mutators: a block copied, logged, queued; the old one freed or killed.  *)
(***************************************************************************)
QWrite(g, b, c) == [gen |-> g, op |-> 2, addr |-> b, c |-> c]
QFree(g, b) == [gen |-> g, op |-> 3, addr |-> b, c |-> Junk]
QFence(g) == [gen |-> g, op |-> 1, addr |-> 0, c |-> Junk]

Upsert(p) ==
  LET b == Max(free)
      x == [Cur EXCEPT !.free = @ \ {b}]
      new == [addr |-> b, leaf |-> ups + 1]
  IN /\ Up /\ p \in tree
     /\ ups < MaxUps /\ ups' = ups + 1
     /\ Cardinality(free) > LogFloor
     /\ Set(Logappend(x, LogAlloc(b)))
     /\ q' = q \cup {QWrite(qgen, b, Leaf(ups + 1))}
     /\ \/ /\ tree' = (tree \ {p}) \cup {new}
           /\ IF p.addr \in fresh THEN limbo' = limbo \cup {p.addr} /\ UNCHANGED dead
                                  ELSE dead' = dead \cup {p.addr} /\ UNCHANGED limbo
           /\ fresh' = (fresh \ {p.addr}) \cup {b}
        \/ /\ Cardinality(tree) < MaxTree
           /\ tree' = tree \cup {new}
           /\ fresh' = fresh \cup {b}
           /\ UNCHANGED <<dead, limbo>>
     /\ UNCHANGED <<qgen, sp, loadVars, safe, syncs, crashes>>

\* epochclean: the block is marked Bfreed, which runsync looks at before it
\* writes, and its free is queued.
LimboFree(b) ==
  /\ Up /\ b \in limbo
  /\ limbo' = limbo \ {b}
  /\ q' = {IF e.op = 2 /\ e.addr = b THEN [e EXCEPT !.c = Junk] ELSE e : e \in q}
          \cup {QFree(qgen, b)}
  /\ UNCHANGED <<diskVars, logVars, tree, fresh, dead, qgen, sp, loadVars, safe, counters>>

(***************************************************************************)
(* runsync.                                                                *)
(***************************************************************************)
\* qcmp.
Before(d, e) == \/ d.gen < e.gen
                \/ d.gen = e.gen /\ d.op < e.op
                \/ d.gen = e.gen /\ d.op = e.op /\ d.addr <= e.addr

First(e) == e \in q /\ \A d \in q : Before(e, d)

WriteBlock(e) ==
  /\ Up /\ First(e) /\ e.op = 2
  /\ q' = q \ {e}
  /\ Set(IF e.c = Junk THEN Cur ELSE Syncblk(Cur, e.addr, e.c))
  /\ UNCHANGED <<treeVars, qgen, sp, loadVars, safe, counters>>

FreeBlock(e) ==
  /\ Up /\ First(e) /\ e.op = 3
  /\ q' = q \ {e}
  /\ Set(Blkdealloc(Cur, e.addr))
  /\ UNCHANGED <<treeVars, qgen, sp, loadVars, safe, counters>>

Fence(e) ==
  /\ Up /\ First(e) /\ e.op = 1
  /\ q' = q \ {e}
  /\ sp' = [sp EXCEPT !.syncing = FALSE]
  /\ UNCHANGED <<diskVars, logVars, treeVars, qgen, loadVars, safe, counters>>

(***************************************************************************)
(* The syncing process.                                                    *)
(***************************************************************************)
SpAt(pc) == Up /\ sp.pc = pc /\ ~sp.syncing

\* compresslog, before the AOsync's sync: the free blocks in a log of their
\* own, in the lowest block; the second one it took is given back.
Compress ==
  LET b == Min(free)
      c == Min(free \ {b})
      es == <<LogFree(free \ {b, c})>>
      y == Syncblk(Flushlog(Cur), b, Log(es, Nil))
  IN /\ SpAt("idle") /\ "compress" \in Env /\ syncs < MaxSync
     /\ Cardinality(free) > 2
     /\ Set(Blkdealloc([y EXCEPT !.hd = b, !.tl = b, !.ents = es, !.free = @ \ {b, c}], c))
     /\ sp' = [sp EXCEPT !.pc = "begin", !.old = loghd]
     /\ UNCHANGED <<treeVars, queueVars, loadVars, safe, counters>>

SyncBegin ==
  /\ SpAt("begin") \/ (SpAt("idle") /\ "plain" \in Env)
  /\ syncs < MaxSync /\ syncs' = syncs + 1
  /\ qgen' = qgen + 1
  /\ sp' = [sp EXCEPT !.pc = "pack"]
  /\ UNCHANGED <<diskVars, logVars, treeVars, q, loadVars, safe, ups, crashes>>

\* Mutant: the log's tail is left for later.
SyncPack_NoFlushlog ==
  LET x == Logappend(Cur, LogSync(qgen))
      h == Arena(x.hd, x.free)
  IN /\ SpAt("pack")
     /\ Set(x)
     /\ sp' = [sp EXCEPT !.pc = "header", !.sdl = dead, !.hdr = h, !.sb = Super(qgen, tree, h)]
     /\ fresh' = {} /\ dead' = {}
     /\ UNCHANGED <<tree, limbo, queueVars, loadVars, safe, counters>>

\* Pass 0, under mutlk: the trees' snapshot, the deadlist, the log up to
\* here on the disk, header and superblock packed.
SyncPack ==
  LET x == Flushlog(Logappend(Cur, LogSync(qgen)))
      h == Arena(x.hd, x.free)
  IN /\ SpAt("pack")
     /\ Set(x)
     /\ sp' = [sp EXCEPT !.pc = "header", !.sdl = dead, !.hdr = h, !.sb = Super(qgen, tree, h)]
     /\ fresh' = {} /\ dead' = {}
     /\ UNCHANGED <<tree, limbo, queueVars, loadVars, safe, counters>>

\* Mutant: the fence goes in the generation of the writes before it.
WrWait_SameGen(writes, barrier) ==
  /\ q' = q \cup writes \cup {QFence(qgen)}
  /\ qgen' = qgen + 1

\* enqueue, then wrbarrier if there is one, then wrwait up to its sleep.
WrWait(writes, barrier) ==
  /\ q' = q \cup writes \cup {QFence(qgen + barrier + 1)}
  /\ qgen' = qgen + barrier + 2

\* wrwait's end: gflushdev.
Flush == may' = [b \in Block |-> {now[b]}] /\ UNCHANGED now

SyncGo(pc) == sp' = [sp EXCEPT !.pc = pc, !.syncing = TRUE]

SyncHeader ==
  /\ SpAt("header")
  /\ WrWait({QWrite(qgen, H0, sp.hdr)}, 1)
  /\ SyncGo("super")
  /\ UNCHANGED <<diskVars, logVars, treeVars, loadVars, safe, counters>>

SyncSuper ==
  /\ SpAt("super")
  /\ Flush
  /\ WrWait({QWrite(qgen, Sb0, sp.sb), QWrite(qgen, Sb1, sp.sb)}, 1)
  /\ SyncGo("footer")
  /\ safe' = safe \cup {sp.sb.tree}
  /\ UNCHANGED <<logVars, treeVars, loadVars, counters>>

\* Mutant: the disk's cache is not flushed after the superblocks.
SyncFooter_NoFlush ==
  /\ SpAt("footer")
  /\ WrWait({QWrite(qgen, H1, sp.hdr)}, 0)
  /\ SyncGo("done")
  /\ safe' = {sp.sb.tree}
  /\ UNCHANGED <<diskVars, logVars, treeVars, loadVars, counters>>

SyncFooter ==
  /\ SpAt("footer")
  /\ Flush
  /\ WrWait({QWrite(qgen, H1, sp.hdr)}, 0)
  /\ SyncGo("done")
  /\ safe' = {sp.sb.tree}
  /\ UNCHANGED <<logVars, treeVars, loadVars, counters>>

\* Pass 4, the deadlist; then the AOsync's free of the old log.
SyncDone ==
  /\ SpAt("done")
  /\ Flush
  /\ limbo' = limbo \cup sp.sdl
  /\ sp' = IF sp.old = Nil THEN Idle ELSE [Idle EXCEPT !.pc = "oldlog", !.old = sp.old]
  /\ UNCHANGED <<logVars, tree, fresh, dead, queueVars, loadVars, safe, counters>>

IsLog(c) == "ents" \in DOMAIN c

SyncOldLog ==
  LET c == now[sp.old] IN
  /\ SpAt("oldlog")
  /\ IF IsLog(c)
     THEN /\ limbo' = limbo \cup {sp.old}
          /\ sp' = IF c.next = Nil THEN Idle ELSE [sp EXCEPT !.old = c.next]
          /\ UNCHANGED st
     ELSE st' = "dead" /\ UNCHANGED <<limbo, sp>>
  /\ UNCHANGED <<diskVars, logVars, tree, fresh, dead, queueVars, ptr, safe, counters>>

(***************************************************************************)
(* A crash, and loadfs.                                                    *)
(***************************************************************************)
\* What the queue's block being written may be left as: what it was, or torn.
Tear ==
  \/ UNCHANGED diskVars
  \/ /\ "torn" \in Env /\ Up
     /\ \E e \in q : /\ First(e) /\ e.op = 2 /\ e.c # Junk
                    /\ now' = [now EXCEPT ![e.addr] = Junk]
                    /\ may' = [may EXCEPT ![e.addr] = {Junk}]

Crash ==
  /\ st \notin {"dead", "lost"}
  /\ crashes < MaxCrash /\ crashes' = crashes + 1
  /\ st' = "lost"
  /\ free' = {} /\ loghd' = Nil /\ logtl' = Nil /\ ents' = <<>>
  /\ tree' = {} /\ fresh' = {} /\ dead' = {} /\ limbo' = {}
  /\ q' = {} /\ qgen' = 0 /\ sp' = Idle /\ ptr' = Nil
  /\ Tear
  /\ UNCHANGED <<safe, ups, syncs>>

\* What the disk's cache had, written or lost, block by block.
Unsettled == {b \in Block : Cardinality(may[b]) > 1}

Settle ==
  /\ st = "lost" /\ Unsettled # {}
  /\ LET b == Min(Unsettled) IN
     \E c \in may[b] : now' = [now EXCEPT ![b] = c] /\ may' = [may EXCEPT ![b] = {c}]
  /\ UNCHANGED <<logVars, treeVars, queueVars, sp, loadVars, safe, counters>>

IsSuper(c) == "tree" \in DOMAIN c

\* Mutant: only the first superblock is read.
SuperFound_First == IF IsSuper(now[Sb0]) THEN {now[Sb0]} ELSE {}

\* The first superblock, or if it does not unpack the second.
SuperFound ==
  IF IsSuper(now[Sb0]) THEN {now[Sb0]} ELSE {c \in {now[Sb1]} : IsSuper(c)}

LoadSuper ==
  /\ st = "lost" /\ Unsettled = {}
  /\ \/ \E c \in SuperFound :
          /\ tree' = c.tree /\ qgen' = c.qgen
          /\ sp' = [Idle EXCEPT !.sb = c]
          /\ st' = "hdr"
     \/ /\ SuperFound = {}
        /\ st' = "dead"
        /\ UNCHANGED <<tree, qgen, sp>>
  /\ UNCHANGED <<diskVars, logVars, fresh, dead, limbo, q, ptr, safe, counters>>

\* loadarena: the header that has the superblock's hash, or the footer.
LoadArena ==
  /\ st = "hdr"
  /\ IF sp.sb.hdr \in {now[H0], now[H1]}
     THEN loghd' = sp.sb.hdr.loghd /\ ptr' = loghd' /\ st' = "log"
     ELSE st' = "dead" /\ UNCHANGED <<loghd, ptr>>
  /\ UNCHANGED <<diskVars, free, logtl, ents, treeVars, queueVars, sp, safe, counters>>

\* grabrange and freerange abort on a block that is not, or already, free.
Replay(r, e) ==
  CASE e.op = "alloc" -> [free |-> r.free \ e.blks, ok |-> r.ok /\ e.blks \subseteq r.free]
    [] e.op = "free" -> [free |-> r.free \cup e.blks, ok |-> r.ok /\ e.blks \cap r.free = {}]
    [] e.op = "sync" -> r

\* The entries before the first barrier of the superblock's sync or a later one.
Cuts(es) == {i \in 1..Len(es) : es[i].op = "sync" /\ es[i].gen >= qgen}
Kept(es) == IF Cuts(es) = {} THEN es ELSE SubSeq(es, 1, Min(Cuts(es)) - 1)

LoadLog ==
  LET c == now[ptr]
      es == Kept(c.ents)
      r == FoldLeft(Replay, [free |-> free, ok |-> TRUE], es)
      x == [Cur EXCEPT !.free = r.free, !.tl = ptr, !.ents = es]
  IN /\ st = "log"
     /\ IF ~IsLog(c) \/ ~r.ok
        THEN st' = "dead" /\ UNCHANGED <<diskVars, logVars, ptr, sp, safe>>
        ELSE IF Cuts(c.ents) = {} /\ c.next # Nil
        THEN free' = r.free /\ ptr' = c.next /\ UNCHANGED <<diskVars, loghd, logtl, ents, st, sp, safe>>
        ELSE /\ Set(IF Cuts(c.ents) = {} THEN x ELSE Flushlog(x))
             /\ st' = "up" /\ ptr' = Nil /\ sp' = Idle
             /\ safe' = {tree}
     /\ UNCHANGED <<treeVars, queueVars, counters>>

Runsync == \E e \in q : WriteBlock(e) \/ FreeBlock(e) \/ Fence(e)
SyncProc == \/ SyncBegin \/ SyncPack \/ SyncHeader \/ SyncSuper \/ SyncFooter
            \/ SyncDone \/ SyncOldLog
Load == Settle \/ LoadSuper \/ LoadArena \/ LoadLog

Next ==
  \/ \E p \in tree : Upsert(p)
  \/ \E b \in limbo : LimboFree(b)
  \/ Runsync \/ Compress \/ SyncProc
  \/ Crash \/ Load

Spec == Init /\ [][Next]_vars

TypeOK ==
  /\ free \subseteq Data /\ Addrs(tree) \subseteq Data
  /\ fresh \subseteq Addrs(tree)
  /\ dead \subseteq Data /\ limbo \subseteq Data
  /\ \A b \in Block : now[b] \in may[b]
  /\ {loghd, logtl, ptr} \subseteq Data \cup {Nil}
  /\ Len(ents) \in 0..LogCap

\* loadfs never fails: "the block footers are consistent, and we can use
\* them" (sync), and the log it finds replays.
Loadable == st # "dead"

\* What a crash leaves is the tree of the last sync that was done, or of the
\* one in progress.
Recovered == st \in {"hdr", "log"} => tree \in safe

\* The blocks of a tree a crash may leave are on the disk, flushed, and no
\* one writes over them.
CommittedIntact == \A t \in safe : \A p \in t : may[p.addr] = {Leaf(p.leaf)}

\* A free block is used by nothing: not by the tree, nor by one a crash may
\* leave, nor by the log; and none is freed twice.
FreeUnused ==
  Up => free \cap (Addrs(tree) \cup UNION {Addrs(t) : t \in safe} \cup dead \cup limbo
                   \cup sp.sdl \cup {loghd, logtl} \cup {e.addr : e \in {d \in q : d.op = 3}}) = {}
=============================================================================
