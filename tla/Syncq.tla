------------------------------- MODULE Syncq --------------------------------
(***************************************************************************)
(* The sync queue of gefs: the heap of writes, frees and fences that       *)
(* runsync empties, at its limit (src/sys/src/9/gefs: blk.c qput, qpop,    *)
(* runsync; fs.c wrbarrier, wrwait, sync; kern.c rsleep, rwakeup).         *)
(*                                                                         *)
(* Three processes: the mutator, which queues the blocks it writes under   *)
(* mutlk and frees under none, and never stops; the sweeper, which syncs   *)
(* and frees, over and over; and runsync.  A process that needs q->lk      *)
(* joins a queue, first come, first served, and its section is one action. *)
(* A process in rsleep is on the queue of a Rendez; woken, it has to ask   *)
(* for the lock again, and others may have been there before.              *)
(*                                                                         *)
(* Of the tree the module has which blocks it is made of.  A block that is *)
(* taken out goes to limbo when no snapshot has it, otherwise to the       *)
(* deadlist, which goes to limbo when the next sync is done; what limbo    *)
(* waits for is module Epoch's.  Of the generations only the order is used *)
(* (qcmp), so they are numbered again when one comes or goes, and there is *)
(* no bound on how many there have been.                                   *)
(***************************************************************************)
EXTENDS Integers, FiniteSets, SequencesExt

CONSTANTS Addr,      \* the arena's blocks
          HeapSizes, \* instances: what q->heapsz may be
          MaxTree,   \* bound: blocks of the tree
          Nil

Proc == {"mut", "swp", "syn"}

\* The blocks a sync writes: the arena's header, the superblocks, the footer.
Header == 1
Footer == 2
Sb0 == 0
Sb1 == 99
Static == {Header, Footer, Sb0, Sb1}
Passes == <<<<Header>>, <<Sb0, Sb1>>, <<Footer>>>>

ASSUME SyncqAssumption ==
  /\ Addr \subseteq Nat \ Static /\ MaxTree \in Nat
  /\ HeapSizes \subseteq Nat \ {0}

Qfence == 1
Qwrite == 2
Qfree == 3

VARIABLES
  heapsz,           \* the length of the array
  heap,             \* the Syncq's array, q->heap[0] its first element
  lk,               \* the processes that wait for q->lk, the holder first
  fullrz, emptyrz,  \* its Rendez: those that sleep there
  woken,            \* those that were woken and have not asked for the lock
  ent,              \* the entry a process puts, or runsync has taken
  qgen, syncing,    \* the queue's generation; fences that are to come out
  synclk, mutlk,    \* who has them
  pc, pass,         \* where a process is; the pass of the sync
  own,              \* the blocks it has yet to write or free
  tree, dead,       \* the tree's blocks, and those only a snapshot has
  packed, sdl,      \* the last sync's: its blocks, and the deadlist it took
  limbo, free,      \* blocks nobody needs, and those the allocator may give
  disk              \* the blocks whose contents are on the disk

queueVars == <<heap, lk, fullrz, emptyrz, woken>>
treeVars == <<tree, dead, packed, sdl, limbo, free, disk>>
vars == <<queueVars, ent, qgen, syncing, synclk, mutlk, pc, pass, own, treeVars, heapsz>>

Block == Addr \cup Static
Qent == [qgen : Nat, op : {Qfence, Qwrite, Qfree}, addr : Block]

\* Whatever comes and waits, the array is never written past its end (the
\* test of nheap is made again after every rsleep).
TypeOK ==
  /\ heap \in Seq(Qent) /\ Len(heap) <= heapsz
  /\ \A s \in {lk, fullrz, emptyrz} : s \in Seq(Proc) /\ IsInjective(s)
  /\ woken \subseteq Proc
  /\ ent \in [Proc -> Qent \cup {Nil}]
  /\ qgen \in Nat /\ syncing \in {0, 1}
  /\ synclk \in {"swp", Nil} /\ mutlk \in {"mut", Nil}
  /\ own \in [Proc -> Seq(Block)]
  /\ {tree, dead, packed, sdl, limbo, free} \subseteq SUBSET Addr
  /\ disk \subseteq Block

\* A file system that was just loaded.
Init ==
  /\ heapsz \in HeapSizes /\ heap = <<>>
  /\ lk = <<"syn">> /\ fullrz = <<>> /\ emptyrz = <<>> /\ woken = {}
  /\ ent = [p \in Proc |-> Nil]
  /\ qgen = 1 /\ syncing = 0 /\ synclk = Nil /\ mutlk = Nil
  /\ pc = [p \in Proc |-> "idle"] /\ pass = 0
  /\ own = [p \in Proc |-> <<>>]
  /\ tree = {Min(Addr)} /\ packed = tree /\ disk = tree \cup Static
  /\ dead = {} /\ sdl = {} /\ limbo = {} /\ free = Addr \ tree

-----------------------------------------------------------------------------
\* The heap.

Entries == {e \in ToSet(heap) \cup {ent[p] : p \in Proc} : e # Nil}

\* The generations of the entries of h and es that have one, and the entry
\* with its generation numbered by their order.
Gens(h, es) == {e.qgen : e \in {d \in ToSet(h) \cup ToSet(es) : d # Nil}} \ {0}
Number(gs, e) ==
  IF e = Nil \/ e.qgen = 0 THEN e ELSE [e EXCEPT !.qgen = Cardinality({g \in gs : g <= @})]

\* Mutant: frees before writes.
Qcmp_Op(d, e) ==
  \/ d.qgen < e.qgen
  \/ d.qgen = e.qgen /\ d.op > e.op
  \/ d.qgen = e.qgen /\ d.op = e.op /\ d.addr < e.addr

\* Mutant: a fence is taken when there is nothing else.
Qcmp_FenceLast(d, e) ==
  \/ d.op # Qfence /\ e.op = Qfence
  \/ /\ (d.op = Qfence) = (e.op = Qfence)
     /\ \/ d.qgen < e.qgen
        \/ d.qgen = e.qgen /\ d.op < e.op
        \/ d.qgen = e.qgen /\ d.op = e.op /\ d.addr < e.addr

\* qcmp(d, e) == -1.
Qcmp(d, e) ==
  \/ d.qgen < e.qgen
  \/ d.qgen = e.qgen /\ d.op < e.op
  \/ d.qgen = e.qgen /\ d.op = e.op /\ d.addr < e.addr

RECURSIVE Up(_, _, _)
RECURSIVE Down(_, _)

\* qput's loop: the hole at i goes up until e may be in it.
Up(h, i, e) ==
  IF i = 1 \/ Qcmp(h[i \div 2], e) THEN [h EXCEPT ![i] = e]
  ELSE Up([h EXCEPT ![i] = h[i \div 2]], i \div 2, e)
Put(h, e) == Up(Append(h, e), Len(h) + 1, e)

\* Mutant: the right child is not looked at.
Least_Left(h, i) ==
  LET l == 2 * i IN IF l <= Len(h) /\ Qcmp(h[l], h[i]) THEN l ELSE i

\* The least of i and its children.
Least(h, i) ==
  LET l == 2 * i
      r == 2 * i + 1
      m == IF l <= Len(h) /\ Qcmp(h[l], h[i]) THEN l ELSE i
  IN IF r <= Len(h) /\ Qcmp(h[r], h[m]) THEN r ELSE m

\* qpop's loop: what is at i goes down.
Down(h, i) ==
  LET m == Least(h, i)
  IN IF m = i THEN h ELSE Down([h EXCEPT ![i] = h[m], ![m] = h[i]], m)

\* Mutant: one too many is taken off.
Popped_Short(h) ==
  IF Len(h) <= 2 THEN <<>> ELSE Down(<<h[Len(h)]>> \o SubSeq(h, 2, Len(h) - 1), 1)

\* The last goes to the top.
Popped(h) == IF Len(h) = 1 THEN <<>> ELSE Down(<<h[Len(h)]>> \o SubSeq(h, 2, Len(h) - 1), 1)

-----------------------------------------------------------------------------
\* qput and qpop.

\* rsleep, under the lock: on the Rendez, and the lock goes to the next.
Rsleep(p, rz) == Append(rz, p)

\* rwakeup.
Woken(rz) == woken \cup (IF rz = <<>> THEN {} ELSE {Head(rz)})
Left(rz) == IF rz = <<>> THEN rz ELSE Tail(rz)

\* rsleep's end: it asks for the lock.
Relock(p) ==
  /\ p \in woken /\ pc[p] # "wait"
  /\ woken' = woken \ {p} /\ lk' = Append(lk, p)
  /\ UNCHANGED <<heap, fullrz, emptyrz, ent, qgen, syncing, synclk, mutlk, pc, pass, own,
                 treeVars, heapsz>>

\* The call of qput: e gets its generation when the lock is had.
Qput(p, op, a) ==
  /\ ent' = [ent EXCEPT ![p] = [qgen |-> 0, op |-> op, addr |-> a]]
  /\ lk' = Append(lk, p)
  /\ UNCHANGED <<heap, fullrz, emptyrz, woken>>

\* Mutant: the queue's length is not looked at again after the rsleep.
QputSection_Once(p) ==
  LET e == IF ent[p].qgen = 0 THEN [ent[p] EXCEPT !.qgen = qgen] ELSE ent[p]
  IN /\ p # "syn" /\ lk # <<>> /\ Head(lk) = p /\ lk' = Tail(lk)
     /\ IF Len(heap) = heapsz /\ ent[p].qgen = 0
        THEN /\ fullrz' = Rsleep(p, fullrz) /\ ent' = [ent EXCEPT ![p] = e]
             /\ UNCHANGED <<heap, emptyrz, woken>>
        ELSE /\ heap' = Put(heap, e) /\ ent' = [ent EXCEPT ![p] = Nil]
             /\ woken' = Woken(emptyrz) /\ emptyrz' = Left(emptyrz)
             /\ UNCHANGED fullrz
     /\ UNCHANGED <<qgen, syncing, synclk, mutlk, pc, pass, own, treeVars, heapsz>>

\* Under the lock; a generation read before an rsleep is kept.
QputSection(p) ==
  LET e == IF ent[p].qgen = 0 THEN [ent[p] EXCEPT !.qgen = qgen] ELSE ent[p]
  IN /\ p # "syn" /\ lk # <<>> /\ Head(lk) = p /\ lk' = Tail(lk)
     /\ IF Len(heap) = heapsz
        THEN /\ fullrz' = Rsleep(p, fullrz) /\ ent' = [ent EXCEPT ![p] = e]
             /\ UNCHANGED <<heap, emptyrz, woken>>
        ELSE /\ heap' = Put(heap, e) /\ ent' = [ent EXCEPT ![p] = Nil]
             /\ woken' = Woken(emptyrz) /\ emptyrz' = Left(emptyrz)
             /\ UNCHANGED fullrz
     /\ UNCHANGED <<qgen, syncing, synclk, mutlk, pc, pass, own, treeVars, heapsz>>

QpopSection ==
  /\ lk # <<>> /\ Head(lk) = "syn" /\ lk' = Tail(lk)
  /\ IF heap = <<>>
     THEN emptyrz' = Rsleep("syn", emptyrz) /\ UNCHANGED <<heap, fullrz, woken, ent, qgen>>
     ELSE /\ \E h \in {Popped(heap)}, gs \in {Gens(Tail(heap), ent)} :
               /\ heap' = [i \in DOMAIN h |-> Number(gs, h[i])]
               /\ ent' = [[p \in Proc |-> Number(gs, ent[p])]
                            EXCEPT !["syn"] = [heap[1] EXCEPT !.qgen = 0]]  \* not looked at
               /\ qgen' = Cardinality(gs \ {qgen}) + 1
          /\ woken' = Woken(fullrz) /\ fullrz' = Left(fullrz)
          /\ UNCHANGED emptyrz
  /\ UNCHANGED <<syncing, synclk, mutlk, pc, pass, own, treeVars, heapsz>>

-----------------------------------------------------------------------------
\* runsync: what it took is done, then it calls qpop again.

RunsyncNext(op) ==
  /\ ent["syn"] # Nil /\ ent["syn"].op = op
  /\ ent' = [ent EXCEPT !["syn"] = Nil]

QpopCall ==
  /\ ent["syn"] = Nil /\ "syn" \notin ToSet(lk) \cup ToSet(emptyrz) \cup woken
  /\ lk' = Append(lk, "syn")
  /\ UNCHANGED <<heap, fullrz, emptyrz, woken, ent, qgen, syncing, synclk, mutlk, pc, pass, own,
                 treeVars, heapsz>>

\* The blocks marked Bfreed: their free is queued, or about to be.  (A block of
\* a deadlist is not marked; its write was done before the sync that freed it.)
Freed ==
  {e.addr : e \in {d \in ToSet(heap) \cup {ent["mut"], ent["swp"]} : d # Nil /\ d.op = Qfree}}

\* A block is written, unless it is marked.
Write ==
  /\ RunsyncNext(Qwrite)
  /\ disk' = IF ent["syn"].addr \in Freed THEN disk ELSE disk \cup {ent["syn"].addr}
  /\ UNCHANGED <<queueVars, qgen, syncing, synclk, mutlk, pc, pass, own,
                 tree, dead, packed, sdl, limbo, free, heapsz>>

Free ==
  /\ RunsyncNext(Qfree)
  /\ free' = free \cup {ent["syn"].addr}
  /\ UNCHANGED <<queueVars, qgen, syncing, synclk, mutlk, pc, pass, own,
                 tree, dead, packed, sdl, limbo, disk, heapsz>>

\* Under synclk: the last fence wakes who sleeps for it.
Fence ==
  /\ RunsyncNext(Qfence) /\ synclk = Nil
  /\ syncing' = syncing - 1
  /\ woken' = IF syncing = 1 /\ pc["swp"] = "wait" THEN woken \cup {"swp"} ELSE woken
  /\ UNCHANGED <<heap, lk, fullrz, emptyrz, qgen, synclk, mutlk, pc, pass, own, treeVars, heapsz>>

-----------------------------------------------------------------------------
\* The mutator, and epochclean.

\* An upsert: a block is allocated and queued, with mutlk held.
Upsert ==
  LET a == Min(free) IN
  /\ pc["mut"] = "idle" /\ mutlk = Nil /\ free # {}
  /\ mutlk' = "mut" /\ pc' = [pc EXCEPT !["mut"] = "upsert"]
  /\ free' = free \ {a} /\ disk' = disk \ {a}
  /\ own' = [own EXCEPT !["mut"] = <<a>>]
  /\ Qput("mut", Qwrite, a)
  /\ UNCHANGED <<qgen, syncing, synclk, pass, tree, dead, packed, sdl, limbo, heapsz>>

\* epochclean: what it takes out of limbo.
Epochclean(p, lim) ==
  /\ \E s \in SUBSET lim : limbo' = lim \ s /\ own' = [own EXCEPT ![p] = SetToSeq(s)]
  /\ pc' = [pc EXCEPT ![p] = "free"]

\* The new root has it, and not the block it was copied from; mutlk is let go.
UpsertEnd(old) ==
  /\ pc["mut"] = "upsert" /\ ent["mut"] = Nil
  /\ old \subseteq tree /\ Cardinality(old) <= 1
  /\ tree' = (tree \ old) \cup ToSet(own["mut"]) /\ Cardinality(tree') <= MaxTree
  /\ dead' = dead \cup (old \cap packed)
  /\ mutlk' = Nil /\ Epochclean("mut", limbo \cup (old \ packed))
  /\ UNCHANGED <<queueVars, ent, qgen, syncing, synclk, pass, packed, sdl, free, disk, heapsz>>

EpochcleanFree(p) ==
  /\ pc[p] = "free" /\ ent[p] = Nil
  /\ IF own[p] = <<>>
     THEN pc' = [pc EXCEPT ![p] = "idle"] /\ UNCHANGED <<queueVars, ent, own>>
     ELSE /\ Qput(p, Qfree, Head(own[p])) /\ own' = [own EXCEPT ![p] = Tail(@)]
          /\ UNCHANGED pc
  /\ UNCHANGED <<qgen, syncing, synclk, mutlk, pass, treeVars, heapsz>>

-----------------------------------------------------------------------------
\* sync.

\* aincv(&fs->qgen, 1).
NewGen ==
  \E gs \in {Gens(heap, ent)} :
    /\ heap' = [i \in DOMAIN heap |-> Number(gs, heap[i])]
    /\ ent' = [p \in Proc |-> Number(gs, ent[p])]
    /\ qgen' = Cardinality(gs) + 1

SyncBegin ==
  /\ pc["swp"] = "idle" /\ synclk = Nil
  /\ synclk' = "swp" /\ NewGen
  /\ pc' = [pc EXCEPT !["swp"] = "pack"]
  /\ UNCHANGED <<lk, fullrz, emptyrz, woken, syncing, mutlk, pass, own, treeVars, heapsz>>

Go(n) ==
  /\ pass' = n /\ own' = [own EXCEPT !["swp"] = Passes[n]]
  /\ pc' = [pc EXCEPT !["swp"] = "pass"]

\* Pass 0, under mutlk: what is in the tree is to be on the disk.
SyncPack ==
  /\ pc["swp"] = "pack" /\ mutlk = Nil
  /\ packed' = tree /\ sdl' = dead /\ dead' = {} /\ disk' = disk \ Static
  /\ Go(1)
  /\ UNCHANGED <<queueVars, ent, qgen, syncing, synclk, mutlk, tree, limbo, free, heapsz>>

\* A pass: its blocks are queued.
SyncEnqueue ==
  /\ pc["swp"] = "pass" /\ ent["swp"] = Nil /\ own["swp"] # <<>>
  /\ Qput("swp", Qwrite, Head(own["swp"])) /\ own' = [own EXCEPT !["swp"] = Tail(@)]
  /\ UNCHANGED <<qgen, syncing, synclk, mutlk, pc, pass, treeVars, heapsz>>

\* A pass but the last ends with a wrbarrier.
Wrbarrier ==
  /\ pc["swp"] = "pass" /\ ent["swp"] = Nil /\ own["swp"] = <<>> /\ pass < 3
  /\ NewGen
  /\ pc' = [pc EXCEPT !["swp"] = "barrier"]
  /\ UNCHANGED <<lk, fullrz, emptyrz, woken, syncing, synclk, mutlk, pass, own, treeVars, heapsz>>

AtWrwait ==
  /\ pc["swp"] = (IF pass < 3 THEN "barrier" ELSE "pass")
  /\ ent["swp"] = Nil /\ own["swp"] = <<>>

\* Mutant: the fence has the generation of what it is to wait for.
Wrwait_SameGen ==
  /\ AtWrwait
  /\ syncing' = 1
  /\ pc' = [pc EXCEPT !["swp"] = "fence"]
  /\ Qput("swp", Qfence, 0)
  /\ UNCHANGED <<qgen, synclk, mutlk, pass, own, treeVars, heapsz>>

\* wrwait: a new generation for the fence, which is then put.
Wrwait ==
  /\ AtWrwait
  /\ NewGen
  /\ syncing' = 1
  /\ pc' = [pc EXCEPT !["swp"] = "putfence"]
  /\ UNCHANGED <<lk, fullrz, emptyrz, woken, synclk, mutlk, pass, own, treeVars, heapsz>>

WrwaitPut ==
  /\ pc["swp"] = "putfence"
  /\ Qput("swp", Qfence, 0)
  /\ pc' = [pc EXCEPT !["swp"] = "fence"]
  /\ UNCHANGED <<qgen, syncing, synclk, mutlk, pass, own, treeVars, heapsz>>

\* wrwait's loop, under synclk: rsleep lets go of it.
WrwaitLoop ==
  IF syncing # 0
  THEN pc' = [pc EXCEPT !["swp"] = "wait"] /\ synclk' = Nil /\ UNCHANGED <<pass, own>>
  ELSE synclk' = "swp" /\ IF pass < 3 THEN Go(pass + 1)
                          ELSE pc' = [pc EXCEPT !["swp"] = "done"] /\ UNCHANGED <<pass, own>>

WrwaitSleep ==
  /\ pc["swp"] = "fence" /\ ent["swp"] = Nil
  /\ NewGen
  /\ WrwaitLoop
  /\ UNCHANGED <<lk, fullrz, emptyrz, woken, syncing, mutlk, treeVars, heapsz>>

WrwaitWoken ==
  /\ pc["swp"] = "wait" /\ "swp" \in woken /\ synclk = Nil
  /\ woken' = woken \ {"swp"}
  /\ WrwaitLoop
  /\ UNCHANGED <<heap, lk, fullrz, emptyrz, ent, qgen, syncing, mutlk, treeVars, heapsz>>

\* Pass 4: the deadlist; runsweep cleans.
SyncDone ==
  /\ pc["swp"] = "done"
  /\ sdl' = {} /\ pass' = 0 /\ synclk' = Nil
  /\ Epochclean("swp", limbo \cup sdl)
  /\ UNCHANGED <<queueVars, ent, qgen, syncing, mutlk, tree, dead, packed, free, disk, heapsz>>

-----------------------------------------------------------------------------
MutStep == \/ \E old \in SUBSET tree : UpsertEnd(old)
           \/ EpochcleanFree("mut") \/ QputSection("mut") \/ Relock("mut")
SyncStep == \/ SyncPack \/ SyncEnqueue \/ Wrbarrier \/ Wrwait \/ WrwaitPut \/ WrwaitSleep
            \/ WrwaitWoken \/ SyncDone
            \/ EpochcleanFree("swp") \/ QputSection("swp") \/ Relock("swp")
Runsync == QpopCall \/ QpopSection \/ Relock("syn") \/ Write \/ Free \/ Fence

Next == Upsert \/ MutStep \/ SyncBegin \/ SyncStep \/ Runsync

Spec == Init /\ [][Next]_vars

\* The three processes go on with what they are at; no upsert and no sync need
\* ever come.  mutlk is first come, first served too: a sync that waits for it,
\* let go and taken again and again, gets it.
LiveSpec == Spec /\ WF_vars(MutStep) /\ SF_vars(SyncStep) /\ WF_vars(Runsync)

-----------------------------------------------------------------------------
\* What qpop takes is the least of the queue: the array stays a heap through
\* every qput and qpop, up to its limit.
HeapLeast == \A i \in 2..Len(heap) : ~Qcmp(heap[i], heap[1])

\* No write is lost on the way: a block of the tree, or of what was packed,
\* is on the disk, queued, or in the hands of a process.
NoLostWrite ==
  \A a \in tree \cup packed : a \in disk \/ \E e \in Entries : e.op = Qwrite /\ e.addr = a

\* "the frees go into the queue just to ensure write/reuse ordering" (blk.c,
\* runsync): when the allocator may give a block away, no write or second
\* free of it is to come, though qput may have waited long for room with the
\* generation it read before.
FreeLast == \A e \in Entries : e.addr \in Addr => e.addr \notin free

\* When wrwait has returned, what the next pass of sync rests on is on the
\* disk: the tree that was packed and the blocks of the passes before, though
\* others queue on and the heap may have been full (sync's pass 1 to 4).
FenceHolds ==
  /\ pass >= 2 => packed \cup {Header} \subseteq disk
  /\ pass = 3 => {Sb0, Sb1} \subseteq disk
  /\ pc["swp"] = "done" => Footer \in disk

\* A sync that has begun ends, though the mutator never stops queueing writes
\* and frees: what comes after the fence of a wrwait is taken after it.  The
\* sync's own qputs have to come through, which a full queue does not promise.
SyncEnds ==
  []<>(ent["swp"] = Nil) => (pc["swp"] # "idle" ~> pc["swp"] = "idle")

\* A qput that waits for room gets it: not so when others are always first.
PutEnds == \A p \in {"mut", "swp"} : ent[p] # Nil ~> ent[p] = Nil
=============================================================================
