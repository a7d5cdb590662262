------------------------------- MODULE Epoch -------------------------------
(***************************************************************************)
(* Epoch-based reclamation of gefs (src/sys/src/9/gefs/blk.c).             *)
(*                                                                         *)
(* A worker (mutator, sweeper, reader, console) reads the tree only        *)
(* between epochstart and epochend.  A block that a new root no longer     *)
(* reaches goes to the limbo list of the epoch its retirer reads;          *)
(* epochclean moves the epoch on when every active worker is in it, and    *)
(* then frees the list of the epoch before the last.  There are three      *)
(* epochs, numbered modulo 3, and no lock orders a worker's read of the    *)
(* epoch with what it does with it: the registers below are the locals     *)
(* `ge' of epochstart, limbo and epochclean.                               *)
(***************************************************************************)
EXTENDS Integers, FiniteSets

CONSTANTS Worker,       \* the processes with a slot in fs->lepoch
          Mutator,      \* runmutate and runsweep: they publish roots and clean
          Block,        \* block addresses
          NoBlock,      \* no block is being retired
          NoWorker,     \* nobody has epochlk
          CleanLimit    \* fs->cmax/4: from here epochclean waits

ASSUME EpochAssumption == /\ Mutator \subseteq Worker
                          /\ NoBlock \notin Block
                          /\ NoWorker \notin Worker
                          /\ CleanLimit \in Nat

\* What is counted can be.
ASSUME FiniteAssumption == IsFiniteSet(Worker) /\ IsFiniteSet(Block)

VARIABLES
  epoch,     \* fs->epoch
  lepoch,    \* fs->lepoch: the epoch of an active worker
  limbo,     \* fs->limbo: a list per epoch, its order is of no matter
  nlimbo,    \* fs->nlimbo
  epochlk,   \* holder of fs->epochlk
  clean,     \* epochclean's holder of epochlk: phase, ge, c, workers seen
  tofree,    \* per worker: the list epochclean took and is freeing
  pc,        \* per worker: inside epochstart or limbo, or in neither
  reg,       \* per worker: the local ge of epochstart or limbo
  cur,       \* per worker: the block limbo() is putting away
  held,      \* per worker: the blocks it may still look at in this epoch
  root,      \* blocks a published root reaches
  dead,      \* blocks of no root: on a deadlist, or of a dropped tree
  free       \* addresses the allocator may hand out

vars == <<epoch, lepoch, limbo, nlimbo, epochlk, clean, tofree,
          pc, reg, cur, held, root, dead, free>>

workerVars == <<pc, reg, cur, held>>
cleanVars  == <<epochlk, clean, tofree>>
blockVars  == <<root, dead, free>>

Epochs == 0..2
Next3(e) == (e + 1) % 3
Prev3(e) == (e + 2) % 3

\* A slot without Eactive: nothing reads the epoch number it keeps.
Inactive == 3
Active(w) == lepoch[w] # Inactive

Idle == [phase |-> "none", ge |-> 0, c |-> 0, seen |-> {}]

Init ==
  /\ epoch = 0
  /\ lepoch = [w \in Worker |-> Inactive]
  /\ limbo = [e \in Epochs |-> {}]
  /\ nlimbo = 0
  /\ epochlk = NoWorker
  /\ clean = Idle
  /\ tofree = [w \in Worker |-> {}]
  /\ pc = [w \in Worker |-> "none"]
  /\ reg = [w \in Worker |-> 0]
  /\ cur = [w \in Worker |-> NoBlock]
  /\ held = [w \in Worker |-> {}]
  /\ root \in SUBSET Block
  /\ dead \in SUBSET (Block \ root)
  /\ free = Block \ (root \cup dead)

(***************************************************************************)
(* epochstart: read the epoch, then publish it with Eactive.               *)
(***************************************************************************)
Outside(w) == pc[w] = "none" /\ ~Active(w) /\ tofree[w] = {} /\ epochlk # w
Inside(w)  == pc[w] = "none" /\ Active(w)

StartLoad(w) ==
  /\ Outside(w)
  /\ pc' = [pc EXCEPT ![w] = "start"]
  /\ reg' = [reg EXCEPT ![w] = epoch]
  /\ UNCHANGED <<epoch, lepoch, limbo, nlimbo, cleanVars, cur, held, blockVars>>

StartSet(w) ==
  /\ pc[w] = "start"
  /\ lepoch' = [lepoch EXCEPT ![w] = reg[w]]
  /\ pc' = [pc EXCEPT ![w] = "none"]
  /\ reg' = [reg EXCEPT ![w] = 0]
  /\ UNCHANGED <<epoch, limbo, nlimbo, cleanVars, cur, held, blockVars>>

\* Only w writes its slot, so the load and the swap are one step.
EpochEnd(w) ==
  /\ Inside(w)
  /\ lepoch' = [lepoch EXCEPT ![w] = Inactive]
  /\ held' = [held EXCEPT ![w] = {}]
  /\ UNCHANGED <<epoch, limbo, nlimbo, cleanVars, pc, reg, cur, blockVars>>

(***************************************************************************)
(* What a worker does inside an epoch: getroot() and getblk() reach the    *)
(* blocks of the root that is published then; a mutator sets a new root    *)
(* and then frees the block the new one replaces (btupsert1, freepath).    *)
(***************************************************************************)
Visit(w, b) ==
  /\ Inside(w)
  /\ b \in root
  /\ held' = [held EXCEPT ![w] = @ \cup {b}]
  /\ UNCHANGED <<epoch, lepoch, limbo, nlimbo, cleanVars, pc, reg, cur, blockVars>>

\* A block newer than every snapshot is freed, any other one killed.
SetRoot(w, old, new) ==
  /\ w \in Mutator
  /\ Inside(w)
  /\ old \in root \cap held[w]
  /\ new \in free
  /\ root' = (root \ {old}) \cup {new}
  /\ free' = free \ {new}
  /\ \/ /\ cur' = [cur EXCEPT ![w] = old]
        /\ pc' = [pc EXCEPT ![w] = "load"]
        /\ UNCHANGED dead
     \/ /\ dead' = dead \cup {old}
        /\ UNCHANGED <<cur, pc>>
  /\ UNCHANGED <<epoch, lepoch, limbo, nlimbo, cleanVars, reg, held>>

\* Retired from outside any epoch, though readers may still have it: the
\* deadlist, at the end of a sync (here a list of one block), and a dropped
\* tree's blocks (sweeptree, freetree).
FreeDead(w, b) ==
  /\ w \in Mutator
  /\ Outside(w)
  /\ b \in dead
  /\ dead' = dead \ {b}
  /\ cur' = [cur EXCEPT ![w] = b]
  /\ pc' = [pc EXCEPT ![w] = "load"]
  /\ UNCHANGED <<epoch, lepoch, limbo, nlimbo, cleanVars, reg, held, root, free>>

(***************************************************************************)
(* limbo(): read the epoch, then compare-and-swap the block onto that      *)
(* epoch's list; the swap fails when the list's head moved meanwhile, and  *)
(* the epoch is read again.                                                *)
(***************************************************************************)
LimboLoad(w) ==
  /\ pc[w] = "load"
  /\ reg' = [reg EXCEPT ![w] = epoch]
  /\ pc' = [pc EXCEPT ![w] = "push"]
  /\ UNCHANGED <<epoch, lepoch, limbo, nlimbo, cleanVars, cur, held, blockVars>>

LimboPush(w) ==
  /\ pc[w] = "push"
  /\ limbo' = [limbo EXCEPT ![reg[w]] = @ \cup {cur[w]}]
  /\ pc' = [pc EXCEPT ![w] = "count"]
  /\ reg' = [reg EXCEPT ![w] = 0]
  /\ cur' = [cur EXCEPT ![w] = NoBlock]
  /\ UNCHANGED <<epoch, lepoch, nlimbo, cleanVars, held, blockVars>>

LimboCount(w) ==
  /\ pc[w] = "count"
  /\ nlimbo' = nlimbo + 1
  /\ pc' = [pc EXCEPT ![w] = "none"]
  /\ UNCHANGED <<epoch, lepoch, limbo, cleanVars, reg, cur, held, blockVars>>

\* Mutant: each try is counted.
LimboRetry_Counts(w) ==
  /\ pc[w] = "push"
  /\ nlimbo' = nlimbo + 1
  /\ pc' = [pc EXCEPT ![w] = "load"]
  /\ reg' = [reg EXCEPT ![w] = 0]
  /\ UNCHANGED <<epoch, lepoch, limbo, cleanVars, cur, held, blockVars>>

LimboRetry(w) ==
  /\ pc[w] = "push"
  /\ pc' = [pc EXCEPT ![w] = "load"]
  /\ reg' = [reg EXCEPT ![w] = 0]
  /\ UNCHANGED <<epoch, lepoch, limbo, nlimbo, cleanVars, cur, held, blockVars>>

(***************************************************************************)
(* epochclean(): only one cleaner at a time gets past canlock(epochlk).    *)
(* It looks at the workers one by one while they run on; a worker that is  *)
(* active in another epoch makes it give up, or, when limbo is long, start *)
(* again.  Once all have been seen it takes the oldest list, moves the     *)
(* epoch on, unlocks, and frees what it took.                              *)
(***************************************************************************)
CleanLock(w) ==
  /\ w \in Mutator
  /\ Outside(w)
  /\ epochlk = NoWorker
  /\ epochlk' = w
  /\ clean' = [phase |-> "scan", ge |-> epoch, c |-> nlimbo, seen |-> {}]
  /\ UNCHANGED <<epoch, lepoch, limbo, nlimbo, tofree, workerVars, blockVars>>

\* `c < fs->cmax/4', c unsigned: a count that is behind its frees is large.
Short == clean.c \in 0..(CleanLimit - 1)

Lags(x) == Active(x) /\ lepoch[x] # clean.ge

CleanSee(w, x) ==
  /\ epochlk = w /\ clean.phase = "scan"
  /\ x \notin clean.seen
  /\ ~Lags(x)
  /\ clean' = [clean EXCEPT !.seen = @ \cup {x}]
  /\ UNCHANGED <<epoch, lepoch, limbo, nlimbo, epochlk, tofree, workerVars, blockVars>>


CleanGiveUp(w, x) ==
  /\ epochlk = w /\ clean.phase = "scan"
  /\ x \notin clean.seen
  /\ Lags(x)
  /\ Short
  /\ epochlk' = NoWorker
  /\ clean' = Idle
  /\ UNCHANGED <<epoch, lepoch, limbo, nlimbo, tofree, workerVars, blockVars>>

CleanAgain(w, x) ==
  /\ epochlk = w /\ clean.phase = "scan"
  /\ x \notin clean.seen
  /\ Lags(x)
  /\ ~Short
  /\ clean' = [phase |-> "scan", ge |-> epoch, c |-> nlimbo, seen |-> {}]
  /\ UNCHANGED <<epoch, lepoch, limbo, nlimbo, epochlk, tofree, workerVars, blockVars>>

\* Mutant: the list of the last epoch is taken, one epoch too early.
CleanTake_Early(w) ==
  /\ epochlk = w /\ clean.phase = "scan"
  /\ clean.seen = Worker
  /\ tofree' = [tofree EXCEPT ![w] = limbo[Prev3(clean.ge)]]
  /\ limbo' = [limbo EXCEPT ![Prev3(clean.ge)] = {}]
  /\ clean' = [clean EXCEPT !.phase = "advance"]
  /\ UNCHANGED <<epoch, lepoch, nlimbo, epochlk, workerVars, blockVars>>

\* Mutant: the list is read and not swapped with nil.
CleanTake_KeepsList(w) ==
  /\ epochlk = w /\ clean.phase = "scan"
  /\ clean.seen = Worker
  /\ tofree' = [tofree EXCEPT ![w] = limbo[Next3(clean.ge)]]
  /\ clean' = [clean EXCEPT !.phase = "advance"]
  /\ UNCHANGED <<epoch, lepoch, limbo, nlimbo, epochlk, workerVars, blockVars>>

CleanTake(w) ==
  /\ epochlk = w /\ clean.phase = "scan"
  /\ clean.seen = Worker
  /\ tofree' = [tofree EXCEPT ![w] = limbo[Next3(clean.ge)]]
  /\ limbo' = [limbo EXCEPT ![Next3(clean.ge)] = {}]
  /\ clean' = [clean EXCEPT !.phase = "advance"]
  /\ UNCHANGED <<epoch, lepoch, nlimbo, epochlk, workerVars, blockVars>>

\* Mutant: the epoch is not taken modulo 3.
CleanAdvance_NoWrap(w) ==
  /\ epochlk = w /\ clean.phase = "advance"
  /\ epoch' = clean.ge + 1
  /\ epochlk' = NoWorker
  /\ clean' = Idle
  /\ UNCHANGED <<lepoch, limbo, nlimbo, tofree, workerVars, blockVars>>

CleanAdvance(w) ==
  /\ epochlk = w /\ clean.phase = "advance"
  /\ epoch' = Next3(clean.ge)
  /\ epochlk' = NoWorker
  /\ clean' = Idle
  /\ UNCHANGED <<lepoch, limbo, nlimbo, tofree, workerVars, blockVars>>

\* The address goes back to the allocator (through the sync queue).
CleanFree(w, b) ==
  /\ epochlk # w
  /\ b \in tofree[w]
  /\ tofree' = [tofree EXCEPT ![w] = @ \ {b}]
  /\ free' = free \cup {b}
  /\ nlimbo' = nlimbo - 1
  /\ UNCHANGED <<epoch, lepoch, limbo, epochlk, clean, workerVars, root, dead>>

EpochClean(w) ==
  \/ CleanLock(w) \/ CleanTake(w) \/ CleanAdvance(w)
  \/ \E x \in Worker : CleanSee(w, x) \/ CleanGiveUp(w, x) \/ CleanAgain(w, x)
  \/ \E b \in Block : CleanFree(w, b)

Limbo(w) == LimboLoad(w) \/ LimboPush(w) \/ LimboRetry(w) \/ LimboCount(w)

Step(w) ==
  \/ StartLoad(w) \/ StartSet(w) \/ EpochEnd(w)
  \/ \E b \in Block : Visit(w, b) \/ FreeDead(w, b)
  \/ \E old, new \in Block : SetRoot(w, old, new)
  \/ Limbo(w)
  \/ EpochClean(w)

Next == \E w \in Worker : Step(w)

\* epochstart, limbo() and epochclean go on once begun: they take no lock
\* but epochlk, which canlock only tries.  A swap fails only because another
\* one went in, so one that is tried again and again goes in.  runmutate and
\* runsweep call epochclean after every message, and runtasks sends one every
\* 5 seconds.  That an epoch ends is not assumed: inside it a worker may wait
\* for a Bfree (freebp), or for a fid or dent that truncwait's caller holds.
Fairness ==
  /\ \A w \in Worker :
       /\ WF_vars(StartSet(w))
       /\ WF_vars(Limbo(w)) /\ SF_vars(LimboPush(w))
       /\ WF_vars(EpochClean(w))
  /\ SF_vars(\E w \in Mutator : CleanLock(w))

Spec == Init /\ [][Next]_vars
LiveSpec == Spec /\ Fairness

TypeOK ==
  /\ epoch \in Epochs
  /\ lepoch \in [Worker -> Epochs \cup {Inactive}]
  /\ limbo \in [Epochs -> SUBSET Block]
  /\ nlimbo \in Int
  /\ epochlk \in Worker \cup {NoWorker}
  /\ clean \in [phase : {"none", "scan", "advance"}, ge : Epochs, c : Int,
                seen : SUBSET Worker]
  /\ tofree \in [Worker -> SUBSET Block]
  /\ pc \in [Worker -> {"none", "start", "load", "push", "count"}]
  /\ reg \in [Worker -> Epochs]
  /\ cur \in [Worker -> Block \cup {NoBlock}]
  /\ held \in [Worker -> SUBSET Block]
  /\ root \in SUBSET Block /\ dead \in SUBSET Block /\ free \in SUBSET Block

\* No worker inside its epoch can still look at a block that epochclean
\* frees: the address could be allocated and written again under it
\* (readers do not lock the tree; getblk asserts that the block is not freed).
NoUseAfterFree ==
  \A w, x \in Worker : held[w] \cap (free \cup tofree[x]) = {}

Retiring(b) == \E w \in Worker : cur[w] = b \/ b \in tofree[w]
InLimbo(b)  == \E e \in Epochs : b \in limbo[e]

\* A block is in one place only, and never lost between two: an unlinked
\* block is freed once (freerange aborts on a range freed twice), and the
\* address of every unlinked block comes back.
OnePlace ==
  \A b \in Block :
    /\ b \in root    => b \notin dead /\ b \notin free /\ ~InLimbo(b) /\ ~Retiring(b)
    /\ b \in dead    => b \notin free /\ ~InLimbo(b) /\ ~Retiring(b)
    /\ b \in free    => ~InLimbo(b) /\ ~Retiring(b)
    /\ InLimbo(b)    => ~Retiring(b)
    /\ \A e, f \in Epochs : b \in limbo[e] /\ b \in limbo[f] => e = f
    /\ \A w, x \in Worker : b \in tofree[w] => cur[x] # b /\ (w = x \/ b \notin tofree[x])
    /\ \A w, x \in Worker : cur[w] = b /\ cur[x] = b => w = x
    /\ b \in root \/ b \in dead \/ b \in free \/ InLimbo(b) \/ Retiring(b)

Uncounted == {w \in Worker : pc[w] = "count"}
Awaiting  == {b \in Block : InLimbo(b) \/ \E w \in Worker : b \in tofree[w]}

\* nlimbo is behind the lists by the pushes that limbo() has not counted yet,
\* and by nothing else: it is negative, and as an unsigned large, only while
\* such a push is under way, and no interleaving makes it drift from what
\* epochclean's `c < fs->cmax/4' is to measure.
LimboCounted == nlimbo + Cardinality(Uncounted) = Cardinality(Awaiting)


(***************************************************************************)
(* The inductive invariant.  A block under way to a list, or in it, bears  *)
(* the epoch its retirer read.  The heart is SafeHold: while a worker may  *)
(* still look at a block of the last epoch's list, a scan that has passed  *)
(* it found it in the current epoch, and while it may look at one of the   *)
(* list to be freed next, it is an epoch behind, so that the scan stops at *)
(* it.  A worker can pass one scan with an epoch number it read a round    *)
(* ago, but not two.                                                       *)
(***************************************************************************)
Bears(b, e) ==
  \/ b \in limbo[e]
  \/ \E r \in Worker : pc[r] = "push" /\ cur[r] = b /\ reg[r] = e

SafeHold ==
  \A w \in Worker : \A b \in held[w] :
    /\ Bears(b, Prev3(epoch)) => (w \in clean.seen => lepoch[w] = epoch)
    /\ Bears(b, Next3(epoch)) => (w \notin clean.seen /\ lepoch[w] = Prev3(epoch))

CleanerOK ==
  /\ clean.phase = "none" <=> epochlk = NoWorker
  /\ clean.phase = "none" => clean.seen = {}
  /\ clean.phase # "none" => clean.ge = epoch
  /\ clean.phase = "advance" => clean.seen = Worker
  /\ clean.phase = "scan" => tofree[epochlk] = {}

WorkerOK ==
  \A w \in Worker :
    /\ cur[w] # NoBlock <=> pc[w] \in {"load", "push"}
    /\ held[w] # {} => Active(w)
    /\ pc[w] = "start" => ~Active(w)
    /\ cur[w] # NoBlock /\ Active(w) => cur[w] \in held[w]

\* Everything the steps of epochstart, limbo and epochclean keep true, from
\* which NoUseAfterFree and OnePlace follow for any number of workers.
EpochInv ==
  TypeOK /\ CleanerOK /\ WorkerOK /\ OnePlace /\ NoUseAfterFree /\ SafeHold
=============================================================================
