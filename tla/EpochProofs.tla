---------------------------- MODULE EpochProofs ----------------------------
(***************************************************************************)
(* Epoch's safety for every set of workers, blocks and every CleanLimit:   *)
(* EpochInv holds initially and every step keeps it.  One lemma per        *)
(* action, one step per conjunct of the invariant.                         *)
(***************************************************************************)
EXTENDS Epoch, FiniteSetTheorems, TLAPS

\* The three epochs follow one another in a ring.
LEMMA Mod3 ==
  ASSUME NEW e \in Epochs
  PROVE  /\ Next3(e) \in Epochs /\ Prev3(e) \in Epochs
         /\ Next3(e) # e /\ Prev3(e) # e /\ Next3(e) # Prev3(e)
         /\ Prev3(Next3(e)) = e /\ Next3(Next3(e)) = Prev3(e)
<1>1. CASE e = 0  BY <1>1 DEF Next3, Prev3, Epochs
<1>2. CASE e = 1  BY <1>2 DEF Next3, Prev3, Epochs
<1>3. CASE e = 2  BY <1>3 DEF Next3, Prev3, Epochs
<1> QED BY <1>1, <1>2, <1>3 DEF Epochs

\* A file system that starts has nobody in an epoch and nothing in limbo.
LEMMA InitInv == Init => EpochInv
<1> SUFFICES ASSUME Init PROVE EpochInv
  OBVIOUS
<1> USE EpochAssumption DEF Init
<1>1. TypeOK  BY DEF TypeOK, Epochs, Inactive, Idle
<1>2. CleanerOK  BY DEF CleanerOK, Idle
<1>3. WorkerOK  BY DEF WorkerOK
<1>4. OnePlace  BY DEF OnePlace, InLimbo, Retiring
<1>5. NoUseAfterFree  BY DEF NoUseAfterFree
<1>6. SafeHold  BY DEF SafeHold
<1> QED BY <1>1, <1>2, <1>3, <1>4, <1>5, <1>6 DEF EpochInv

\* Reading the epoch binds nothing yet.
LEMMA StartLoadInv ==
  ASSUME EpochInv, NEW w \in Worker, StartLoad(w)
  PROVE  EpochInv'
<1> USE EpochAssumption DEF EpochInv, StartLoad, cleanVars, blockVars
<1>1. TypeOK'  BY DEF TypeOK
<1>2. CleanerOK'  BY DEF CleanerOK
<1>3. WorkerOK'  BY DEF WorkerOK, Active, TypeOK, Outside, Inactive
<1>4. OnePlace'  BY DEF OnePlace, InLimbo, Retiring
<1>5. NoUseAfterFree'  BY DEF NoUseAfterFree
<1>6. SafeHold'  BY Mod3 DEF SafeHold, Bears, TypeOK, Outside
<1> QED BY <1>1, <1>2, <1>3, <1>4, <1>5, <1>6

\* A worker enters holding no block, in whatever epoch it read.
LEMMA StartSetInv ==
  ASSUME EpochInv, NEW w \in Worker, StartSet(w)
  PROVE  EpochInv'
<1> USE EpochAssumption DEF EpochInv, StartSet, cleanVars, blockVars
<1>1. TypeOK'  BY DEF TypeOK, Epochs
<1>2. CleanerOK'  BY DEF CleanerOK
<1>3. WorkerOK'  BY DEF WorkerOK, Active, TypeOK, Inactive, Epochs
<1>4. OnePlace'  BY DEF OnePlace, InLimbo, Retiring
<1>5. NoUseAfterFree'  BY DEF NoUseAfterFree
<1>6. SafeHold'  BY Mod3 DEF SafeHold, Bears, TypeOK, WorkerOK, Active
<1> QED BY <1>1, <1>2, <1>3, <1>4, <1>5, <1>6

\* Leaving the epoch drops every block.
LEMMA EpochEndInv ==
  ASSUME EpochInv, NEW w \in Worker, EpochEnd(w)
  PROVE  EpochInv'
<1> USE EpochAssumption DEF EpochInv, EpochEnd, cleanVars, blockVars
<1>1. TypeOK'  BY DEF TypeOK, Inactive
<1>2. CleanerOK'  BY DEF CleanerOK
<1>3. WorkerOK'  BY DEF WorkerOK, Active, TypeOK, Inside
<1>4. OnePlace'  BY DEF OnePlace, InLimbo, Retiring
<1>5. NoUseAfterFree'  BY DEF NoUseAfterFree, TypeOK
<1>6. SafeHold'  BY Mod3 DEF SafeHold, Bears, TypeOK
<1> QED BY <1>1, <1>2, <1>3, <1>4, <1>5, <1>6

\* A block of the published root is on no list.
LEMMA VisitInv ==
  ASSUME EpochInv, NEW w \in Worker, NEW b \in Block, Visit(w, b)
  PROVE  EpochInv'
<1> USE EpochAssumption DEF EpochInv, Visit, cleanVars, blockVars
<1>1. TypeOK'  BY DEF TypeOK
<1>2. CleanerOK'  BY DEF CleanerOK
<1>3. WorkerOK'  BY DEF WorkerOK, Active, TypeOK, Inside, OnePlace, Retiring
<1>4. OnePlace'  BY DEF OnePlace, InLimbo, Retiring
<1>5. NoUseAfterFree'  BY DEF NoUseAfterFree, TypeOK, OnePlace, Retiring
<1>6. SafeHold'  BY Mod3 DEF SafeHold, Bears, TypeOK, OnePlace, InLimbo, Retiring
<1> QED BY <1>1, <1>2, <1>3, <1>4, <1>5, <1>6

\* The replaced block bears no epoch yet, whether it is retired or killed.
LEMMA SetRootInv ==
  ASSUME EpochInv, NEW w \in Worker, NEW old \in Block, NEW new \in Block, SetRoot(w, old, new)
  PROVE  EpochInv'
<1> USE EpochAssumption DEF EpochInv, SetRoot, cleanVars
<1>1. TypeOK'  BY DEF TypeOK
<1>2. CleanerOK'  BY DEF CleanerOK
<1>3. WorkerOK'  BY DEF WorkerOK, Active, TypeOK, Inside
<1>4. OnePlace'  BY DEF OnePlace, InLimbo, Retiring, TypeOK, Inside, WorkerOK
<1>5. NoUseAfterFree'  BY DEF NoUseAfterFree, TypeOK
<1>6. SafeHold'  BY Mod3 DEF SafeHold, Bears, TypeOK, Inside
<1> QED BY <1>1, <1>2, <1>3, <1>4, <1>5, <1>6

\* A dead block bears no epoch yet, whoever holds it.
LEMMA FreeDeadInv ==
  ASSUME EpochInv, NEW w \in Worker, NEW b \in Block, FreeDead(w, b)
  PROVE  EpochInv'
<1> USE EpochAssumption DEF EpochInv, FreeDead, cleanVars
<1>1. TypeOK'  BY DEF TypeOK
<1>2. CleanerOK'  BY DEF CleanerOK
<1>3. WorkerOK'  BY DEF WorkerOK, Active, TypeOK, Outside
<1>4. OnePlace'  BY DEF OnePlace, InLimbo, Retiring, TypeOK, Outside, WorkerOK
<1>5. NoUseAfterFree'  BY DEF NoUseAfterFree
<1>6. SafeHold'  BY Mod3 DEF SafeHold, Bears, TypeOK, Outside
<1> QED BY <1>1, <1>2, <1>3, <1>4, <1>5, <1>6

\* The retirer reads the current epoch, and both other epochs say
\* nothing of its block.
LEMMA LimboLoadInv ==
  ASSUME EpochInv, NEW w \in Worker, LimboLoad(w)
  PROVE  EpochInv'
<1> USE EpochAssumption DEF EpochInv, LimboLoad, cleanVars, blockVars
<1>1. TypeOK'  BY DEF TypeOK
<1>2. CleanerOK'  BY DEF CleanerOK
<1>3. WorkerOK'  BY DEF WorkerOK, Active, TypeOK
<1>4. OnePlace'  BY DEF OnePlace, InLimbo, Retiring
<1>5. NoUseAfterFree'  BY DEF NoUseAfterFree
<1>6. SafeHold'  BY Mod3 DEF SafeHold, Bears, TypeOK
<1> QED BY <1>1, <1>2, <1>3, <1>4, <1>5, <1>6

\* The block keeps the epoch it was read for.
LEMMA LimboPushInv ==
  ASSUME EpochInv, NEW w \in Worker, LimboPush(w)
  PROVE  EpochInv'
<1> USE EpochAssumption DEF EpochInv, LimboPush, cleanVars, blockVars
<1>1. TypeOK'  BY DEF TypeOK, WorkerOK, Epochs
<1>2. CleanerOK'  BY DEF CleanerOK
<1>3. WorkerOK'  BY DEF WorkerOK, Active, TypeOK
<1>4. OnePlace'  BY DEF OnePlace, InLimbo, Retiring, TypeOK, WorkerOK
<1>5. NoUseAfterFree'  BY DEF NoUseAfterFree
<1>6. SafeHold'  BY Mod3 DEF SafeHold, Bears, TypeOK, WorkerOK
<1> QED BY <1>1, <1>2, <1>3, <1>4, <1>5, <1>6

\* A failed swap forgets the epoch.
LEMMA LimboRetryInv ==
  ASSUME EpochInv, NEW w \in Worker, LimboRetry(w)
  PROVE  EpochInv'
<1> USE EpochAssumption DEF EpochInv, LimboRetry, cleanVars, blockVars
<1>1. TypeOK'  BY DEF TypeOK, Epochs
<1>2. CleanerOK'  BY DEF CleanerOK
<1>3. WorkerOK'  BY DEF WorkerOK, Active, TypeOK
<1>4. OnePlace'  BY DEF OnePlace, InLimbo, Retiring
<1>5. NoUseAfterFree'  BY DEF NoUseAfterFree
<1>6. SafeHold'  BY Mod3 DEF SafeHold, Bears, TypeOK
<1> QED BY <1>1, <1>2, <1>3, <1>4, <1>5, <1>6

\* Counting touches no list.
LEMMA LimboCountInv ==
  ASSUME EpochInv, NEW w \in Worker, LimboCount(w)
  PROVE  EpochInv'
<1> USE EpochAssumption DEF EpochInv, LimboCount, cleanVars, blockVars
<1>1. TypeOK'  BY DEF TypeOK
<1>2. CleanerOK'  BY DEF CleanerOK
<1>3. WorkerOK'  BY DEF WorkerOK, Active, TypeOK
<1>4. OnePlace'  BY DEF OnePlace, InLimbo, Retiring
<1>5. NoUseAfterFree'  BY DEF NoUseAfterFree
<1>6. SafeHold'  BY Mod3 DEF SafeHold, Bears, TypeOK
<1> QED BY <1>1, <1>2, <1>3, <1>4, <1>5, <1>6

\* A new scan has seen nobody.
LEMMA CleanLockInv ==
  ASSUME EpochInv, NEW w \in Worker, CleanLock(w)
  PROVE  EpochInv'
<1> USE EpochAssumption DEF EpochInv, CleanLock, workerVars, blockVars
<1>1. TypeOK'  BY DEF TypeOK
<1>2. CleanerOK'  BY DEF CleanerOK, TypeOK, Outside
<1>3. WorkerOK'  BY DEF WorkerOK, Active
<1>4. OnePlace'  BY DEF OnePlace, InLimbo, Retiring
<1>5. NoUseAfterFree'  BY DEF NoUseAfterFree
<1>6. SafeHold'  BY Mod3 DEF SafeHold, Bears, TypeOK, CleanerOK
<1> QED BY <1>1, <1>2, <1>3, <1>4, <1>5, <1>6

\* The scan passes a worker only if it is inactive, and then holds
\* nothing, or is in the current epoch.
LEMMA CleanSeeInv ==
  ASSUME EpochInv, NEW w \in Worker, NEW x \in Worker, CleanSee(w, x)
  PROVE  EpochInv'
<1> USE EpochAssumption DEF EpochInv, CleanSee, workerVars, blockVars
<1>1. TypeOK'  BY DEF TypeOK
<1>2. CleanerOK'  BY DEF CleanerOK, TypeOK
<1>3. WorkerOK'  BY DEF WorkerOK, Active
<1>4. OnePlace'  BY DEF OnePlace, InLimbo, Retiring
<1>5. NoUseAfterFree'  BY DEF NoUseAfterFree
<1>6. SafeHold'  BY Mod3 DEF SafeHold, Bears, TypeOK, CleanerOK, WorkerOK, Lags
<1> QED BY <1>1, <1>2, <1>3, <1>4, <1>5, <1>6

\* Giving up forgets the scan.
LEMMA CleanGiveUpInv ==
  ASSUME EpochInv, NEW w \in Worker, NEW x \in Worker, CleanGiveUp(w, x)
  PROVE  EpochInv'
<1> USE EpochAssumption DEF EpochInv, CleanGiveUp, workerVars, blockVars
<1>1. TypeOK'  BY DEF TypeOK, Idle, Epochs
<1>2. CleanerOK'  BY DEF CleanerOK, TypeOK, Idle
<1>3. WorkerOK'  BY DEF WorkerOK, Active
<1>4. OnePlace'  BY DEF OnePlace, InLimbo, Retiring
<1>5. NoUseAfterFree'  BY DEF NoUseAfterFree
<1>6. SafeHold'  BY Mod3 DEF SafeHold, Bears, TypeOK, Idle
<1> QED BY <1>1, <1>2, <1>3, <1>4, <1>5, <1>6

\* Starting again forgets the scan.
LEMMA CleanAgainInv ==
  ASSUME EpochInv, NEW w \in Worker, NEW x \in Worker, CleanAgain(w, x)
  PROVE  EpochInv'
<1> USE EpochAssumption DEF EpochInv, CleanAgain, workerVars, blockVars
<1>1. TypeOK'  BY DEF TypeOK
<1>2. CleanerOK'  BY DEF CleanerOK, TypeOK
<1>3. WorkerOK'  BY DEF WorkerOK, Active
<1>4. OnePlace'  BY DEF OnePlace, InLimbo, Retiring
<1>5. NoUseAfterFree'  BY DEF NoUseAfterFree
<1>6. SafeHold'  BY Mod3 DEF SafeHold, Bears, TypeOK
<1> QED BY <1>1, <1>2, <1>3, <1>4, <1>5, <1>6

\* The whole scan passed, so whoever holds a block of the oldest list
\* would be in the current epoch and in the one before it.
LEMMA CleanTakeInv ==
  ASSUME EpochInv, NEW w \in Worker, CleanTake(w)
  PROVE  EpochInv'
<1> USE EpochAssumption DEF EpochInv, CleanTake, workerVars, blockVars
<1>1. TypeOK'  BY Mod3 DEF TypeOK
<1>2. CleanerOK'  BY Mod3 DEF CleanerOK, TypeOK
<1>3. WorkerOK'  BY DEF WorkerOK, Active
<1>4. OnePlace'  BY Mod3 DEF OnePlace, InLimbo, Retiring, TypeOK, CleanerOK
<1>5. NoUseAfterFree'  BY Mod3 DEF NoUseAfterFree, TypeOK, CleanerOK, SafeHold, Bears
<1>6. SafeHold'  BY Mod3 DEF SafeHold, Bears, TypeOK, CleanerOK
<1> QED BY <1>1, <1>2, <1>3, <1>4, <1>5, <1>6

\* The last epoch's list becomes the next to be freed; its holders were
\* seen in the epoch that ends here.
LEMMA CleanAdvanceInv ==
  ASSUME EpochInv, NEW w \in Worker, CleanAdvance(w)
  PROVE  EpochInv'
<1> USE EpochAssumption DEF EpochInv, CleanAdvance, workerVars, blockVars
<1>1. TypeOK'  BY Mod3 DEF TypeOK, Idle, Epochs
<1>2. CleanerOK'  BY Mod3 DEF CleanerOK, TypeOK, Idle
<1>3. WorkerOK'  BY DEF WorkerOK, Active
<1>4. OnePlace'  BY Mod3 DEF OnePlace, InLimbo, Retiring
<1>5. NoUseAfterFree'  BY Mod3 DEF NoUseAfterFree
<1>6. SafeHold'  BY Mod3 DEF SafeHold, Bears, TypeOK, CleanerOK, Idle
<1> QED BY <1>1, <1>2, <1>3, <1>4, <1>5, <1>6

\* The freed block was in the cleaner's hands alone.
LEMMA CleanFreeInv ==
  ASSUME EpochInv, NEW w \in Worker, NEW b \in Block, CleanFree(w, b)
  PROVE  EpochInv'
<1> USE EpochAssumption DEF EpochInv, CleanFree, workerVars
<1>1. TypeOK'  BY DEF TypeOK
<1>2. CleanerOK'  BY DEF CleanerOK, TypeOK
<1>3. WorkerOK'  BY DEF WorkerOK, Active
<1>4. OnePlace'  BY DEF OnePlace, InLimbo, Retiring, TypeOK
<1>5. NoUseAfterFree'  BY DEF NoUseAfterFree, TypeOK
<1>6. SafeHold'  BY DEF SafeHold, Bears
<1> QED BY <1>1, <1>2, <1>3, <1>4, <1>5, <1>6

\* A step that changes nothing keeps the invariant.
LEMMA StutterInv == EpochInv /\ UNCHANGED vars => EpochInv'
BY DEF EpochInv, vars, TypeOK, CleanerOK, WorkerOK, Active, OnePlace, InLimbo,
       Retiring, NoUseAfterFree, SafeHold, Bears

\* Every step of every worker keeps the invariant.
LEMMA NextInv == EpochInv /\ [Next]_vars => EpochInv'
<1> SUFFICES ASSUME EpochInv, [Next]_vars PROVE EpochInv'
  OBVIOUS
<1>1. CASE UNCHANGED vars  BY <1>1, StutterInv
<1>2. ASSUME NEW w \in Worker, Step(w) PROVE EpochInv'
  <2>1. CASE StartLoad(w) \/ StartSet(w) \/ EpochEnd(w)
    BY <2>1, StartLoadInv, StartSetInv, EpochEndInv
  <2>2. ASSUME NEW b \in Block, Visit(w, b) \/ FreeDead(w, b) PROVE EpochInv'
    BY <2>2, VisitInv, FreeDeadInv
  <2>3. ASSUME NEW old \in Block, NEW new \in Block, SetRoot(w, old, new) PROVE EpochInv'
    BY <2>3, SetRootInv
  <2>4. CASE Limbo(w)
    BY <2>4, LimboLoadInv, LimboPushInv, LimboRetryInv, LimboCountInv DEF Limbo
  <2>5. CASE CleanLock(w) \/ CleanTake(w) \/ CleanAdvance(w)
    BY <2>5, CleanLockInv, CleanTakeInv, CleanAdvanceInv
  <2>6. ASSUME NEW x \in Worker, CleanSee(w, x) \/ CleanGiveUp(w, x) \/ CleanAgain(w, x)
        PROVE EpochInv'
    BY <2>6, CleanSeeInv, CleanGiveUpInv, CleanAgainInv
  <2>7. ASSUME NEW b \in Block, CleanFree(w, b) PROVE EpochInv'
    BY <2>7, CleanFreeInv
  <2> QED BY <1>2, <2>1, <2>2, <2>3, <2>4, <2>5, <2>6, <2>7 DEF Step, EpochClean
<1> QED BY <1>1, <1>2 DEF Next

\* The invariant holds in every reachable state.
THEOREM Invariance == Spec => []EpochInv
BY InitInv, NextInv, PTL DEF Spec

\* epochclean never frees a block that a worker in its epoch can still reach,
\* however many workers there are and however their steps interleave.
THEOREM Reclamation == Spec => []NoUseAfterFree
<1>1. EpochInv => NoUseAfterFree  BY DEF EpochInv
<1> QED BY <1>1, Invariance, PTL

\* No block is freed twice or lost on its way through limbo.
THEOREM Conservation == Spec => []OnePlace
<1>1. EpochInv => OnePlace  BY DEF EpochInv
<1> QED BY <1>1, Invariance, PTL

\* The variables keep their types.
THEOREM Typing == Spec => []TypeOK
<1>1. EpochInv => TypeOK  BY DEF EpochInv
<1> QED BY <1>1, Invariance, PTL

\* The count's two sides are finite.
LEMMA CountsFinite ==
  /\ IsFiniteSet(Uncounted) /\ Cardinality(Uncounted) \in Nat
  /\ IsFiniteSet(Awaiting) /\ Cardinality(Awaiting) \in Nat
BY FiniteAssumption, FS_Subset, FS_CardinalityType DEF Uncounted, Awaiting

\* A step that moves no block into or out of limbo's reach, and ends no push,
\* leaves the count alone.
LEMMA CountKept ==
  ASSUME LimboCounted, nlimbo' = nlimbo, Uncounted' = Uncounted, Awaiting' = Awaiting
  PROVE  LimboCounted'
BY DEF LimboCounted

\* A push adds a block that no list had, and a worker that has yet to count it.
LEMMA PushCounted ==
  ASSUME EpochInv, LimboCounted, NEW w \in Worker, LimboPush(w)
  PROVE  LimboCounted'
<1> USE EpochAssumption DEF LimboPush, cleanVars, blockVars
<1>1. w \notin Uncounted /\ Uncounted' = Uncounted \cup {w}
  BY DEF Uncounted, EpochInv, TypeOK
<1>2. cur[w] \in Block /\ cur[w] \notin Awaiting
  BY DEF Awaiting, EpochInv, TypeOK, WorkerOK, OnePlace, Retiring
<1>3. Awaiting' = Awaiting \cup {cur[w]}
  BY <1>2 DEF Awaiting, InLimbo, EpochInv, TypeOK
<1>4. Cardinality(Uncounted') = Cardinality(Uncounted) + 1
  BY <1>1, CountsFinite, FS_AddElement
<1>5. Cardinality(Awaiting') = Cardinality(Awaiting) + 1
  BY <1>2, <1>3, CountsFinite, FS_AddElement
<1> QED BY <1>4, <1>5, CountsFinite DEF LimboCounted, EpochInv, TypeOK

\* The count catches up with one push.
LEMMA CountCounted ==
  ASSUME EpochInv, LimboCounted, NEW w \in Worker, LimboCount(w)
  PROVE  LimboCounted'
<1> USE EpochAssumption DEF LimboCount, cleanVars, blockVars
<1>1. w \in Uncounted /\ Uncounted' = Uncounted \ {w}
  BY DEF Uncounted, EpochInv, TypeOK
<1>2. Awaiting' = Awaiting
  BY DEF Awaiting, InLimbo
<1>3. Cardinality(Uncounted') = Cardinality(Uncounted) - 1
  BY <1>1, CountsFinite, FS_RemoveElement
<1> QED BY <1>2, <1>3, CountsFinite DEF LimboCounted, EpochInv, TypeOK

\* A freed block was in one list only, and is counted off once.
LEMMA FreeCounted ==
  ASSUME EpochInv, LimboCounted, NEW w \in Worker, NEW b \in Block, CleanFree(w, b)
  PROVE  LimboCounted'
<1> USE EpochAssumption DEF CleanFree, workerVars
<1>1. Uncounted' = Uncounted
  BY DEF Uncounted
<1>2. b \in Awaiting
  BY DEF Awaiting
<1>3. Awaiting' = Awaiting \ {b}
  BY DEF Awaiting, InLimbo, EpochInv, TypeOK, OnePlace, Retiring
<1>4. Cardinality(Awaiting') = Cardinality(Awaiting) - 1
  BY <1>2, <1>3, CountsFinite, FS_RemoveElement
<1> QED BY <1>1, <1>4, CountsFinite DEF LimboCounted, EpochInv, TypeOK

\* The list that epochclean takes goes from limbo to its hands, which are empty.
LEMMA TakeCounted ==
  ASSUME EpochInv, LimboCounted, NEW w \in Worker, CleanTake(w)
  PROVE  LimboCounted'
<1> USE EpochAssumption DEF CleanTake, workerVars, blockVars
<1>1. Uncounted' = Uncounted
  BY DEF Uncounted
<1>2. Awaiting' = Awaiting
  BY Mod3 DEF Awaiting, InLimbo, EpochInv, TypeOK, CleanerOK
<1> QED BY <1>1, <1>2, CountKept

\* Every step keeps the count.
LEMMA NextCounted == EpochInv /\ LimboCounted /\ [Next]_vars => LimboCounted'
<1> SUFFICES ASSUME EpochInv, LimboCounted, [Next]_vars PROVE LimboCounted'
  OBVIOUS
<1> USE DEF Uncounted, Awaiting, InLimbo, cleanVars, blockVars, workerVars
<1>1. CASE UNCHANGED vars  BY <1>1, CountKept DEF vars
<1>2. ASSUME NEW w \in Worker, Step(w) PROVE LimboCounted'
  <2>1. CASE StartLoad(w) \/ StartSet(w) \/ EpochEnd(w)
    BY <2>1, CountKept DEF StartLoad, StartSet, EpochEnd, Outside, EpochInv, TypeOK
  <2>2. ASSUME NEW b \in Block, Visit(w, b) \/ FreeDead(w, b) PROVE LimboCounted'
    BY <2>2, CountKept DEF Visit, FreeDead, Outside, EpochInv, TypeOK
  <2>3. ASSUME NEW old \in Block, NEW new \in Block, SetRoot(w, old, new) PROVE LimboCounted'
    BY <2>3, CountKept DEF SetRoot, Inside, EpochInv, TypeOK
  <2>4. CASE LimboLoad(w) \/ LimboRetry(w)
    BY <2>4, CountKept DEF LimboLoad, LimboRetry, EpochInv, TypeOK
  <2>5. CASE LimboPush(w) \/ LimboCount(w)
    BY <2>5, PushCounted, CountCounted
  <2>6. CASE CleanLock(w) \/ CleanAdvance(w)
    BY <2>6, CountKept DEF CleanLock, CleanAdvance
  <2>7. CASE CleanTake(w)  BY <2>7, TakeCounted
  <2>8. ASSUME NEW x \in Worker, CleanSee(w, x) \/ CleanGiveUp(w, x) \/ CleanAgain(w, x)
        PROVE LimboCounted'
    BY <2>8, CountKept DEF CleanSee, CleanGiveUp, CleanAgain
  <2>9. ASSUME NEW b \in Block, CleanFree(w, b) PROVE LimboCounted'
    BY <2>9, FreeCounted
  <2> QED BY <1>2, <2>1, <2>2, <2>3, <2>4, <2>5, <2>6, <2>7, <2>8, <2>9
          DEF Step, EpochClean, Limbo
<1> QED BY <1>1, <1>2 DEF Next

\* However many workers push and clean at once, nlimbo is the number of blocks
\* in limbo but for the pushes that are not counted yet: epochclean's decision
\* to wait or to give up never rests on a count that drifted.
THEOREM Counting == Spec => []LimboCounted
<1>1. Init => LimboCounted
  <2> SUFFICES ASSUME Init PROVE LimboCounted
    OBVIOUS
  <2>1. Uncounted = {} /\ Awaiting = {}
    BY DEF Init, Uncounted, Awaiting, InLimbo
  <2> QED BY <2>1, FS_EmptySet DEF Init, LimboCounted
<1> QED BY <1>1, NextCounted, Invariance, PTL DEF Spec
=============================================================================
