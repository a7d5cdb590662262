----------------------------- MODULE Truncate ------------------------------
(***************************************************************************)
(* One file of gefs, cut short in the background (src/sys/src/9/gefs/fs.c).*)
(*                                                                         *)
(* runmutate answers a truncation (fsopen, fswstat) or a removal at once   *)
(* and leaves the blocks to runsweep, as an AOclear; until it is done the  *)
(* dent has `trunc' set, and the next message that would change the file   *)
(* waits in truncwait.  runread and the connection's process (runfs, for a *)
(* clunk) run beside them.  The module has all the locks these take, and   *)
(* the one wait that is not a lock: epochclean waits, when limbo is long,  *)
(* for every worker that is still in the last epoch.                       *)
(*                                                                         *)
(* An RWLock or QLock lets in whoever comes when it is free; the kernel's  *)
(* queues are in the fairness.  Lengths and offsets are in units, of which *)
(* a block has Blksz.                                                      *)
(***************************************************************************)
EXTENDS Integers, Sequences, FiniteSets

CONSTANTS Fid,        \* fids of the file
          Reader,     \* runread processes
          MaxLen,     \* bound: the file's length
          Blksz,      \* a block's length
          Instance,   \* the instances, as records: CleanLimit and Env below
          None

EnvEvents == {"trunc", "wstat", "remove", "clunk", "rclose", "fail", "shared", "pipelined"}

ASSUME TruncAssumption == /\ MaxLen \in Nat /\ Blksz \in Nat \ {0}
                          /\ Instance \subseteq [limit : Nat, env : SUBSET EnvEvents]
                          /\ None \notin Fid \cup Reader \cup {"mut", "swp", "cln"}

VARIABLES
  inst,            \* the instance
  mutlk, trunclk,  \* holders of fs->mutlk and of the dent's trunclk
  flk, dlk,        \* RWLocks of the fids and of the dent
  trunc, gone,     \* the dent's
  length,          \* the dent's; tlen is the length the tree has
  tlen,
  have,            \* the units that the file's blocks in the tree have data in
  want,            \* history: units written since the file was last cut short
  fids,            \* fids in the connection's table
  opened,          \* of them, those that are open
  rclose,          \* of these, those opened ORCLOSE
  mut,             \* runmutate: what it is at
  swp,             \* runsweep
  cln,             \* runfs, in fsclunk
  rdr,             \* per Reader
  admq,            \* admchan
  lep,             \* per worker: in no epoch, in the current or in the last one
  epochlk,         \* who waits in epochclean, with epochlk
  lim              \* lengths of the limbo lists: this epoch's, the last, the one before

fileVars == <<trunc, gone, length, tlen, have, want>>
lockVars == <<mutlk, trunclk, flk, dlk>>
fidVars == <<fids, opened, rclose>>
epochVars == <<lep, epochlk, lim>>
vars == <<lockVars, fileVars, fidVars, mut, swp, cln, rdr, admq, epochVars>>

\* fs->cmax/4, from where epochclean waits (0: limbo is never long), and what
\* happens, of EnvEvents.
CleanLimit == inst.limit
Env == inst.env

Worker == Reader \cup {"mut", "swp"}
Units == 0..(MaxLen - 1)
Op == {"write", "open", "orclose", "wstat", "remove"}

RoundUp(n) == ((n + Blksz - 1) \div Blksz) * Blksz
\* The units of the block that u is in.
BlockOf(u) == {v \in Units : v \div Blksz = u \div Blksz}

\* RWLock: a writer, or readers.
Unlocked == [w |-> None, r |-> {}]
CanW(l) == l = Unlocked
CanR(l) == l.w = None
Wlocked(p) == [w |-> p, r |-> {}]
Rlock(l, p) == [l EXCEPT !.r = @ \cup {p}]
Runlock(l, p) == [l EXCEPT !.r = @ \ {p}]

NoAmsg == [op |-> "none", off |-> 0, end |-> 0, dent |-> FALSE]
\* Mutant: the last block is left out.
Clear_Short(off, end, dent) == [op |-> "clear", off |-> off, end |-> end - 1, dent |-> dent]

Clear(off, end, dent) == [op |-> "clear", off |-> off, end |-> end, dent |-> dent]
Rclose(end) == [op |-> "rclose", off |-> 0, end |-> end, dent |-> TRUE]
NoMsg == [pc |-> "recv", op |-> "none", fid |-> None, arg |-> 0, ao |-> NoAmsg]

Init ==
  /\ inst \in Instance
  /\ mutlk = None /\ trunclk = None /\ dlk = Unlocked
  /\ flk = [f \in Fid |-> Unlocked]
  /\ trunc = FALSE /\ gone = FALSE
  /\ length = MaxLen /\ tlen = MaxLen
  /\ have = Units /\ want = Units
  /\ fids = Fid
  /\ opened = {} /\ rclose = {}
  /\ mut = NoMsg /\ cln = NoMsg
  /\ swp = [pc |-> "recv", am |-> NoAmsg]
  /\ rdr = [r \in Reader |-> [pc |-> "recv", fid |-> None]]
  /\ admq = <<>>
  /\ lep = [w \in Worker |-> "out"]
  /\ epochlk = None
  /\ lim = <<0, 0, 0>>

(***************************************************************************)
(* Epochs, as far as waiting goes (module Epoch has the rest): a worker    *)
(* enters the current one, which becomes the last when epochclean moves on.*)
(***************************************************************************)
Enter(w) == lep' = [lep EXCEPT ![w] = "in"]
Leave(w) == lep' = [lep EXCEPT ![w] = "out"]

\* upsert: a leaf or more is copied, and the old one goes to limbo.
Most(i) == IF i > CleanLimit THEN CleanLimit ELSE i     \* bound: no need to count on
Upsert == lim' = [lim EXCEPT ![1] = Most(@ + 1)]

Lagging == \E w \in Worker : lep[w] = "last"
Long == CleanLimit # 0 /\ lim[1] + lim[2] + lim[3] >= CleanLimit

\* epochclean returns: another is at it (canlock), the epoch was moved on
\* and the oldest list freed, or limbo is short and a worker lags.
CleanReturns(p) ==
  \/ /\ epochlk \notin {None, p}
     /\ UNCHANGED epochVars
  \/ /\ epochlk \in {None, p} /\ ~Lagging
     /\ lep' = [w \in Worker |-> IF lep[w] = "in" THEN "last" ELSE lep[w]]
     /\ lim' = <<0, lim[1], lim[2]>>
     /\ epochlk' = None
  \/ /\ epochlk \in {None, p} /\ Lagging /\ ~Long
     /\ epochlk' = None
     /\ UNCHANGED <<lep, lim>>

CleanWaits(p) ==
  /\ epochlk = None /\ Lagging /\ Long
  /\ epochlk' = p
  /\ UNCHANGED <<lep, lim>>

\* clunkfid's assert(f != nil): a Tclunk and a Tremove of one fid, each past
\* its getfid before the other took the fid out of the table.
Panicked == \E p \in {cln, [mut EXCEPT !.fid = IF mut.op = "remove" THEN @ ELSE None]} :
              p.pc = "lockf" /\ p.fid \in Fid \ fids /\ CanW(flk[p.fid])

\* Mutant: a clunked fid still counts as open.
Forget_StaysOpen(f) == fids' = fids \ {f} /\ UNCHANGED <<opened, rclose>>

\* The fid out of the table; f->rclose stays with it until it is freed.
Forget(f) == fids' = fids \ {f} /\ opened' = opened \ {f} /\ UNCHANGED rclose

\* The requests a client has outstanding on a fid: one, without "shared";
\* a Tclunk or Tremove beside another one only with "pipelined".
Reading(f) == \E r \in Reader : rdr[r].fid = f
MaySend(f, last) ==
  /\ (mut.fid # f /\ ~Reading(f)) \/ ("shared" \in Env /\ ~last) \/ "pipelined" \in Env
  /\ cln.fid # f \/ "pipelined" \in Env

(***************************************************************************)
(* runmutate.                                                              *)
(***************************************************************************)
MutAt(pc) == mut.pc = pc
MutGo(pc) == mut' = [mut EXCEPT !.pc = pc]
NotMut == <<swp, cln, rdr>>

\* Mutant: an open does not wait for the clear before it.
Recv_OpenNoWait(op, f, arg) ==
  /\ MutAt("recv") /\ mutlk = None
  /\ f \in fids /\ MaySend(f, op = "remove")
  /\ op = "open" /\ "trunc" \in Env /\ f \notin opened /\ arg = 0
  /\ mutlk' = "mut"
  /\ Enter("mut")
  /\ mut' = [pc |-> "lockd", op |-> op, fid |-> f, arg |-> arg, ao |-> NoAmsg]
  /\ UNCHANGED <<NotMut, trunclk, flk, dlk, fileVars, fidVars, admq, epochlk, lim>>

\* A Twrite of the unit arg, a Topen with OTRUNC or with ORCLOSE only, a Twstat
\* of length arg or a Tremove.  getfid fails for a fid that has been clunked.
Recv(op, f, arg) ==
  /\ MutAt("recv") /\ mutlk = None
  /\ f \in fids /\ MaySend(f, op = "remove")
  /\ op \in {"wstat", "remove"} => op \in Env
  /\ op = "open" => "trunc" \in Env
  /\ op = "orclose" => "rclose" \in Env
  /\ op = "write" => f \in opened         \* else Eopen
  /\ op \in {"open", "orclose"} => f \notin opened   \* else Einuse
  /\ op = "write" => arg < MaxLen
  /\ op \in {"open", "orclose", "remove"} => arg = 0
  /\ mutlk' = "mut"
  /\ Enter("mut")
  /\ mut' = [pc |-> CASE op \in {"write", "remove"} -> "lockf"
                      [] op \in {"open", "wstat"} -> "truncwait"
                      [] op = "orclose" -> "lockd",
             op |-> op, fid |-> f, arg |-> arg, ao |-> NoAmsg]
  /\ UNCHANGED <<NotMut, trunclk, flk, dlk, fileVars, fidVars, admq, epochlk, lim>>

\* fswrite and fsremove keep the fid locked through all of what follows.
LockFid ==
  /\ MutAt("lockf") /\ CanW(flk[mut.fid])
  /\ flk' = [flk EXCEPT ![mut.fid] = Wlocked("mut")]
  /\ IF mut.op = "write" THEN UNCHANGED fidVars /\ MutGo("truncwait")
                         ELSE mut.fid \in fids /\ Forget(mut.fid) /\ MutGo("rmclunk")
  /\ UNCHANGED <<NotMut, mutlk, trunclk, dlk, fileVars, admq, epochVars>>

\* The rest of clunkfid in fsremove: a fid opened ORCLOSE has the dent marked.
RemoveClunk ==
  /\ MutAt("rmclunk") /\ CanW(dlk)
  /\ IF mut.fid \in rclose /\ ~gone
     THEN /\ dlk' = Wlocked("mut")
          /\ gone' = TRUE
          /\ MutGo("rmtrunc")
     ELSE UNCHANGED <<dlk, gone>> /\ MutGo("truncwait")
  /\ UNCHANGED <<NotMut, mutlk, trunclk, flk, trunc, length, tlen, have, want, fidVars,
                 admq, epochVars>>

RemoveTrunc ==
  /\ MutAt("rmtrunc") /\ trunclk = None
  /\ trunc' = TRUE
  /\ dlk' = Unlocked
  /\ mut' = [mut EXCEPT !.pc = "truncwait", !.ao = Rclose(length)]
  /\ UNCHANGED <<NotMut, mutlk, trunclk, flk, gone, length, tlen, have, want, fidVars,
                 admq, epochVars>>

\* truncwait: out of the epoch and mutlk, wait, and in again.
TruncWait ==
  /\ MutAt("truncwait")
  /\ mutlk' = None
  /\ Leave("mut")
  /\ MutGo("sleep")
  /\ UNCHANGED <<NotMut, trunclk, flk, dlk, fileVars, fidVars, admq, epochlk, lim>>

TruncWake ==
  /\ MutAt("sleep") /\ trunclk = None /\ ~trunc
  /\ MutGo("again")
  /\ UNCHANGED <<NotMut, lockVars, fileVars, fidVars, admq, epochVars>>

TruncAgain ==
  /\ MutAt("again") /\ mutlk = None
  /\ mutlk' = "mut"
  /\ Enter("mut")
  /\ MutGo("lockd")
  /\ UNCHANGED <<NotMut, trunclk, flk, dlk, fileVars, fidVars, admq, epochlk, lim>>

\* The end of every handler: its locks, then the epoch and mutlk, released.
Answered(ao) ==
  /\ flk' = IF flk[mut.fid] = Wlocked("mut") THEN [flk EXCEPT ![mut.fid] = Unlocked] ELSE flk
  /\ dlk' = Unlocked
  /\ mutlk' = None
  /\ Leave("mut")
  /\ mut' = [mut EXCEPT !.pc = "clean", !.ao = ao]

\* A message that finds the dent gone, or may not do what it asks (Ephase,
\* Eperm): nothing is done, and an Amsg that was made is freed.
Refused ==
  /\ MutAt("lockd") /\ CanW(dlk)
  /\ gone \/ "fail" \in Env
  /\ Answered(NoAmsg)
  /\ UNCHANGED <<NotMut, trunclk, fileVars, fidVars, admq, epochlk, lim>>

\* writeb: what the block has is kept if it begins below the length.
Written(u) ==
  (IF (u \div Blksz) * Blksz < length THEN have ELSE have \ BlockOf(u)) \cup {u}

Write ==
  /\ MutAt("lockd") /\ mut.op = "write" /\ CanW(dlk) /\ ~gone
  /\ have' = Written(mut.arg)
  /\ want' = want \cup {mut.arg}
  /\ length' = IF mut.arg >= length THEN mut.arg + 1 ELSE length
  /\ tlen' = length'
  /\ Upsert
  /\ Answered(NoAmsg)
  /\ UNCHANGED <<NotMut, trunclk, trunc, gone, fidVars, admq, epochlk>>

Remove ==
  /\ MutAt("lockd") /\ mut.op = "remove" /\ CanW(dlk) /\ ~gone
  /\ gone' = TRUE
  /\ Upsert
  /\ Answered(Clear(0, length, FALSE))
  /\ UNCHANGED <<NotMut, trunclk, trunc, length, tlen, have, want, fidVars, admq, epochlk>>

\* Mutant: a truncation does not mark the dent.
CutShort_Unmarked(n) ==
  /\ trunclk = None
  /\ trunc' = trunc
  /\ length' = n

CutShort(n) ==
  /\ trunclk = None
  /\ trunc' = TRUE
  /\ length' = n

\* Mutant: the rest of the last block keeps its data.
Zeroed_Not(n) == have

\* A file that ends within a block: the rest of the block, up to the old end,
\* is written as zeros.
Zeroed(n) == {u \in have : u < n \/ u >= RoundUp(n) \/ u >= length}

\* fswstat of the length: shorter marks the dent and clears the rest.  The
\* checks of permissions come after the dent is changed.
Wstat ==
  /\ MutAt("lockd") /\ mut.op = "wstat" /\ CanW(dlk) /\ ~gone
  /\ IF mut.arg < length THEN CutShort(mut.arg)
                         ELSE length' = mut.arg /\ UNCHANGED trunc
  /\ \/ /\ tlen' = mut.arg
        /\ have' = IF mut.arg < length THEN Zeroed(mut.arg) ELSE have
        /\ want' = {u \in want : u < mut.arg}
        /\ Upsert
        /\ Answered(IF mut.arg < length THEN Clear(mut.arg, length, TRUE) ELSE NoAmsg)
     \/ /\ "fail" \in Env
        /\ Answered(NoAmsg)
        /\ UNCHANGED <<tlen, have, want, lim>>
  /\ UNCHANGED <<NotMut, trunclk, gone, fidVars, admq, epochlk>>

\* fsopen looks at the dent, lets it go and locks the fid, then the dent.
OpenFid ==
  /\ MutAt("lockd") /\ mut.op \in {"open", "orclose"} /\ CanW(dlk) /\ ~gone
  /\ MutGo("openf")
  /\ UNCHANGED <<NotMut, lockVars, fileVars, fidVars, admq, epochVars>>

\* Opened meanwhile (Einuse).
OpenInUse ==
  /\ MutAt("openf") /\ CanW(flk[mut.fid]) /\ mut.fid \in opened
  /\ mutlk' = None
  /\ Leave("mut")
  /\ MutGo("clean")
  /\ UNCHANGED <<NotMut, trunclk, flk, dlk, fileVars, fidVars, admq, epochlk, lim>>

OpenRclose ==
  /\ MutAt("openf") /\ mut.op = "orclose" /\ CanW(flk[mut.fid]) /\ mut.fid \notin opened
  /\ opened' = opened \cup {mut.fid}
  /\ rclose' = rclose \cup {mut.fid}
  /\ mutlk' = None
  /\ Leave("mut")
  /\ MutGo("clean")
  /\ UNCHANGED <<NotMut, trunclk, flk, dlk, fileVars, fids, admq, epochlk, lim>>

OpenLock ==
  /\ MutAt("openf") /\ mut.op = "open" /\ CanW(flk[mut.fid]) /\ mut.fid \notin opened
  /\ flk' = [flk EXCEPT ![mut.fid] = Wlocked("mut")]
  /\ MutGo("opend")
  /\ UNCHANGED <<NotMut, mutlk, trunclk, dlk, fileVars, fidVars, admq, epochVars>>

OpenTrunc ==
  /\ MutAt("opend") /\ CanW(dlk)
  /\ CutShort(0)
  /\ tlen' = 0 /\ want' = {}
  /\ Upsert
  /\ opened' = opened \cup {mut.fid}
  /\ \/ UNCHANGED rclose
     \/ "rclose" \in Env /\ rclose' = rclose \cup {mut.fid}
  /\ Answered(Clear(0, length, TRUE))
  /\ UNCHANGED <<NotMut, trunclk, gone, have, fids, admq, epochlk>>

MutClean ==
  /\ MutAt("clean")
  /\ \/ CleanReturns("mut") /\ MutGo("send")
     \/ CleanWaits("mut") /\ UNCHANGED mut
  /\ UNCHANGED <<NotMut, lockVars, fileVars, fidVars, admq>>

MutSend ==
  /\ MutAt("send")
  /\ admq' = IF mut.ao = NoAmsg THEN admq ELSE Append(admq, mut.ao)
  /\ mut' = NoMsg
  /\ UNCHANGED <<NotMut, lockVars, fileVars, fidVars, epochVars>>

(***************************************************************************)
(* runsweep.                                                               *)
(***************************************************************************)
SwpAt(pc) == swp.pc = pc
SwpGo(pc) == swp' = [swp EXCEPT !.pc = pc]
NotSwp == <<mut, cln, rdr>>

SweepRecv ==
  /\ SwpAt("recv") /\ admq # <<>>
  /\ swp' = [pc |-> IF Head(admq).op = "rclose" THEN "delete" ELSE "lockt", am |-> Head(admq)]
  /\ admq' = Tail(admq)
  /\ UNCHANGED <<NotSwp, lockVars, fileVars, fidVars, epochVars>>

\* AOrclose: the dirent out, in an epoch and under mutlk; then as AOclear.
SweepDelete ==
  /\ SwpAt("delete") /\ mutlk = None
  /\ Upsert
  /\ SwpGo("lockt")
  /\ UNCHANGED <<NotSwp, lockVars, fileVars, fidVars, admq, lep, epochlk>>

SweepLock ==
  /\ SwpAt("lockt")
  /\ IF swp.am.dent THEN trunclk = None /\ trunclk' = "swp" ELSE UNCHANGED trunclk
  /\ swp' = [swp EXCEPT !.pc = "batch", !.am.off = RoundUp(@)]
  /\ UNCHANGED <<NotSwp, mutlk, flk, dlk, fileVars, fidVars, admq, epochVars>>

\* A batch of Oclearb, in an epoch and under mutlk (one block here).
SweepBatch ==
  /\ SwpAt("batch") /\ swp.am.off < swp.am.end
  /\ mutlk = None
  /\ have' = have \ BlockOf(swp.am.off)
  /\ Upsert
  /\ swp' = [swp EXCEPT !.pc = "clean", !.am.off = @ + Blksz]
  /\ UNCHANGED <<NotSwp, lockVars, trunc, gone, length, tlen, want, fidVars, admq, lep, epochlk>>

SweepClean ==
  /\ SwpAt("clean")
  /\ \/ CleanReturns("swp") /\ (SwpGo("batch") \/ SwpGo("sync"))
     \/ CleanWaits("swp") /\ UNCHANGED swp
  /\ UNCHANGED <<NotSwp, lockVars, fileVars, fidVars, admq>>

\* The clear has used Clearsync blocks: a sync, with trunclk held.  It takes
\* mutlk for its first pass, and its deadlist goes to limbo.
SweepSync ==
  /\ SwpAt("sync") /\ mutlk = None
  /\ Upsert
  /\ SwpGo("batch")
  /\ UNCHANGED <<NotSwp, lockVars, fileVars, fidVars, admq, lep, epochlk>>

\* Mutant: the dent stays marked.
SweepEnd_Marked ==
  /\ SwpAt("batch") /\ swp.am.off >= swp.am.end
  /\ trunclk' = IF swp.am.dent THEN None ELSE trunclk
  /\ swp' = [pc |-> "recv", am |-> NoAmsg]
  /\ UNCHANGED <<NotSwp, mutlk, flk, dlk, fileVars, fidVars, admq, epochVars>>

SweepEnd ==
  /\ SwpAt("batch") /\ swp.am.off >= swp.am.end
  /\ IF swp.am.dent THEN trunc' = FALSE /\ trunclk' = None ELSE UNCHANGED <<trunc, trunclk>>
  /\ swp' = [pc |-> "recv", am |-> NoAmsg]
  /\ UNCHANGED <<NotSwp, mutlk, flk, dlk, gone, length, tlen, have, want, fidVars, admq, epochVars>>

(***************************************************************************)
(* runfs in fsclunk: the fid locked, then the dent.                        *)
(***************************************************************************)
NotCln == <<mut, swp, rdr>>

Clunk(f) ==
  /\ "clunk" \in Env
  /\ cln.pc = "recv" /\ f \in fids /\ MaySend(f, TRUE)
  /\ cln' = [cln EXCEPT !.pc = "lockf", !.fid = f]
  /\ UNCHANGED <<NotCln, lockVars, fileVars, fidVars, admq, epochVars>>

ClunkLock ==
  /\ cln.pc = "lockf" /\ CanW(flk[cln.fid]) /\ cln.fid \in fids
  /\ flk' = [flk EXCEPT ![cln.fid] = Wlocked("cln")]
  /\ Forget(cln.fid)
  /\ cln' = [cln EXCEPT !.pc = "lockd"]
  /\ UNCHANGED <<NotCln, mutlk, trunclk, dlk, fileVars, admq, epochVars>>

ClunkDent ==
  /\ cln.pc = "lockd" /\ CanW(dlk)
  /\ IF cln.fid \in rclose /\ ~gone
     THEN /\ dlk' = Wlocked("cln")
          /\ gone' = TRUE
          /\ cln' = [cln EXCEPT !.pc = "trunc"]
          /\ UNCHANGED flk
     ELSE /\ flk' = [flk EXCEPT ![cln.fid] = Unlocked]
          /\ cln' = NoMsg
          /\ UNCHANGED <<dlk, gone>>
  /\ UNCHANGED <<NotCln, mutlk, trunclk, trunc, length, tlen, have, want, fidVars,
                 admq, epochVars>>

ClunkTrunc ==
  /\ cln.pc = "trunc" /\ trunclk = None
  /\ trunc' = TRUE
  /\ dlk' = Unlocked
  /\ flk' = [flk EXCEPT ![cln.fid] = Unlocked]
  /\ cln' = NoMsg
  /\ admq' = Append(admq, Rclose(length))
  /\ UNCHANGED <<NotCln, mutlk, trunclk, gone, length, tlen, have, want, fidVars, epochVars>>

(***************************************************************************)
(* runread: a Tread locks the fid and the dent (readfile), a Tstat or a    *)
(* Twalk the dent (fsstat, fswalk), all inside the worker's epoch.         *)
(***************************************************************************)
NotRdr == <<mut, swp, cln>>

ReadRecv(r, f) ==
  /\ rdr[r].pc = "recv"
  /\ f = None \/ (f \in opened /\ ~gone /\ MaySend(f, FALSE))
  /\ Enter(r)
  /\ rdr' = [rdr EXCEPT ![r] = [pc |-> IF f = None THEN "lockd" ELSE "lockf", fid |-> f]]
  /\ UNCHANGED <<NotRdr, lockVars, fileVars, fidVars, admq, epochlk, lim>>

ReadLock(r) ==
  LET f == rdr[r].fid IN
  /\ rdr[r].pc = "lockf" /\ CanR(flk[f])
  /\ flk' = [flk EXCEPT ![f] = Rlock(@, r)]
  /\ rdr' = [rdr EXCEPT ![r].pc = "lockd"]
  /\ UNCHANGED <<NotRdr, mutlk, trunclk, dlk, fileVars, fidVars, admq, epochVars>>

ReadDent(r) ==
  /\ rdr[r].pc = "lockd" /\ CanR(dlk)
  /\ dlk' = Rlock(dlk, r)
  /\ rdr' = [rdr EXCEPT ![r].pc = "read"]
  /\ UNCHANGED <<NotRdr, mutlk, trunclk, flk, fileVars, fidVars, admq, epochVars>>

ReadDone(r) ==
  LET f == rdr[r].fid IN
  /\ rdr[r].pc = "read"
  /\ dlk' = Runlock(dlk, r)
  /\ flk' = IF f = None THEN flk ELSE [flk EXCEPT ![f] = Runlock(@, r)]
  /\ Leave(r)
  /\ rdr' = [rdr EXCEPT ![r] = [pc |-> "recv", fid |-> None]]
  /\ UNCHANGED <<NotRdr, mutlk, trunclk, fileVars, fidVars, admq, epochlk, lim>>

\* fswalk to a new fid, its number used again once the old one is answered
\* for, and fsopen of one with neither OTRUNC nor ORCLOSE, also by runread: one that
\* waits here is ReadRecv(r, None) waiting.
Walk(f) ==
  /\ f \notin fids /\ ~gone /\ CanR(dlk)
  /\ mut.fid # f /\ cln.fid # f /\ ~Reading(f)
  /\ fids' = fids \cup {f}
  /\ rclose' = rclose \ {f}
  /\ UNCHANGED <<NotRdr, rdr, lockVars, fileVars, opened, admq, epochVars>>

OpenPlain(f) ==
  /\ f \in fids \ opened /\ ~gone /\ CanW(dlk) /\ CanW(flk[f]) /\ MaySend(f, FALSE)
  /\ opened' = opened \cup {f}
  /\ UNCHANGED <<NotRdr, rdr, lockVars, fileVars, fids, rclose, admq, epochVars>>

(***************************************************************************)
MutStep == \/ LockFid \/ RemoveClunk \/ RemoveTrunc \/ TruncWait \/ TruncWake \/ TruncAgain
           \/ Refused \/ Write \/ Remove \/ Wstat \/ OpenFid \/ OpenInUse \/ OpenRclose
           \/ OpenLock \/ OpenTrunc \/ MutClean \/ MutSend
SwpStep == \/ SweepRecv \/ SweepDelete \/ SweepLock \/ SweepBatch \/ SweepClean \/ SweepSync
           \/ SweepEnd
ClnStep == ClunkLock \/ ClunkDent \/ ClunkTrunc
ReadStep(r) == ReadLock(r) \/ ReadDent(r) \/ ReadDone(r)

Next ==
  /\ UNCHANGED inst
  /\ \/ \E op \in Op, f \in Fid, arg \in 0..MaxLen : Recv(op, f, arg)
     \/ MutStep \/ SwpStep \/ ClnStep
     \/ \E f \in Fid : Clunk(f) \/ Walk(f) \/ OpenPlain(f)
     \/ \E r \in Reader : ReadStep(r) \/ \E f \in Fid \cup {None} : ReadRecv(r, f)

Spec == Init /\ [][Next]_<<vars, inst>>

\* Every process goes on with what it is at; the queues of the locks are
\* first come, first served, so one that waits for a lock that is let go
\* again and again gets it.
LiveSpec == Spec /\ SF_vars(MutStep) /\ SF_vars(SwpStep) /\ SF_vars(ClnStep)
                 /\ \A r \in Reader : SF_vars(ReadStep(r))

TypeOK ==
  /\ mutlk \in {None, "mut"} /\ trunclk \in {None, "swp"}
  /\ trunc \in BOOLEAN /\ gone \in BOOLEAN
  /\ length \in 0..MaxLen /\ tlen \in 0..MaxLen
  /\ have \subseteq Units /\ want \subseteq Units
  /\ opened \subseteq fids /\ fids \subseteq Fid /\ rclose \subseteq Fid
  /\ lep \in [Worker -> {"out", "in", "last"}]
  /\ epochlk \in {None, "mut", "swp"}
  /\ \A i \in 1..3 : lim[i] \in 0..CleanLimit

\* A write that was answered is in the tree: the clear of an earlier
\* truncation never takes the new block for an old one (truncwait).
WriteKept == ~gone => want \subseteq have

\* What was cut off never shows again, however the file grows afterwards:
\* below the length there is data only where it was written since (the rest
\* of the last block zeroed by fswstat, the blocks after it cleared).
NothingOldShows == ~gone => \A u \in have : u < length => u \in want

\* The Amsgs under way that will take the dent's mark off when they are done.
Marking == {i \in 0..Len(admq) + 1 :
              CASE i = 0 -> mut.ao.dent
                [] i \in 1..Len(admq) -> admq[i].dent
                [] OTHER -> swp.am.dent}

\* What truncwait waits for is always under way, and only once: the dent is
\* marked exactly while one clear of it is in runmutate's hands, in admchan or
\* with the sweeper.  A mark without a clear would never be taken off; of two
\* clears the first to end would let a write in before the second.
MarkOwned == ~gone => Cardinality(Marking) = (IF trunc THEN 1 ELSE 0)

\* The cached dent and the tree agree on the length between messages.
LengthAgrees == MutAt("recv") /\ ~gone => length = tlen

\* "allow the sweeper to finish its job before resuming": runmutate resumes.
MutatorResumes == MutAt("sleep") ~> ~MutAt("sleep")

\* clunkfid always finds the fid it is to take out of the table ("assert(f
\* != nil)").
ClunkFinds == ~Panicked

\* The blocks of a file that is gone are all cleared in the end.
GoneCleared == gone ~> (have = {})
=============================================================================
