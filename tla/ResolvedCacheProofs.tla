------------------------- MODULE ResolvedCacheProofs -------------------------
(***************************************************************************)
(* Proofs about ResolvedCache, for every set of processes and every bound  *)
(* on versions, interruptions and damage.                                  *)
(*                                                                         *)
(* LeaseProtected is a statement about bytes and a tombstone; what makes   *)
(* it true is the lock protocol.  CacheInv states the protocol: at most    *)
(* one process is inside an exclusive operation, none is while a load is   *)
(* out, and a load in progress sees a bundle and no tombstone.             *)
(*                                                                         *)
(* The other theorems rest on the two-slot journal of the entry: type      *)
(* correctness, ServedWhole, OwnerUndisturbed, PinHonoured,                *)
(* ReceiptBacksComplete and SoleCopyKept.  Their proofs speak of the       *)
(* journal as two records, the one of the higher generation (Hi) and the   *)
(* other (Lo), and of a write as what becomes of them (Written).  On top   *)
(* of CacheInv the inductive invariant EntryInv has five parts:            *)
(*   Ground      what an operation in progress knows of the entry;         *)
(*   JournalInv  which records may stand beside each other;                *)
(*   Pinned      where the pin that was asked for is kept;                 *)
(*   Ages        no version in play is ahead of the source, and the        *)
(*               receipt is never behind the journal;                      *)
(*   Scans       none in play is behind what a running eviction scanned.   *)
(* Only the process that holds both locks moves most of this, so a step is *)
(* settled by what it does to that process and to the entry (SoloKeeps).   *)
(***************************************************************************)
EXTENDS ResolvedCache, TLAPS

(* Every process has an operation record and a load record. *)
OpShaped(x) == x = [pc |-> x.pc, ver |-> x.ver, mark |-> x.mark]
LoadShaped(x) == x = [at |-> x.at, rec |-> x.rec]
Shaped ==
    /\ op = [p \in Procs |-> op[p]] /\ \A p \in Procs : OpShaped(op[p])
    /\ load = [p \in Procs |-> load[p]] /\ \A p \in Procs : LoadShaped(load[p])

OneExclusive ==
    \A p, q \in Procs : op[p].pc \in Exclusive /\ op[q].pc \in Exclusive => p = q
ExclusiveAlone == \A p, q \in Procs : op[p].pc \in Exclusive => load[q].at = "none"
LoadsBacked == \A p \in Procs : load[p].at # "none" => bundle \in Sized /\ tomb = "none"

CacheInv == Shaped /\ OneExclusive /\ ExclusiveAlone /\ LoadsBacked

\* First-order leaves go to Zenon; the others name the SMT solver.
USE ZenonT(30)

LEMMA OpRecords ==
    /\ OpShaped(Idle) /\ Idle.pc = "idle"
    /\ \A c : OpShaped(At(c)) /\ At(c).pc = c
    /\ \A c, v, m : OpShaped([pc |-> c, ver |-> v, mark |-> m])
    /\ \A c, v : OpShaped([At(c) EXCEPT !.ver = v]) /\ [At(c) EXCEPT !.ver = v].pc = c
<1>1. \A c : At(c) = [pc |-> c, ver |-> 0, mark |-> 0]
  BY SMTT(30) DEF At, Idle
<1>2. \A c, v : [At(c) EXCEPT !.ver = v] = [pc |-> c, ver |-> v, mark |-> 0]
  <2> TAKE c, v
  <2>1. [[pc |-> c, ver |-> 0, mark |-> 0] EXCEPT !.ver = v]
          = [pc |-> c, ver |-> v, mark |-> 0]
    BY SMTT(30)
  <2> QED BY <1>1, <2>1
<1>3. \A c, v, m : OpShaped([pc |-> c, ver |-> v, mark |-> m])
  BY DEF OpShaped
<1> QED BY SMTT(30), <1>1, <1>2, <1>3 DEF Idle

LEMMA OpMoved ==
    ASSUME NEW y, NEW c, OpShaped(y)
    PROVE  OpShaped([y EXCEPT !.pc = c]) /\ [y EXCEPT !.pc = c].pc = c
<1>1. [y EXCEPT !.pc = c]
        = [[pc |-> y.pc, ver |-> y.ver, mark |-> y.mark] EXCEPT !.pc = c]
  BY Zenon DEF OpShaped
<1>2. [[pc |-> y.pc, ver |-> y.ver, mark |-> y.mark] EXCEPT !.pc = c]
        = [pc |-> c, ver |-> y.ver, mark |-> y.mark]
  BY SMTT(30)
<1> QED BY <1>1, <1>2 DEF OpShaped

LEMMA LoadRecords ==
    /\ LoadShaped(NotLoading) /\ NotLoading.at = "none"
    /\ \A c : LoadShaped(Loading(c)) /\ Loading(c).at = c
    /\ \A c, r : LoadShaped([at |-> c, rec |-> r])
BY DEF LoadShaped, NotLoading, Loading

LEMMA LoadMoved ==
    ASSUME NEW y, NEW c, LoadShaped(y)
    PROVE  LoadShaped([y EXCEPT !.at = c]) /\ [y EXCEPT !.at = c].at = c
<1>1. [y EXCEPT !.at = c] = [[at |-> y.at, rec |-> y.rec] EXCEPT !.at = c]
  BY Zenon DEF LoadShaped
<1>2. [[at |-> y.at, rec |-> y.rec] EXCEPT !.at = c] = [at |-> c, rec |-> y.rec]
  BY SMTT(30)
<1> QED BY <1>1, <1>2 DEF LoadShaped

(* A step inside an operation: process p moves on, and if it is not inside  *)
(* an exclusive one it does not get into one and leaves the entry alone.    *)
LEMMA InsideKeeps ==
    ASSUME CacheInv, NEW p \in Procs, NEW x, OpShaped(x),
           op' = [op EXCEPT ![p] = x], load' = load,
           \/ op[p].pc \in Exclusive
           \/ x.pc \notin Exclusive /\ bundle' = bundle /\ tomb' = tomb
    PROVE  CacheInv'
<1>1. /\ \A q \in Procs : op'[q] = IF q = p THEN x ELSE op[q]
      /\ op' = [q \in Procs |-> op'[q]]
  BY DEF CacheInv, Shaped
<1>2. Shaped'
  BY <1>1 DEF CacheInv, Shaped
<1>3. \A q \in Procs : op'[q].pc \in Exclusive => op[q].pc \in Exclusive
  BY <1>1
<1>4. OneExclusive'
  BY <1>3 DEF CacheInv, OneExclusive
<1>5. ExclusiveAlone'
  BY <1>3 DEF CacheInv, ExclusiveAlone
<1>6. LoadsBacked'
  BY DEF CacheInv, LoadsBacked, ExclusiveAlone
<1> QED BY <1>2, <1>4, <1>5, <1>6 DEF CacheInv

(* A step that enters an operation, or changes the entry, with both locks. *)
LEMMA EnteringKeeps ==
    ASSUME CacheInv, NEW p \in Procs, NEW x, OpShaped(x), LockFree,
           op' = [op EXCEPT ![p] = x], load' = load
    PROVE  CacheInv'
<1>1. /\ \A q \in Procs : op'[q] = IF q = p THEN x ELSE op[q]
      /\ op' = [q \in Procs |-> op'[q]]
  BY DEF CacheInv, Shaped
<1>2. Shaped'
  BY <1>1 DEF CacheInv, Shaped
<1>3. \A q \in Procs : op'[q].pc \in Exclusive => q = p
  BY <1>1 DEF LockFree, ArtifactFree
<1>4. \A q \in Procs : load'[q].at = "none"
  BY LoadRecords DEF LockFree
<1> QED BY <1>2, <1>3, <1>4 DEF CacheInv, OneExclusive, ExclusiveAlone, LoadsBacked

(* A step of a load that was already out, or its end. *)
LEMMA LoadMoves ==
    ASSUME CacheInv, NEW p \in Procs, NEW x, LoadShaped(x), load[p].at # "none",
           load' = [load EXCEPT ![p] = x],
           op' = op, bundle' = bundle, tomb' = tomb
    PROVE  CacheInv'
<1>1. /\ \A q \in Procs : load'[q] = IF q = p THEN x ELSE load[q]
      /\ load' = [q \in Procs |-> load'[q]]
  BY DEF CacheInv, Shaped
<1>2. Shaped'
  BY <1>1 DEF CacheInv, Shaped
<1>3. \A q \in Procs : load'[q].at # "none" => load[q].at # "none"
  BY <1>1
<1> QED BY <1>2, <1>3 DEF CacheInv, OneExclusive, ExclusiveAlone, LoadsBacked

(* A journal that reads valid has no tombstone beside it, and a complete    *)
(* record read that way has its bundle (read_metadata_unlocked).            *)
LEMMA ReadComplete ==
    ASSUME Read = "valid", Journal.st = "com" PROVE tomb = "none" /\ bundle \in Sized
BY DEF Read, Journal, ShapeValid, Sanctioned

LEMMA InitHolds == Init => CacheInv
<1> SUFFICES ASSUME Init PROVE CacheInv
  OBVIOUS
<1>1. /\ op = [p \in Procs |-> Idle] /\ load = [p \in Procs |-> NotLoading]
      /\ \A p \in Procs : op[p] = Idle /\ load[p] = NotLoading
  BY DEF Init
<1>2. Idle.pc \notin Exclusive
  BY OpRecords DEF Exclusive, MetaSteps, OwnerSteps
<1> QED BY <1>1, <1>2, OpRecords, LoadRecords
        DEF CacheInv, Shaped, OneExclusive, ExclusiveAlone, LoadsBacked

LEMMA StepHolds == CacheInv /\ [Next]_vars => CacheInv'
<1> SUFFICES ASSUME CacheInv, [Next]_vars PROVE CacheInv'
  OBVIOUS
<1> USE DEF durable, source, ghosts, limits
<1>0. \A p \in Procs : OpShaped(op[p]) /\ LoadShaped(load[p])
  BY DEF CacheInv, Shaped
<1>1. ASSUME NEW p \in Procs, Materialize(p) PROVE CacheInv'
  <2>1. CASE Reserve(p)
    <3>1. LockFree /\ load' = load
      BY <2>1 DEF Reserve, Enter
    <3>2. PICK c : op' = [op EXCEPT ![p] = At(c)]
      BY <2>1 DEF Reserve, StartRemoval
    <3> QED BY <3>1, <3>2, EnteringKeeps, OpRecords
  <2>2. CASE ReserveRecord(p)
    <3>1. op[p].pc \in Exclusive /\ load' = load
      BY <2>2 DEF ReserveRecord, Exclusive, MetaSteps, OwnerSteps
    <3>2. op' = [op EXCEPT ![p] = At("reserved")] \/ op' = [op EXCEPT ![p] = Idle]
      BY <2>2 DEF ReserveRecord
    <3> QED BY <3>1, <3>2, InsideKeeps, OpRecords
  <2>3. CASE Prepare(p)
    BY <2>3, InsideKeeps, OpRecords DEF Prepare, Exclusive, MetaSteps, OwnerSteps
  <2>4. CASE ClearBundle(p)
    <3>1. op[p].pc \in Exclusive /\ load' = load
      BY <2>4 DEF ClearBundle, Exclusive, MetaSteps, OwnerSteps
    <3>2. op' = [op EXCEPT ![p] = At("copying")] \/ op' = [op EXCEPT ![p] = op[p]]
      BY <2>4 DEF ClearBundle, CacheInv, Shaped
    <3> QED BY SMTT(30), <1>0, <3>1, <3>2, InsideKeeps, OpRecords
  <2>5. CASE Copy(p)
    BY <2>5, InsideKeeps, OpRecords DEF Copy, Exclusive, MetaSteps, OwnerSteps
  <2>6. CASE Publish(p)
    <3>1. op' = [op EXCEPT ![p] = [op[p] EXCEPT !.pc = "renamed"]] /\ load' = load
      BY <2>6 DEF Publish
    <3>2. \/ op[p].pc \in Exclusive
          \/ "renamed" \notin Exclusive /\ bundle' = bundle /\ tomb' = tomb
      BY <2>6 DEF Publish, Exclusive, MetaSteps, OwnerSteps
    <3>3. /\ OpShaped([op[p] EXCEPT !.pc = "renamed"])
          /\ [op[p] EXCEPT !.pc = "renamed"].pc = "renamed"
      BY <1>0, OpMoved
    <3> QED BY <3>1, <3>2, <3>3, InsideKeeps
  <2>7. CASE RecordReceipt(p)
    <3>1. op' = [op EXCEPT ![p] = [op[p] EXCEPT !.pc = "receipted"]] /\ load' = load
      BY <2>7 DEF RecordReceipt
    <3>2. \/ op[p].pc \in Exclusive
          \/ "receipted" \notin Exclusive /\ bundle' = bundle /\ tomb' = tomb
      BY <2>7 DEF RecordReceipt, Exclusive, MetaSteps, OwnerSteps
    <3>3. /\ OpShaped([op[p] EXCEPT !.pc = "receipted"])
          /\ [op[p] EXCEPT !.pc = "receipted"].pc = "receipted"
      BY <1>0, OpMoved
    <3> QED BY <3>1, <3>2, <3>3, InsideKeeps
  <2>8. CASE RecordComplete(p)
    BY <2>8, InsideKeeps, OpRecords DEF RecordComplete, Exclusive, MetaSteps, OwnerSteps
  <2>9. CASE RollBack(p)
    BY <2>9, InsideKeeps, OpRecords DEF RollBack, Exclusive, MetaSteps, OwnerSteps
  <2>10. CASE Abandon(p)
    BY <2>10, InsideKeeps, OpRecords DEF Abandon, Exclusive, MetaSteps, OwnerSteps
  <2> QED BY <1>1, <2>1, <2>2, <2>3, <2>4, <2>5, <2>6, <2>7, <2>8, <2>9, <2>10
          DEF Materialize
<1>2. ASSUME NEW p \in Procs, Load(p) PROVE CacheInv'
  <2>1. CASE AcquireStart(p)
    <3>1. tomb = "none" /\ bundle \in Sized
      BY <2>1, ReadComplete DEF AcquireStart
    <3>2. PICK x : load' = [load EXCEPT ![p] = x] /\ LoadShaped(x)
      BY SMTT(30), <2>1, LoadRecords DEF AcquireStart, Grant
    <3>3. op' = op /\ tomb' = tomb /\ bundle' = bundle /\ ArtifactFree
      BY <2>1 DEF AcquireStart
    <3>4. Shaped'
      <4>1. /\ \A q \in Procs : load'[q] = IF q = p THEN x ELSE load[q]
            /\ load' = [q \in Procs |-> load'[q]]
        BY <3>2 DEF CacheInv, Shaped
      <4> QED BY <3>2, <3>3, <4>1 DEF CacheInv, Shaped
    <3> QED BY <3>1, <3>3, <3>4
            DEF CacheInv, ArtifactFree, OneExclusive, ExclusiveAlone, LoadsBacked
  <2>2. CASE AcquireHash(p)
    <3>1. PICK x : load' = [load EXCEPT ![p] = x] /\ LoadShaped(x)
      BY <1>0, <2>2, LoadRecords, LoadMoved DEF AcquireHash
    <3> QED BY <2>2, <3>1, LoadMoves DEF AcquireHash
  <2>3. CASE AcquireFinish(p)
    BY <2>3, LoadMoves, LoadRecords DEF AcquireFinish, Grant
  <2>4. CASE Release(p)
    BY <2>4, LoadMoves, LoadRecords DEF Release
  <2> QED BY <1>2, <2>1, <2>2, <2>3, <2>4
          DEF Load
<1>3. ASSUME NEW p \in Procs, Retain(p) PROVE CacheInv'
  <2>1. CASE EvictScan(p)
    BY SMTT(30), <2>1, EnteringKeeps, OpRecords DEF EvictScan, StartRemoval
  <2>2. CASE EvictHash(p)
    <3>1. op' = [op EXCEPT ![p] = [op[p] EXCEPT !.pc = "hashed"]] /\ load' = load
      BY <2>2 DEF EvictHash
    <3>2. \/ op[p].pc \in Exclusive
          \/ "hashed" \notin Exclusive /\ bundle' = bundle /\ tomb' = tomb
      BY <2>2 DEF EvictHash, Exclusive, MetaSteps, OwnerSteps
    <3>3. /\ OpShaped([op[p] EXCEPT !.pc = "hashed"])
          /\ [op[p] EXCEPT !.pc = "hashed"].pc = "hashed"
      BY <1>0, OpMoved
    <3> QED BY <3>1, <3>2, <3>3, InsideKeeps
  <2>3. CASE EvictProve(p)
    <3>1. op' = [op EXCEPT ![p] = [op[p] EXCEPT !.pc = "proved"]] /\ load' = load
      BY <2>3 DEF EvictProve
    <3>2. \/ op[p].pc \in Exclusive
          \/ "proved" \notin Exclusive /\ bundle' = bundle /\ tomb' = tomb
      BY <2>3 DEF EvictProve, Exclusive, MetaSteps, OwnerSteps
    <3>3. /\ OpShaped([op[p] EXCEPT !.pc = "proved"])
          /\ [op[p] EXCEPT !.pc = "proved"].pc = "proved"
      BY <1>0, OpMoved
    <3> QED BY <3>1, <3>2, <3>3, InsideKeeps
  <2>4. CASE EvictDecide(p)
    BY SMTT(30), <2>4, EnteringKeeps, OpRecords DEF EvictDecide, Condemn, StartRemoval
  <2>5. CASE EvictRetain(p)
    BY <2>5, InsideKeeps, OpRecords DEF EvictRetain, Exclusive, MetaSteps, OwnerSteps
  <2> QED BY <1>3, <2>1, <2>2, <2>3, <2>4, <2>5
          DEF Retain
<1>4. ASSUME NEW p \in Procs, Remove(p) PROVE CacheInv'
  <2>1. CASE RemoveEntry(p)
    BY SMTT(30), <2>1, EnteringKeeps, OpRecords DEF RemoveEntry, Enter, Condemn, StartRemoval
  <2>2. CASE ReconcileRemovedSource(p)
    BY <2>2, EnteringKeeps, OpRecords
       DEF ReconcileRemovedSource, Enter, Condemn, StartRemoval
  <2>3. CASE Unlink(p)
    <3>1. op' = [op EXCEPT ![p] = op[p]] /\ load' = load /\ op[p].pc \in Exclusive
      BY <2>3 DEF Unlink, CacheInv, Shaped, Exclusive, MetaSteps, OwnerSteps
    <3> QED BY <1>0, <3>1, InsideKeeps
  <2>4. CASE RemovalDone(p)
    BY <2>4, InsideKeeps, OpRecords DEF RemovalDone, Exclusive, MetaSteps, OwnerSteps
  <2>5. CASE RemovalFails(p)
    BY <2>5, InsideKeeps, OpRecords DEF RemovalFails, Exclusive, MetaSteps, OwnerSteps
  <2> QED BY <1>4, <2>1, <2>2, <2>3, <2>4, <2>5
          DEF Remove
<1>5. ASSUME NEW p \in Procs, Recover(p) PROVE CacheInv'
  <2>1. CASE RecoverValid(p)
    <3>1. op' = op /\ load' = load /\ tomb' = tomb /\ bundle' = bundle
      BY <2>1 DEF RecoverValid
    <3> QED BY <3>1 DEF CacheInv, Shaped, OneExclusive, ExclusiveAlone, LoadsBacked
  <2>2. CASE RecoverEvicted(p)
    BY <2>2, EnteringKeeps, OpRecords DEF RecoverEvicted, Enter, StartRemoval
  <2>3. CASE RecoverUnreadable(p)
    <3>1. CASE op' = [op EXCEPT ![p] = At("resurrecting")]
      BY <2>3, <3>1, EnteringKeeps, OpRecords DEF RecoverUnreadable, Enter
    <3>2. CASE UNCHANGED <<tomb, op>>
      BY <2>3, <3>2 DEF RecoverUnreadable, CacheInv, Shaped, OneExclusive, ExclusiveAlone,
                        LoadsBacked
    <3> QED BY <2>3, <3>1, <3>2 DEF RecoverUnreadable
  <2>4. CASE Resurrect(p)
    BY <2>4, InsideKeeps, OpRecords DEF Resurrect, Exclusive, MetaSteps, OwnerSteps
  <2> QED BY <1>5, <2>1, <2>2, <2>3, <2>4
          DEF Recover
<1>6. ASSUME NEW p \in Procs, Crash(p) PROVE CacheInv'
  <2>1. /\ op' = [op EXCEPT ![p] = Idle] /\ load' = [load EXCEPT ![p] = NotLoading]
        /\ tomb' = tomb /\ bundle' = bundle
    BY <1>6 DEF Crash
  <2>2. /\ \A q \in Procs : /\ op'[q] = IF q = p THEN Idle ELSE op[q]
                           /\ load'[q] = IF q = p THEN NotLoading ELSE load[q]
        /\ op' = [q \in Procs |-> op'[q]] /\ load' = [q \in Procs |-> load'[q]]
    BY <2>1 DEF CacheInv, Shaped
  <2>3. Shaped'
    BY <2>2, OpRecords, LoadRecords DEF CacheInv, Shaped
  <2>4. \A q \in Procs : /\ op'[q].pc \in Exclusive => op[q].pc \in Exclusive
                         /\ load'[q].at # "none" => load[q].at # "none"
    BY <2>2, OpRecords, LoadRecords DEF Exclusive, MetaSteps, OwnerSteps
  <2> QED BY <2>1, <2>3, <2>4
          DEF CacheInv, OneExclusive, ExclusiveAlone, LoadsBacked
<1>7. CASE Alter
  <2> DEFINE to(p) == CASE load[p].at = "verifying" -> "moved"
                        [] load[p].at = "read" -> "read then moved"
                        [] OTHER -> load[p].at
  <2>1. /\ load' = [p \in Procs |-> [load[p] EXCEPT !.at = to(p)]]
        /\ \A p \in Procs : to(p) # "none" => load[p].at # "none"
    BY <1>7 DEF Alter
  <2> HIDE DEF to
  <2>5. \A p \in Procs : LoadShaped(load'[p]) /\ load'[p].at = to(p)
    BY <1>0, <2>1, LoadMoved
  <2>2. Shaped'
    <3>1. load' = [p \in Procs |-> load'[p]] /\ op' = op
      BY <1>7 DEF Alter
    <3> QED BY <2>5, <3>1 DEF CacheInv, Shaped
  <2>3. \A q \in Procs : load'[q].at # "none" => load[q].at # "none"
    BY <2>1, <2>5
  <2>4. op' = op /\ tomb' = tomb /\ bundle' \in Sized
    BY <1>7 DEF Alter, Sized
  <2> QED BY <2>2, <2>3, <2>4
          DEF CacheInv, OneExclusive, ExclusiveAlone, LoadsBacked
<1>8. CASE RotTomb \/ Decay
  BY <1>8 DEF RotTomb, Decay, Sanctioned, Sized, CacheInv, Shaped, OneExclusive, ExclusiveAlone,
              LoadsBacked
<1>9. ASSUME UNCHANGED <<op, load, tomb, bundle>> PROVE CacheInv'
  BY <1>9 DEF CacheInv, Shaped, OneExclusive, ExclusiveAlone, LoadsBacked
<1>10. ASSUME NEW p \in Procs, NEW pinned \in BOOLEAN, Open(p) \/ SetPin(p, pinned)
       PROVE CacheInv'
  BY <1>9, <1>10 DEF Open, SetPin
<1>11. CASE Detach \/ Attach \/ Rewrite \/ (\E i \in 0..1 : Rot(i))
  BY <1>9, <1>11 DEF Detach, Attach, Rewrite, Rot
<1>12. CASE UNCHANGED vars
  BY <1>9, <1>12 DEF vars
<1> QED BY <1>1, <1>2, <1>3, <1>4, <1>5, <1>6, <1>7, <1>8, <1>10, <1>11, <1>12
        DEF Next, Damage

(* While a load is being verified or a lease is out, the bundle is there    *)
(* and nothing has sanctioned its removal, however many processes share the *)
(* entry and whatever dies, detaches or rots: the shared artifact lock of   *)
(* acquire_complete excludes every eviction, removal and publication.       *)
THEOREM LeasesProtected == Spec => []LeaseProtected
<1>1. CacheInv => LeaseProtected
  BY DEF CacheInv, LoadsBacked, LeaseProtected, Verifying
<1> QED BY InitHolds, StepHolds, <1>1, PTL DEF Spec

-----------------------------------------------------------------------------
(* The journal *)

(* The record of the higher generation and the other one. *)
Hi == slots[Highest]
Lo == slots[1 - Highest]
Com(r) == r.st = "com"
Whole(r) == r.st \in {"mat", "int", "com"}

-----------------------------------------------------------------------------
(* Types *)

OpT == [pc : OpSteps, ver : 0..MaxVersion, mark : 0..MaxVersion]
LoadT == [at : LoadSteps, rec : Record]

LEMMA StepNames ==
    /\ {"idle", "reserving", "reserved", "copying", "clearing", "staged", "renamed", "receipted",
        "undoing", "removing", "clearing for reserve", "resurrecting", "scanned", "hashed",
        "proved"} = OpSteps
    /\ {"none", "leased", "tainted", "verifying", "moved", "read", "read then moved"} = LoadSteps
BY DEF OpSteps, Exclusive, MetaSteps, OwnerSteps, Scanning, LoadSteps, Verifying

LEMMA OpTypes ==
    /\ Idle \in OpT /\ Idle.pc = "idle"
    /\ \A c \in OpSteps : At(c) \in OpT
    /\ \A c \in OpSteps : \A v, m \in 0..MaxVersion :
          /\ [At(c) EXCEPT !.ver = v] \in OpT
          /\ [At(c) EXCEPT !.ver = v].pc = c /\ [At(c) EXCEPT !.ver = v].ver = v
          /\ [pc |-> c, ver |-> v, mark |-> m] \in OpT
    /\ \A y \in OpT : \A c \in OpSteps :
          /\ [y EXCEPT !.pc = c] \in OpT /\ [y EXCEPT !.pc = c].pc = c
          /\ [y EXCEPT !.pc = c].ver = y.ver /\ [y EXCEPT !.pc = c].mark = y.mark
<1>1. 0 \in 0..MaxVersion
  BY SMTT(30), CacheAssumption
<1>2. "idle" \in OpSteps
  BY StepNames
<1>3. \A c : At(c) = [pc |-> c, ver |-> 0, mark |-> 0]
  BY SMTT(30) DEF At, Idle
<1> QED BY <1>1, <1>2, <1>3 DEF OpT, Idle

LEMMA RecordTypes ==
    /\ NoRecord \in Record /\ Rotten \in Record
    /\ \A p \in Procs : \A b \in BOOLEAN : Materializing(p, b) \in Record
    /\ \A r \in Record : /\ Interrupted(r) \in Record
                         /\ Interrupted(r).st = "int" /\ Interrupted(r).pin = r.pin
    /\ \A r \in Record : \A v \in 0..MaxVersion :
          /\ Completed(r, v) \in Record
          /\ Completed(r, v).st = "com" /\ Completed(r, v).ver = v /\ Completed(r, v).pin = r.pin
    /\ \A r \in Record : \A b \in BOOLEAN :
          /\ [r EXCEPT !.pin = b] \in Record
          /\ [r EXCEPT !.pin = b].st = r.st /\ [r EXCEPT !.pin = b].ses = r.ses
          /\ [r EXCEPT !.pin = b].ver = r.ver /\ [r EXCEPT !.pin = b].pin = b
    /\ \A r \in Record : r.ses \in Procs =>
          /\ [r EXCEPT !.ses = Gone] \in Record
          /\ [r EXCEPT !.ses = Gone].st = r.st /\ [r EXCEPT !.ses = Gone].pin = r.pin
          /\ [r EXCEPT !.ses = Gone].ver = r.ver
<1>1. 0 \in 0..MaxVersion
  BY SMTT(30), CacheAssumption
<1>2. Gone # NoSession /\ NoSession \notin Procs
  BY CacheAssumption
<1>3. NoRecord \in Record /\ Rotten \in Record
  BY <1>1 DEF NoRecord, Rotten, Record
<1>4. \A p \in Procs : \A b \in BOOLEAN : Materializing(p, b) \in Record
  BY <1>1, <1>2 DEF Materializing, Record
<1>5. \A r \in Record : /\ Interrupted(r) \in Record
                        /\ Interrupted(r).st = "int" /\ Interrupted(r).pin = r.pin
  BY DEF Interrupted, Record
<1>6. \A r \in Record : \A v \in 0..MaxVersion :
          /\ Completed(r, v) \in Record
          /\ Completed(r, v).st = "com" /\ Completed(r, v).ver = v /\ Completed(r, v).pin = r.pin
  BY DEF Completed, Record
<1>7. \A r \in Record : \A b \in BOOLEAN :
          /\ [r EXCEPT !.pin = b] \in Record
          /\ [r EXCEPT !.pin = b].st = r.st /\ [r EXCEPT !.pin = b].ses = r.ses
          /\ [r EXCEPT !.pin = b].ver = r.ver /\ [r EXCEPT !.pin = b].pin = b
  BY DEF Record
<1>8. \A r \in Record : r.ses \in Procs =>
          /\ [r EXCEPT !.ses = Gone] \in Record
          /\ [r EXCEPT !.ses = Gone].st = r.st /\ [r EXCEPT !.ses = Gone].pin = r.pin
          /\ [r EXCEPT !.ses = Gone].ver = r.ver
  BY <1>2 DEF Record
<1> QED BY <1>3, <1>4, <1>5, <1>6, <1>7, <1>8

LEMMA JournalTypes ==
    ASSUME CacheTypeOK
    PROVE  /\ Highest \in 0..1 /\ ReadSlot \in 0..1 /\ 1 - Highest \in 0..1
           /\ Journal \in Record /\ Hi \in Record /\ Lo \in Record
           /\ CarriedPin \in BOOLEAN
<1>1. Highest \in 0..1 /\ ReadSlot \in 0..1 /\ 1 - Highest \in 0..1
  BY SMTT(30) DEF CacheTypeOK, Highest, ReadSlot
<1>2. Journal \in Record /\ Hi \in Record /\ Lo \in Record
  BY <1>1 DEF CacheTypeOK, Journal, Hi, Lo
<1>3. Journal.pin \in BOOLEAN
  BY <1>2 DEF Record
<1> QED BY <1>1, <1>2, <1>3, Zenon DEF CarriedPin

LEMMA WriteTypes ==
    ASSUME CacheTypeOK, NEW r \in Record, WriteJournal(r)
    PROVE  slots' \in [0..1 -> Record] /\ top' \in 0..1
<1>1. 1 - Highest \in 0..1 /\ 1 \in 0..1 /\ 0 \in 0..1
  BY SMTT(30), JournalTypes
<1> QED BY <1>1 DEF WriteJournal, CacheTypeOK

(* One process moves, with what it does to the entry. *)
EntryTypes ==
    /\ slots \in [0..1 -> Record] /\ top \in 0..1
    /\ tomb \in {"none", "bad"} \cup Sanctioned
    /\ bundle \in {Absent, Partial} \cup Sized
    /\ receipt \in Record /\ cached \in BOOLEAN
    /\ asked \in BOOLEAN /\ condemned \in BOOLEAN

LEMMA Typed ==
    CacheTypeOK <=>
        /\ up \subseteq Procs /\ op \in [Procs -> OpT] /\ load \in [Procs -> LoadT]
        /\ EntryTypes
        /\ srcUp \in BOOLEAN /\ srcVer \in Versions
        /\ fault \in {"none"} \cup Faults
        /\ budget \in [interruptions : 0..MaxInterruptions, detaches : 0..MaxDetaches]
BY Zenon DEF CacheTypeOK, EntryTypes, OpT, LoadT

LEMMA OpTyped ==
    ASSUME CacheTypeOK, NEW p \in Procs, NEW x \in OpT, op' = [op EXCEPT ![p] = x],
           UNCHANGED <<up, load, source, limits>>, EntryTypes'
    PROVE  CacheTypeOK'
<1>1. op' \in [Procs -> OpT]
  BY Typed
<1> QED BY <1>1, Typed, Zenon DEF CacheTypeOK, EntryTypes, OpT, LoadT, source, limits

LEMMA LoadTyped ==
    ASSUME CacheTypeOK, NEW p \in Procs, NEW x \in LoadT, load' = [load EXCEPT ![p] = x],
           UNCHANGED <<up, op, source, limits>>, EntryTypes'
    PROVE  CacheTypeOK'
<1>1. load' \in [Procs -> LoadT]
  BY Typed
<1> QED BY <1>1, Typed, Zenon DEF CacheTypeOK, EntryTypes, OpT, LoadT, source, limits

LEMMA SourceTypes ==
    ASSUME CacheTypeOK
    PROVE  /\ srcVer \in Versions /\ srcVer \in 0..MaxVersion /\ srcVer \in Nat
           /\ budget \in [interruptions : 0..MaxInterruptions, detaches : 0..MaxDetaches]
<1>1. srcVer \in Versions /\ srcUp \in BOOLEAN
  BY Typed
<1>2. budget \in [interruptions : 0..MaxInterruptions, detaches : 0..MaxDetaches]
  BY Typed
<1> QED BY SMTT(30), <1>1, <1>2, CacheAssumption DEF Versions

LEMMA LoadTypes ==
    /\ NotLoading \in LoadT
    /\ \A c \in LoadSteps : Loading(c) \in LoadT
    /\ \A c \in LoadSteps : \A r \in Record : [at |-> c, rec |-> r] \in LoadT
    /\ \A y \in LoadT : \A c \in LoadSteps :
          /\ [y EXCEPT !.at = c] \in LoadT /\ [y EXCEPT !.at = c].at = c
          /\ [y EXCEPT !.at = c].rec = y.rec
BY RecordTypes, StepNames DEF LoadT, NotLoading, Loading

LEMMA TypeInit == Init => CacheTypeOK
<1> SUFFICES ASSUME Init PROVE CacheTypeOK
  OBVIOUS
<1>1. op \in [Procs -> OpT] /\ load \in [Procs -> LoadT] /\ up \subseteq Procs
  BY OpTypes, LoadTypes DEF Init
<1>2. EntryTypes
  <2>1. slots \in [0..1 -> Record] /\ top \in 0..1 /\ receipt \in Record
    BY SMTT(30), RecordTypes DEF Init
  <2> QED BY <2>1 DEF Init, EntryTypes
<1>3. srcUp \in BOOLEAN /\ srcVer \in Versions /\ fault \in {"none"} \cup Faults
  BY SMTT(30), CacheAssumption DEF Init, Versions
<1>4. budget \in [interruptions : 0..MaxInterruptions, detaches : 0..MaxDetaches]
  BY SMTT(30), CacheAssumption DEF Init
<1> QED BY <1>1, <1>2, <1>3, <1>4, Typed

LEMMA ReserveTypes ==
    ASSUME CacheTypeOK, NEW p \in Procs, Reserve(p) PROVE CacheTypeOK'
<1> USE DEF durable, source, ghosts, limits
<1>0. EntryTypes /\ Journal \in Record /\ op[p] \in OpT /\ CarriedPin \in BOOLEAN
  BY JournalTypes, Typed
<1>1. PICK c \in OpSteps : op' = [op EXCEPT ![p] = At(c)]
  BY StepNames DEF Reserve, StartRemoval
<1>2. EntryTypes'
  <2>1. slots' \in [0..1 -> Record] /\ top' \in 0..1
    BY SMTT(30), <1>0, WriteTypes, RecordTypes DEF Reserve, EntryTypes
  <2> QED BY <1>0, <2>1 DEF Reserve, EntryTypes
<1> QED BY <1>1, <1>2, OpTypes, OpTyped DEF Reserve

LEMMA ReserveRecordTypes ==
    ASSUME CacheTypeOK, NEW p \in Procs, ReserveRecord(p) PROVE CacheTypeOK'
<1> USE DEF durable, source, ghosts, limits
<1>0. EntryTypes /\ Journal \in Record /\ op[p] \in OpT /\ CarriedPin \in BOOLEAN
  BY JournalTypes, Typed
<1>1. PICK x \in OpT : op' = [op EXCEPT ![p] = x]
  <2>1. op' = [op EXCEPT ![p] = At("reserved")] \/ op' = [op EXCEPT ![p] = Idle]
    BY DEF ReserveRecord
  <2>2. At("reserved") \in OpT /\ Idle \in OpT
    BY OpTypes, StepNames
  <2> QED BY <2>1, <2>2
<1>2. EntryTypes'
  <2>1. slots' \in [0..1 -> Record] /\ top' \in 0..1
    BY SMTT(30), <1>0, WriteTypes, RecordTypes DEF ReserveRecord, EntryTypes
  <2>2. condemned' \in BOOLEAN /\ cached' \in BOOLEAN /\ asked' \in BOOLEAN
    BY <1>0, Zenon DEF ReserveRecord, EntryTypes
  <2> QED BY <1>0, <2>1, <2>2 DEF ReserveRecord, EntryTypes
<1> QED BY <1>1, <1>2, OpTyped DEF ReserveRecord

LEMMA PrepareTypes ==
    ASSUME CacheTypeOK, NEW p \in Procs, Prepare(p) PROVE CacheTypeOK'
<1> USE DEF durable, source, ghosts, limits
<1>0. EntryTypes /\ Journal \in Record /\ op[p] \in OpT /\ CarriedPin \in BOOLEAN
  BY JournalTypes, Typed
<1>1. PICK c \in OpSteps : op' = [op EXCEPT ![p] = At(c)]
  BY StepNames DEF Prepare
<1>2. EntryTypes'
  BY <1>0 DEF Prepare, EntryTypes
<1> QED BY <1>1, <1>2, OpTypes, OpTyped DEF Prepare

LEMMA ClearBundleTypes ==
    ASSUME CacheTypeOK, NEW p \in Procs, ClearBundle(p) PROVE CacheTypeOK'
<1> USE DEF durable, source, ghosts, limits
<1>0. EntryTypes /\ Journal \in Record /\ op[p] \in OpT /\ CarriedPin \in BOOLEAN
  BY JournalTypes, Typed
<1>1. PICK x \in OpT : op' = [op EXCEPT ![p] = x]
  <2>1. op = [op EXCEPT ![p] = op[p]]
    BY Typed
  <2> QED BY <1>0, <2>1, StepNames, OpTypes DEF ClearBundle
<1>2. EntryTypes'
  BY <1>0 DEF ClearBundle, UnlinkBundle, EntryTypes
<1> QED BY <1>1, <1>2, OpTyped DEF ClearBundle

LEMMA CopyTypes ==
    ASSUME CacheTypeOK, NEW p \in Procs, Copy(p) PROVE CacheTypeOK'
<1> USE DEF durable, source, ghosts, limits
<1>0. EntryTypes /\ Journal \in Record /\ op[p] \in OpT /\ CarriedPin \in BOOLEAN
  BY JournalTypes, Typed
<1>1. [At("staged") EXCEPT !.ver = srcVer] \in OpT
  <2>1. srcVer \in 0..MaxVersion /\ "staged" \in OpSteps
    BY StepNames, SourceTypes
  <2> QED BY <2>1, OpTypes
<1> QED BY <1>0, <1>1, OpTyped DEF Copy, EntryTypes

(* What is staged is a version of the source. *)
CopiesAreVersions == \A p \in Procs : op[p].pc = "staged" => op[p].ver \in Versions

LEMMA PublishTypes ==
    ASSUME CacheTypeOK, CopiesAreVersions, NEW p \in Procs, Publish(p) PROVE CacheTypeOK'
<1> USE DEF durable, source, ghosts, limits
<1>0. EntryTypes /\ Journal \in Record /\ op[p] \in OpT /\ CarriedPin \in BOOLEAN
  BY JournalTypes, Typed
<1>1. op' = [op EXCEPT ![p] = [op[p] EXCEPT !.pc = "renamed"]]
  BY DEF Publish
<1>2. [op[p] EXCEPT !.pc = "renamed"] \in OpT
  BY <1>0, OpTypes, StepNames
<1>3. EntryTypes'
  <2>1. op[p].ver \in Sized
    BY DEF Publish, CopiesAreVersions, Sized
  <2> QED BY <1>0, <2>1 DEF Publish, EntryTypes
<1> QED BY <1>1, <1>2, <1>3, OpTyped DEF Publish

LEMMA RecordReceiptTypes ==
    ASSUME CacheTypeOK, NEW p \in Procs, RecordReceipt(p) PROVE CacheTypeOK'
<1> USE DEF durable, source, ghosts, limits
<1>0. EntryTypes /\ Journal \in Record /\ op[p] \in OpT /\ CarriedPin \in BOOLEAN
  BY JournalTypes, Typed
<1>1. op' = [op EXCEPT ![p] = [op[p] EXCEPT !.pc = "receipted"]]
  BY DEF RecordReceipt
<1>2. [op[p] EXCEPT !.pc = "receipted"] \in OpT
  BY <1>0, OpTypes, StepNames
<1>3. EntryTypes'
  <2>1. Completed(Journal, op[p].ver) \in Record
    BY <1>0, RecordTypes DEF OpT
  <2> QED BY <1>0, <2>1 DEF RecordReceipt, EntryTypes
<1> QED BY <1>1, <1>2, <1>3, OpTyped DEF RecordReceipt

LEMMA RecordCompleteTypes ==
    ASSUME CacheTypeOK, NEW p \in Procs, RecordComplete(p) PROVE CacheTypeOK'
<1> USE DEF durable, source, ghosts, limits
<1>0. EntryTypes /\ Journal \in Record /\ op[p] \in OpT /\ CarriedPin \in BOOLEAN
  BY JournalTypes, Typed
<1>1. EntryTypes'
  <2>1. slots' \in [0..1 -> Record] /\ top' \in 0..1
    BY <1>0, WriteTypes DEF RecordComplete, EntryTypes
  <2> QED BY <1>0, <2>1 DEF RecordComplete, EntryTypes
<1> QED BY <1>1, OpTypes, OpTyped DEF RecordComplete

LEMMA RollBackTypes ==
    ASSUME CacheTypeOK, NEW p \in Procs, RollBack(p) PROVE CacheTypeOK'
<1> USE DEF durable, source, ghosts, limits
<1>0. EntryTypes /\ Journal \in Record /\ op[p] \in OpT /\ CarriedPin \in BOOLEAN
  BY JournalTypes, Typed
<1>1. At("undoing") \in OpT
  BY OpTypes, StepNames
<1> QED BY <1>0, <1>1, OpTyped DEF RollBack, EntryTypes

LEMMA AbandonTypes ==
    ASSUME CacheTypeOK, NEW p \in Procs, Abandon(p) PROVE CacheTypeOK'
<1> USE DEF durable, source, ghosts, limits
<1>0. EntryTypes /\ Journal \in Record /\ op[p] \in OpT /\ CarriedPin \in BOOLEAN
  BY JournalTypes, Typed
<1>1. EntryTypes'
  <2>1. slots' \in [0..1 -> Record] /\ top' \in 0..1
    BY SMTT(30), <1>0, WriteTypes, RecordTypes DEF Abandon, EntryTypes
  <2> QED BY <1>0, <2>1 DEF Abandon, EntryTypes
<1> QED BY <1>1, OpTypes, OpTyped DEF Abandon

LEMMA MaterializeTypes ==
    ASSUME CacheTypeOK, CopiesAreVersions, NEW p \in Procs, Materialize(p) PROVE CacheTypeOK'
BY ReserveTypes, ReserveRecordTypes, PrepareTypes, ClearBundleTypes, CopyTypes,
   PublishTypes, RecordReceiptTypes, RecordCompleteTypes, RollBackTypes, AbandonTypes DEF
   Materialize

LEMMA LoadStepTypes ==
    ASSUME CacheTypeOK, NEW p \in Procs, Load(p) PROVE CacheTypeOK'
<1> USE DEF durable, source, ghosts, limits
<1>0. EntryTypes /\ Journal \in Record /\ load[p] \in LoadT
  BY JournalTypes, Typed
<1>1. \A r : \E c \in LoadSteps : (IF bundle = r.ver THEN "leased" ELSE "tainted") = c
  BY StepNames
<1>2. CASE AcquireStart(p)
  <2>1. PICK x \in LoadT : load' = [load EXCEPT ![p] = x]
    <3>1. [at |-> "verifying", rec |-> Journal] \in LoadT
      BY <1>0, LoadTypes, StepNames
    <3>2. CASE Grant(p, Journal)
      BY <1>1, <3>2, LoadTypes DEF Grant
    <3> QED BY <1>2, <3>1, <3>2 DEF AcquireStart
  <2>2. EntryTypes'
    <3>1. slots' \in [0..1 -> Record] /\ top' \in 0..1
      BY <1>0, <1>2, WriteTypes DEF AcquireStart, Grant, EntryTypes
    <3> QED BY <1>0, <1>2, <3>1 DEF AcquireStart, EntryTypes
  <2> QED BY <1>2, <2>1, <2>2, LoadTyped DEF AcquireStart
<1>3. CASE AcquireHash(p)
  <2>1. PICK x \in LoadT : load' = [load EXCEPT ![p] = x]
    BY <1>0, <1>3, LoadTypes, StepNames DEF AcquireHash
  <2>2. EntryTypes'
    BY <1>0, <1>3 DEF AcquireHash, EntryTypes
  <2> QED BY <1>3, <2>1, <2>2, LoadTyped DEF AcquireHash
<1>4. CASE AcquireFinish(p)
  <2>0. load[p].rec \in Record
    BY <1>0 DEF LoadT
  <2>1. PICK x \in LoadT : load' = [load EXCEPT ![p] = x]
    BY <1>0, <1>1, <1>4, LoadTypes DEF AcquireFinish, Grant
  <2>2. EntryTypes'
    <3>1. slots' \in [0..1 -> Record] /\ top' \in 0..1
      BY <1>0, <1>4, <2>0, WriteTypes DEF AcquireFinish, Grant, EntryTypes
    <3> QED BY <1>0, <1>4, <3>1 DEF AcquireFinish, EntryTypes
  <2> QED BY <1>4, <2>1, <2>2, LoadTyped DEF AcquireFinish
<1>5. CASE Release(p)
  <2>1. EntryTypes'
    BY <1>0, <1>5 DEF Release, EntryTypes
  <2> QED BY <1>5, <2>1, LoadTypes, LoadTyped DEF Release
<1> QED BY <1>2, <1>3, <1>4, <1>5 DEF Load

LEMMA RetainTypes ==
    ASSUME CacheTypeOK, NEW p \in Procs, Retain(p) PROVE CacheTypeOK'
<1> USE DEF durable, source, ghosts, limits
<1>0. EntryTypes /\ Journal \in Record /\ op[p] \in OpT
  BY JournalTypes, Typed
<1>1. At("removing") \in OpT /\ Idle \in OpT
  BY OpTypes, StepNames
<1>2. CASE EvictScan(p)
  <2>1. [pc |-> "scanned", ver |-> Journal.ver, mark |-> srcVer] \in OpT
    <3>1. srcVer \in 0..MaxVersion /\ Journal.ver \in 0..MaxVersion
      BY <1>0, SourceTypes DEF Record
    <3> QED BY <3>1, OpTypes, StepNames
  <2>2. PICK x \in OpT : op' = [op EXCEPT ![p] = x]
    BY <1>1, <1>2, <2>1 DEF EvictScan, StartRemoval
  <2>3. EntryTypes'
    BY <1>0, <1>2 DEF EvictScan, EntryTypes
  <2> QED BY <1>2, <2>2, <2>3, OpTyped DEF EvictScan
<1>3. ASSUME NEW c \in OpSteps, op' = [op EXCEPT ![p] = [op[p] EXCEPT !.pc = c]],
             UNCHANGED <<up, load, durable, source, ghosts, limits>>
      PROVE  CacheTypeOK'
  <2>1. [op[p] EXCEPT !.pc = c] \in OpT
    BY <1>0, <1>3, OpTypes
  <2>2. EntryTypes'
    BY <1>0, <1>3 DEF EntryTypes
  <2> QED BY <1>3, <2>1, <2>2, OpTyped
<1>4. CASE EvictHash(p)
  BY <1>3, <1>4, StepNames DEF EvictHash
<1>5. CASE EvictProve(p)
  BY <1>3, <1>5, StepNames DEF EvictProve
<1>6. CASE EvictDecide(p)
  <2>1. op' = [op EXCEPT ![p] = At("removing")]
    BY <1>6 DEF EvictDecide, Condemn, StartRemoval
  <2>2. EntryTypes'
    <3>1. asked' \in BOOLEAN /\ condemned' \in BOOLEAN
      BY <1>0, <1>6 DEF EvictDecide, Condemn, EntryTypes
    <3> QED BY <1>0, <1>6, <3>1 DEF EvictDecide, Condemn, EntryTypes, Sanctioned
  <2> QED BY <1>1, <1>6, <2>1, <2>2, OpTyped DEF EvictDecide, Condemn
<1>7. CASE EvictRetain(p)
  <2>1. EntryTypes'
    BY <1>0, <1>7 DEF EvictRetain, EntryTypes
  <2> QED BY <1>1, <1>7, <2>1, OpTyped DEF EvictRetain
<1> QED BY <1>2, <1>4, <1>5, <1>6, <1>7 DEF Retain

LEMMA RemoveTypes ==
    ASSUME CacheTypeOK, NEW p \in Procs, Remove(p) PROVE CacheTypeOK'
<1> USE DEF durable, source, ghosts, limits
<1>0. EntryTypes /\ Journal \in Record /\ op[p] \in OpT
  BY JournalTypes, Typed
<1>1. At("removing") \in OpT /\ At("reserving") \in OpT /\ Idle \in OpT
  BY OpTypes, StepNames
<1>2. ASSUME NEW cause \in Sanctioned, Condemn(p, cause) PROVE CacheTypeOK'
  <2>1. op' = [op EXCEPT ![p] = At("removing")]
    BY <1>2 DEF Condemn, StartRemoval
  <2>2. EntryTypes'
    <3>1. asked' \in BOOLEAN /\ condemned' \in BOOLEAN
      BY <1>0, <1>2 DEF Condemn, EntryTypes
    <3> QED BY <1>0, <1>2, <3>1 DEF Condemn, EntryTypes
  <2> QED BY <1>1, <1>2, <2>1, <2>2, OpTyped DEF Condemn
<1>3. CASE RemoveEntry(p)
  <2>1. CASE Condemn(p, "manual")
    BY <1>2, <2>1 DEF Sanctioned
  <2>2. CASE StartRemoval(p, "idle") /\ UNCHANGED <<up, load, durable, source, ghosts, limits>>
    <3>1. EntryTypes'
      BY <1>0, <2>2 DEF EntryTypes
    <3> QED BY <1>1, <2>2, <3>1, OpTyped DEF StartRemoval
  <2> QED BY <1>3, <2>1, <2>2 DEF RemoveEntry
<1>4. CASE ReconcileRemovedSource(p)
  BY <1>2, <1>4 DEF ReconcileRemovedSource, Sanctioned
<1>5. CASE Unlink(p)
  <2>1. op' = [op EXCEPT ![p] = op[p]]
    BY <1>5, Typed DEF Unlink
  <2>2. EntryTypes'
    <3>1. CASE UnlinkBundle
      BY <1>0, <1>5, <3>1 DEF Unlink, UnlinkBundle, EntryTypes
    <3>2. CASE UnlinkTomb
      BY <1>0, <1>5, <3>2 DEF Unlink, UnlinkTomb, EntryTypes
    <3>3. CASE UnlinkReceipt
      BY <1>0, <1>5, <3>3, RecordTypes DEF Unlink, UnlinkReceipt, EntryTypes
    <3>4. ASSUME NEW i \in 0..1, UnlinkSlot(i) PROVE EntryTypes'
      BY <1>0, <1>5, <3>4, RecordTypes DEF Unlink, UnlinkSlot, EntryTypes
    <3> QED BY <1>5, <3>1, <3>2, <3>3, <3>4 DEF Unlink
  <2> QED BY <1>0, <1>5, <2>1, <2>2, OpTyped DEF Unlink
<1>6. CASE RemovalDone(p)
  <2>1. PICK x \in OpT : op' = [op EXCEPT ![p] = x]
    BY <1>1, <1>6 DEF RemovalDone
  <2>2. EntryTypes'
    BY <1>0, <1>6 DEF RemovalDone, EntryTypes
  <2> QED BY <1>6, <2>1, <2>2, OpTyped DEF RemovalDone
<1>7. CASE RemovalFails(p)
  <2>1. op' \in [Procs -> OpT]
    BY <1>1, <1>7, Typed DEF RemovalFails
  <2>2. EntryTypes'
    BY <1>0, <1>7 DEF RemovalFails, EntryTypes
  <2>3. budget' \in [interruptions : 0..MaxInterruptions, detaches : 0..MaxDetaches]
    <3>1. /\ budget.interruptions > 0
          /\ budget' = [budget EXCEPT !.interruptions = budget.interruptions - 1]
      BY <1>7 DEF RemovalFails
    <3> QED BY SMTT(30), <3>1, SourceTypes, CacheAssumption
  <2> QED BY <1>7, <2>1, <2>2, <2>3, Typed, Zenon
          DEF CacheTypeOK, EntryTypes, OpT, LoadT, RemovalFails
<1> QED BY <1>3, <1>4, <1>5, <1>6, <1>7 DEF Remove

LEMMA RecoverTypes ==
    ASSUME CacheTypeOK, NEW p \in Procs, Recover(p) PROVE CacheTypeOK'
<1> USE DEF durable, source, ghosts, limits
<1>0. EntryTypes /\ Journal \in Record /\ op[p] \in OpT /\ op = [op EXCEPT ![p] = op[p]]
  BY JournalTypes, Typed
<1>1. At("removing") \in OpT /\ At("resurrecting") \in OpT /\ Idle \in OpT
  BY OpTypes, StepNames
<1>2. CASE RecoverValid(p)
  <2>1. UNCHANGED <<slots, top>> \/ \E r \in Record : WriteJournal(r)
    <3>1. \A r \in Record : (IF Stale(r) THEN Interrupted(r) ELSE r) \in Record
      BY RecordTypes
    <3>2. [Journal EXCEPT !.pin = TRUE] \in Record
      BY <1>0, RecordTypes
    <3> QED BY <1>0, <1>2, <3>1, <3>2 DEF RecoverValid
  <2>2. EntryTypes'
    <3>1. slots' \in [0..1 -> Record] /\ top' \in 0..1
      BY <1>0, <2>1, WriteTypes DEF EntryTypes
    <3>2. cached' \in BOOLEAN
      BY <1>0, <1>2 DEF RecoverValid, EntryTypes
    <3> QED BY <1>0, <1>2, <3>1, <3>2 DEF RecoverValid, EntryTypes
  <2> QED BY <1>0, <1>2, <2>2, OpTyped DEF RecoverValid
<1>3. CASE RecoverEvicted(p)
  <2>1. EntryTypes'
    BY <1>0, <1>3 DEF RecoverEvicted, EntryTypes
  <2> QED BY <1>1, <1>3, <2>1, OpTyped DEF RecoverEvicted, StartRemoval
<1>4. CASE RecoverUnreadable(p)
  <2>1. EntryTypes'
    BY <1>0, <1>4 DEF RecoverUnreadable, EntryTypes
  <2>2. op' = [op EXCEPT ![p] = At("resurrecting")] \/ op' = [op EXCEPT ![p] = op[p]]
    BY <1>0, <1>4 DEF RecoverUnreadable
  <2> QED BY <1>0, <1>1, <1>4, <2>1, <2>2, OpTyped DEF RecoverUnreadable
<1>5. CASE Resurrect(p)
  <2>1. EntryTypes'
    <3>1. [receipt EXCEPT !.pin = TRUE] \in Record
      BY <1>0, RecordTypes DEF EntryTypes
    <3>2. slots' \in [0..1 -> Record] /\ top' \in 0..1
      BY <1>5, <3>1, WriteTypes DEF Resurrect
    <3> QED BY <1>0, <1>5, <3>2 DEF Resurrect, EntryTypes
  <2> QED BY <1>1, <1>5, <2>1, OpTyped DEF Resurrect
<1> QED BY <1>2, <1>3, <1>4, <1>5 DEF Recover

LEMMA OutsideTypes ==
    ASSUME CacheTypeOK,
           \/ \E p \in Procs : Open(p) \/ Crash(p) \/ \E pinned \in BOOLEAN : SetPin(p, pinned)
           \/ Detach \/ Attach \/ Rewrite \/ Damage \/ UNCHANGED vars
    PROVE  CacheTypeOK'
<1> USE DEF durable, source, ghosts, limits
<1>0. /\ EntryTypes /\ Journal \in Record
      /\ up \subseteq Procs /\ op \in [Procs -> OpT] /\ load \in [Procs -> LoadT]
  BY JournalTypes, Typed
<1>1. ASSUME NEW p \in Procs, Open(p) PROVE CacheTypeOK'
  <2>1. EntryTypes' /\ up' \subseteq Procs
    BY <1>0, <1>1 DEF Open, EntryTypes
  <2> QED BY <1>1, <2>1, Typed, Zenon DEF CacheTypeOK, EntryTypes, OpT, LoadT, Open
<1>2. ASSUME NEW p \in Procs, Crash(p) PROVE CacheTypeOK'
  <2>1. op' \in [Procs -> OpT] /\ load' \in [Procs -> LoadT] /\ up' \subseteq Procs
    BY <1>0, <1>2, OpTypes, LoadTypes DEF Crash
  <2>2. EntryTypes'
    <3>1. slots' \in [0..1 -> Record]
      BY SMTT(30), <1>0, <1>2, RecordTypes DEF Crash, EntryTypes
    <3> QED BY <1>0, <1>2, <3>1 DEF Crash, EntryTypes
  <2>3. budget' \in [interruptions : 0..MaxInterruptions, detaches : 0..MaxDetaches]
    BY SMTT(30), <1>2, SourceTypes, CacheAssumption DEF Crash
  <2> QED BY <1>2, <2>1, <2>2, <2>3, Typed, Zenon DEF CacheTypeOK, EntryTypes, OpT, LoadT, Crash
<1>3. ASSUME NEW p \in Procs, NEW pinned \in BOOLEAN, SetPin(p, pinned) PROVE CacheTypeOK'
  <2>1. EntryTypes'
    <3>1. slots' \in [0..1 -> Record] /\ top' \in 0..1
      BY <1>0, <1>3, RecordTypes, WriteTypes DEF SetPin
    <3> QED BY <1>0, <1>3, <3>1 DEF SetPin, EntryTypes
  <2>2. op' = [op EXCEPT ![p] = op[p]] /\ op[p] \in OpT
    BY <1>0, <1>3 DEF SetPin
  <2> QED BY <1>3, <2>1, <2>2, OpTyped DEF SetPin
<1>4. CASE Detach \/ Attach \/ Rewrite
  <2>1. EntryTypes'
    BY <1>0, <1>4 DEF Detach, Attach, Rewrite, EntryTypes
  <2>2. budget' \in [interruptions : 0..MaxInterruptions, detaches : 0..MaxDetaches]
    BY SMTT(30), <1>4, SourceTypes, CacheAssumption DEF Detach, Attach, Rewrite
  <2>3. srcVer' \in Versions
    BY SMTT(30), <1>4, SourceTypes, CacheAssumption DEF Detach, Attach, Rewrite, Versions
  <2>4. srcUp' \in BOOLEAN
    BY <1>4, Typed DEF Detach, Attach, Rewrite
  <2> QED BY <1>4, <2>1, <2>2, <2>3, <2>4, Typed, Zenon
          DEF CacheTypeOK, EntryTypes, OpT, LoadT, Detach, Attach, Rewrite
<1>5. CASE Alter
  <2>1. load' \in [Procs -> LoadT]
    <3>1. ASSUME NEW q \in Procs PROVE load'[q] \in LoadT
      <4>1. PICK c \in LoadSteps : load'[q] = [load[q] EXCEPT !.at = c]
        <5>1. load[q].at \in LoadSteps
          BY <1>0 DEF LoadT
        <5> QED BY <1>5, <5>1, StepNames DEF Alter
      <4> QED BY SMTT(30), <1>0, <4>1, LoadTypes
    <3> QED BY <1>5, <3>1 DEF Alter
  <2>2. EntryTypes' /\ fault' \in {"none"} \cup Faults
    BY <1>0, <1>5 DEF Alter, EntryTypes, Sized
  <2> QED BY <1>5, <2>1, <2>2, Typed, Zenon DEF CacheTypeOK, EntryTypes, OpT, LoadT, Alter
<1>6. CASE RotTomb
  <2>1. EntryTypes' /\ fault' \in {"none"} \cup Faults
    BY <1>0, <1>6 DEF RotTomb, EntryTypes
  <2> QED BY <1>6, <2>1, Typed, Zenon DEF CacheTypeOK, EntryTypes, OpT, LoadT, RotTomb
<1>7. ASSUME NEW i \in 0..1, Rot(i) PROVE CacheTypeOK'
  <2>1. EntryTypes' /\ fault' \in {"none"} \cup Faults
    BY <1>0, <1>7, RecordTypes DEF Rot, EntryTypes
  <2> QED BY <1>7, <2>1, Typed, Zenon DEF CacheTypeOK, EntryTypes, OpT, LoadT, Rot
<1>8. CASE UNCHANGED vars
  BY <1>8, Zenon DEF CacheTypeOK, vars
<1>9. CASE Decay
  <2>1. EntryTypes' /\ fault' \in {"none"} \cup Faults
    BY <1>0, <1>9 DEF Decay, EntryTypes, Sized
  <2> QED BY <1>9, <2>1, Typed, Zenon DEF CacheTypeOK, EntryTypes, OpT, LoadT, Decay
<1> QED BY <1>1, <1>2, <1>3, <1>4, <1>5, <1>6, <1>7, <1>8, <1>9 DEF Damage

LEMMA TypeStep == CacheTypeOK /\ CopiesAreVersions /\ [Next]_vars => CacheTypeOK'
BY MaterializeTypes, LoadStepTypes, RetainTypes, RemoveTypes, RecoverTypes, OutsideTypes DEF Next

-----------------------------------------------------------------------------
(* The journal in terms of its two records *)

LEMMA Reads ==
    ASSUME CacheTypeOK
    PROVE  /\ Whole(Hi) \/ ~Whole(Lo)
           /\ Journal = IF ShapeValid(Hi) THEN Hi ELSE Lo
           /\ Read = "valid" <=> tomb = "none" /\ (ShapeValid(Hi) \/ ShapeValid(Lo))
           /\ Read = "valid" => ShapeValid(Journal)
           /\ Read = "missing" => tomb = "none" /\ Hi.st = "none" /\ Lo.st = "none"
           /\ Read = "corrupt" => /\ tomb = "none" /\ ~ShapeValid(Hi) /\ ~ShapeValid(Lo)
                                  /\ Hi.st # "none" \/ Lo.st # "none"
           /\ Read = "evicted" => tomb \in Sanctioned
           /\ Read = "error" => tomb = "bad"
<1>1. Highest \in 0..1 /\ 1 - Highest \in 0..1 /\ (Highest = 0 \/ Highest = 1)
  BY SMTT(30), JournalTypes
<1>2. Whole(Hi) \/ ~Whole(Lo)
  BY SMTT(30), <1>1 DEF Highest, Intact, Whole, Hi, Lo, CacheTypeOK
<1>3. Journal = IF ShapeValid(Hi) THEN Hi ELSE Lo
  BY DEF Journal, ReadSlot, Hi, Lo
<1>4. ShapeValid(slots[ReadSlot]) <=> ShapeValid(Hi) \/ ShapeValid(Lo)
  BY DEF ReadSlot, Hi, Lo
<1>5. (\E i \in 0..1 : slots[i].st # "none") <=> Hi.st # "none" \/ Lo.st # "none"
  BY SMTT(30), <1>1 DEF Hi, Lo
<1>6. tomb \in {"none", "bad"} \cup Sanctioned /\ tomb \in Sanctioned => tomb \notin {"none", "bad"}
  BY Typed DEF EntryTypes, Sanctioned
<1>7. Read = "valid" <=> tomb = "none" /\ ShapeValid(slots[ReadSlot])
  BY DEF Read, Sanctioned
<1>8. /\ Read = "missing" => tomb = "none" /\ ~(\E i \in 0..1 : slots[i].st # "none")
      /\ Read = "corrupt" => /\ tomb = "none" /\ ~ShapeValid(slots[ReadSlot])
                             /\ \E i \in 0..1 : slots[i].st # "none"
      /\ Read = "evicted" => tomb \in Sanctioned
      /\ Read = "error" => tomb = "bad"
  <2>1. ~(\E i \in 0..1 : slots[i].st # "none") => ~ShapeValid(slots[ReadSlot])
    BY <1>4, <1>5 DEF ShapeValid
  <2>2. tomb \in {"none", "bad"} \cup Sanctioned
    BY Typed DEF EntryTypes
  <2> HIDE DEF ShapeValid
  <2> QED BY <2>1, <2>2 DEF Read, Sanctioned
<1> QED BY <1>2, <1>3, <1>4, <1>5, <1>7, <1>8 DEF Journal

LEMMA Rests == UNCHANGED <<slots, top>> => Hi' = Hi /\ Lo' = Lo
BY DEF Hi, Lo, Highest, Intact

LEMMA Written ==
    ASSUME CacheTypeOK, NEW r \in Record, Whole(r), WriteJournal(r)
    PROVE  /\ Read = "valid" => Hi' = r /\ Lo' = Hi
           /\ Read # "valid" =>
                 \/ Hi' = r /\ Lo' \in {Hi, Lo} /\ ~Whole(Lo')
                 \/ Hi' \in {Hi, Lo} /\ Whole(Hi') /\ Lo' = r
<1>1. Highest \in 0..1 /\ (Highest = 0 \/ Highest = 1) /\ slots \in [0..1 -> Record]
  BY SMTT(30), JournalTypes, Typed DEF EntryTypes
<1>2. CASE Read = "valid"
  <2>1. slots' = [slots EXCEPT ![1 - Highest] = r] /\ top' = 1 - Highest
    BY <1>2 DEF WriteJournal
  <2>2. slots'[1 - Highest] = r /\ slots'[Highest] = slots[Highest] /\ top' \in 0..1
    BY SMTT(30), <1>1, <2>1
  <2>3. Highest' = 1 - Highest
    BY <2>1, <2>2 DEF Highest, Intact, Whole
  <2> QED BY SMTT(30), <1>1, <1>2, <2>2, <2>3 DEF Hi, Lo
<1>3. CASE Read # "valid"
  <2>1. slots' = [slots EXCEPT ![1] = r] /\ top' = IF Intact(0) THEN 0 ELSE 1
    BY <1>3 DEF WriteJournal
  <2>2. slots'[1] = r /\ slots'[0] = slots[0] /\ slots[0] \in {Hi, Lo}
    BY SMTT(30), <1>1, <2>1 DEF Hi, Lo
  <2>3. CASE Intact(0)
    <3>1. Highest' = 0 /\ Whole(slots[0])
      BY <2>1, <2>2, <2>3 DEF Highest, Intact, Whole
    <3> QED BY SMTT(30), <1>3, <2>2, <3>1 DEF Hi, Lo
  <2>4. CASE ~Intact(0)
    <3>1. Highest' = 1 /\ ~Whole(slots[0])
      BY <2>1, <2>2, <2>4 DEF Highest, Intact, Whole
    <3> QED BY SMTT(30), <1>3, <2>2, <3>1 DEF Hi, Lo
  <2> QED BY <2>3, <2>4
<1> QED BY <1>2, <1>3

(* A slot that is unlinked or rots *)
LEMMA SlotLost ==
    ASSUME CacheTypeOK, NEW i \in 0..1, NEW r \in Record, ~Whole(r),
           slots' = [slots EXCEPT ![i] = r], top' = top
    PROVE  \E o \in {Hi, Lo} : \/ Hi' = o /\ Lo' = r
                               \/ Hi' = r /\ Lo' = o /\ ~Whole(o)
<1>1. /\ Highest \in 0..1 /\ (Highest = 0 \/ Highest = 1) /\ slots \in [0..1 -> Record]
      /\ top \in 0..1
  BY SMTT(30), JournalTypes, Typed DEF EntryTypes
<1>2. slots'[i] = r /\ slots'[1 - i] = slots[1 - i] /\ slots[1 - i] \in {Hi, Lo}
  BY SMTT(30), <1>1 DEF Hi, Lo
<1>3. Highest' = i \/ Highest' = 1 - i
  BY SMTT(30), <1>1 DEF Highest
<1>4. CASE Whole(slots[1 - i])
  <2>1. Highest' = 1 - i
    BY SMTT(30), <1>1, <1>2, <1>4 DEF Highest, Intact, Whole
  <2> QED BY SMTT(30), <1>2, <2>1 DEF Hi, Lo
<1>5. CASE ~Whole(slots[1 - i])
  BY SMTT(30), <1>2, <1>3, <1>5 DEF Hi, Lo
<1> QED BY <1>4, <1>5

(* A death: the records keep all but their owner. *)
Orphan(r, q, p) ==
    /\ q.st = r.st /\ q.pin = r.pin /\ q.ver = r.ver
    /\ r.ses # p => q = r

LEMMA Orphaned ==
    ASSUME CacheTypeOK, NEW p \in Procs, Crash(p)
    PROVE  Orphan(Hi, Hi', p) /\ Orphan(Lo, Lo', p)
<1>1. Highest \in 0..1 /\ 1 - Highest \in 0..1 /\ slots \in [0..1 -> Record]
  BY JournalTypes, Typed DEF EntryTypes
<1>2. \A i \in 0..1 : slots'[i] = IF slots[i].ses = p
                                  THEN [slots[i] EXCEPT !.ses = Gone] ELSE slots[i]
  BY DEF Crash
<1>3. \A i \in 0..1 : Orphan(slots[i], slots'[i], p)
  <2> TAKE i \in 0..1
  <2>1. CASE slots[i].ses = p
    <3>1. slots[i] \in Record /\ slots[i].ses \in Procs
      BY <1>1, <2>1
    <3>2. slots'[i] = [slots[i] EXCEPT !.ses = Gone]
      BY <1>2, <2>1
    <3>3. slots'[i].st = slots[i].st /\ slots'[i].pin = slots[i].pin /\ slots'[i].ver = slots[i].ver
      <4>1. \A r \in Record : r.ses \in Procs =>
               /\ [r EXCEPT !.ses = Gone].st = r.st /\ [r EXCEPT !.ses = Gone].pin = r.pin
               /\ [r EXCEPT !.ses = Gone].ver = r.ver
        BY RecordTypes, Zenon
      <4> QED BY <3>1, <3>2, <4>1, Zenon
    <3> QED BY <2>1, <3>3 DEF Orphan
  <2>2. CASE slots[i].ses # p
    BY <1>2, <2>2, Zenon DEF Orphan
  <2> QED BY <2>1, <2>2
<1>4. \A i \in 0..1 : Intact(i)' <=> Intact(i)
  BY <1>3 DEF Intact, Orphan
<1>5. Highest' = Highest
  BY <1>1, <1>4, Typed DEF Highest, Crash, EntryTypes
<1> QED BY <1>1, <1>3, <1>5 DEF Hi, Lo

-----------------------------------------------------------------------------
(* What the locks give *)

(* Nobody but p is inside an exclusive operation, and no load is out. *)
Alone(p) ==
    /\ \A q \in Procs : q # p => op[q].pc \notin Exclusive
    /\ \A q \in Procs : load[q].at = "none"

Carrying == {"staged", "renamed", "receipted"}
Erasing == {"removing", "clearing for reserve"}

(* The bytes changed, and nothing on disk says so. *)
Decayed == bundle = Altered /\ fault = "decay"

GroundOp(p) ==
    /\ op[p].pc \in OwnerSteps \cup {"reserving", "resurrecting"} => tomb = "none"
    /\ op[p].pc \in Erasing => condemned
    /\ op[p].pc \in {"copying", "staged"} => bundle = Absent
    /\ op[p].pc \in {"renamed", "receipted"} => bundle \in {op[p].ver, Altered}
    /\ op[p].pc \in Carrying => op[p].ver \in Versions
    /\ op[p].pc = "receipted" => Com(receipt) /\ receipt.ver = op[p].ver /\ ~cached
    /\ op[p].pc = "resurrecting" => Com(receipt) /\ bundle \in Sized

GroundLoad(p) ==
    /\ load[p].at \in Verifying => Com(load[p].rec)
    /\ load[p].at = "read" => bundle = load[p].rec.ver \/ Decayed

GroundEntry ==
    /\ Attached => srcUp
    /\ Hi.st = "rotten" \/ Lo.st = "rotten" => fault = "rot"
    /\ tomb = "bad" => fault = "tomb"
    /\ tomb # "none" => condemned
    /\ receipt.st \in {"none", "com"}
    /\ Com(receipt) => receipt.ver \in Versions

OneVerifies ==
    \A p, q \in Procs : load[p].at \in Verifying /\ load[q].at \in Verifying => p = q

Ground == GroundEntry /\ OneVerifies /\ \A p \in Procs : GroundOp(p) /\ GroundLoad(p)

LEMMA Steps ==
    /\ MetaSteps \subseteq Exclusive /\ OwnerSteps \subseteq Exclusive
    /\ Carrying \subseteq OwnerSteps /\ Erasing \subseteq MetaSteps
    /\ {"reserving", "resurrecting", "receipted", "clearing", "undoing"} \subseteq MetaSteps
    /\ {"reserved", "copying", "staged", "renamed", "receipted", "clearing", "undoing"} = OwnerSteps
    /\ "idle" \notin Exclusive /\ \A c \in Scanning : c \notin Exclusive
    /\ \A c \in Verifying : c # "none"
BY DEF Carrying, Erasing, Exclusive, MetaSteps, OwnerSteps, Scanning, Verifying

LEMMA AloneInside ==
    ASSUME CacheInv, NEW p \in Procs, op[p].pc \in Exclusive \/ LockFree PROVE Alone(p)
<1>1. CASE op[p].pc \in Exclusive
  BY <1>1 DEF CacheInv, OneExclusive, ExclusiveAlone, Alone
<1>2. CASE LockFree
  BY <1>2, LoadRecords DEF LockFree, ArtifactFree, Alone
<1> QED BY <1>1, <1>2

LEMMA AloneStays ==
    ASSUME CacheTypeOK, NEW p \in Procs, Alone(p), NEW x,
           op' = [op EXCEPT ![p] = x], load' = load
    PROVE  Alone(p)' /\ op'[p] = x
<1>1. op \in [Procs -> OpT]
  BY Typed
<1>2. \A q \in Procs : op'[q] = IF q = p THEN x ELSE op[q]
  BY <1>1
<1> QED BY <1>2 DEF Alone

LEMMA AloneMoves ==
    ASSUME CacheTypeOK, NEW p \in Procs, Alone(p), NEW c \in OpSteps,
           op' = [op EXCEPT ![p] = [op[p] EXCEPT !.pc = c]], load' = load
    PROVE  Alone(p)' /\ op'[p].pc = c /\ op'[p].ver = op[p].ver /\ op'[p].mark = op[p].mark
<1> DEFINE x == [op[p] EXCEPT !.pc = c]
<1>1. op[p] \in OpT
  BY Typed
<1>2. x.pc = c /\ x.ver = op[p].ver /\ x.mark = op[p].mark
  BY <1>1, OpTypes
<1> HIDE DEF x
<1>3. Alone(p)' /\ op'[p] = x
  BY AloneStays DEF x
<1> QED BY <1>2, <1>3

(* A step that only the process p of both locks could take leaves the other *)
(* processes nothing to say.                                                *)
LEMMA GroundOne ==
    ASSUME NEW p \in Procs, Alone(p)', GroundEntry', GroundOp(p)' PROVE Ground'
<1>1. \A q \in Procs : q # p => GroundOp(q)'
  BY Steps DEF Alone, GroundOp
<1>2. \A q \in Procs : GroundLoad(q)'
  BY Steps DEF Alone, GroundLoad
<1>3. OneVerifies'
  BY Steps DEF Alone, OneVerifies
<1> QED BY <1>1, <1>2, <1>3 DEF Ground

LEMMA NoNewRot ==
    ASSUME CacheTypeOK, NEW r \in Record, Whole(r), WriteJournal(r)
    PROVE  Hi'.st = "rotten" \/ Lo'.st = "rotten" => Hi.st = "rotten" \/ Lo.st = "rotten"
BY Written DEF Whole

LEMMA GroundInit == Init => Ground
<1> SUFFICES ASSUME Init PROVE Ground
  OBVIOUS
<1>1. CacheTypeOK /\ CacheInv
  BY TypeInit, InitHolds
<1>2. \A p \in Procs : op[p].pc = "idle" /\ load[p].at = "none"
  BY OpRecords, LoadRecords DEF Init
<1>3. Hi = NoRecord /\ Lo = NoRecord
  BY <1>1, JournalTypes DEF Init, Hi, Lo
<1>4. GroundEntry
  BY <1>3 DEF GroundEntry, Init, NoRecord, Com, Attached
<1>5. ASSUME NEW p \in Procs PROVE Alone(p) /\ GroundOp(p)
  BY <1>2, Steps DEF Alone, GroundOp
<1>6. \A p \in Procs : GroundLoad(p)
  BY <1>2, Steps DEF GroundLoad
<1>7. OneVerifies
  BY <1>2, Steps DEF OneVerifies
<1> QED BY <1>4, <1>5, <1>6, <1>7 DEF Ground

-----------------------------------------------------------------------------
(* What the journal says while the source stays attached *)

Sound == fault = "none"

(* Every complete record in the journal has version v; there is none. *)
OnlyVersion(v) == (Com(Hi) => Hi.ver = v) /\ (Com(Lo) => Lo.ver = v)
NoComplete == ~Com(Hi) /\ ~Com(Lo)

JournalSlots ==
    /\ Com(Hi) /\ Com(Lo) => Hi.ver = Lo.ver
    /\ (Sound \/ tomb = "bad") /\ bundle \in Versions => OnlyVersion(bundle)
    /\ Sound /\ Com(Hi) => Lo.st # "int"
    /\ cached => Decayed \/ (OnlyVersion(bundle) /\ (Com(receipt) => receipt.ver = bundle))
    /\ ~condemned /\ Unrotted /\ Com(Hi) => Com(receipt) /\ receipt.ver = Hi.ver

JournalOp(p) ==
    /\ op[p].pc \in OwnerSteps /\ Unrotted => Hi.st = "mat" /\ Hi.ses = p
    /\ op[p].pc \in OwnerSteps /\ Sound => ~Com(Lo)
    /\ op[p].pc = "reserving" /\ Unrotted =>
          (Hi.st = "none" /\ Lo.st = "none") \/ "int" \in {Hi.st, Lo.st}
    /\ op[p].pc = "reserving" /\ Sound => ~Com(Hi)
    /\ op[p].pc = "receipted" => Hi.st = "mat" \/ NoComplete
    /\ op[p].pc = "resurrecting" => ~Sound /\ (Unrotted => condemned) /\ OnlyVersion(receipt.ver)

JournalLoad(p) ==
    load[p].at \in Verifying =>
        OnlyVersion(load[p].rec.ver) /\ (Unrotted => Hi = load[p].rec)

JournalInv ==
    Attached => JournalSlots /\ \A p \in Procs : JournalOp(p) /\ JournalLoad(p)

(* The pin that was asked for *)
PinnedEntry ==
    tomb = "none" /\ Whole(Hi) /\ Hi.pin = TRUE /\ (Com(Hi) => bundle \in Sized)
PinnedOp(p) ==
    /\ op[p].pc \notin Erasing
    /\ op[p].pc \in {"clearing", "undoing"} => ~Com(Hi)
    /\ op[p].pc = "receipted" => receipt.pin = TRUE
PinnedLoad(p) == load[p].at \in Verifying => load[p].rec.pin = TRUE

Pinned ==
    Attached /\ asked = TRUE =>
        PinnedEntry /\ \A p \in Procs : PinnedOp(p) /\ PinnedLoad(p)

(* No version that the journal, the receipt, a copy or a load may hold is   *)
(* ahead of the source, and the receipt is never behind the journal.        *)
NotNewer(v) == (Com(Hi) => Hi.ver <= v) /\ (Com(Lo) => Lo.ver <= v)
AgesEntry == NotNewer(srcVer) /\ (Com(receipt) => receipt.ver <= srcVer /\ NotNewer(receipt.ver))
AgesOp(p) == op[p].pc \in Carrying => op[p].ver <= srcVer /\ NotNewer(op[p].ver)
AgesLoad(p) ==
    load[p].at \in Verifying =>
        load[p].rec.ver <= srcVer /\ (Com(receipt) => load[p].rec.ver <= receipt.ver)
Ages == AgesEntry /\ \A p \in Procs : AgesOp(p) /\ AgesLoad(p)

(* Nor is one behind what an eviction in progress has scanned. *)
EntrySince(v) ==
    /\ Com(Hi) => v <= Hi.ver
    /\ Com(Lo) => v <= Lo.ver
    /\ Com(receipt) => v <= receipt.ver
OpSince(v, p) == op[p].pc \in Carrying => v <= op[p].ver
LoadSince(v, p) == load[p].at \in Verifying => v <= load[p].rec.ver
Since(v) == EntrySince(v) /\ \A p \in Procs : OpSince(v, p) /\ LoadSince(v, p)

Scan(p) ==
    op[p].pc \in Scanning =>
        /\ op[p].mark <= srcVer /\ op[p].ver <= srcVer
        /\ op[p].pc # "scanned" /\ srcVer = op[p].mark => op[p].ver = op[p].mark
        /\ Attached => Since(op[p].ver)
Scans == \A p \in Procs : Scan(p)

EntryInv == Ground /\ JournalInv /\ Pinned /\ Ages /\ Scans

(* A content receipt needs files to match, and no published bundle or copy  *)
(* is behind the complete receipt.                                          *)
Vouched ==
    /\ cached = TRUE => bundle \in Sized
    /\ Com(receipt) /\ bundle \in Versions => receipt.ver <= bundle
    /\ \A p \in Procs : op[p].pc \in Carrying /\ Com(receipt) => receipt.ver <= op[p].ver

(* Numbers, for the comparisons *)
LEMMA VersionNumbers ==
    ASSUME CacheTypeOK
    PROVE  /\ srcVer \in Nat /\ receipt.ver \in Nat /\ Hi.ver \in Nat /\ Lo.ver \in Nat
           /\ \A p \in Procs : /\ op[p].ver \in Nat /\ op[p].mark \in Nat
                               /\ load[p].rec.ver \in Nat
<1>1. receipt \in Record /\ Hi \in Record /\ Lo \in Record
  BY JournalTypes, Typed DEF EntryTypes
<1>2. \A p \in Procs : op[p] \in OpT /\ load[p] \in LoadT
  BY Typed
<1>3. \A r \in Record : r.ver \in Nat
  BY SMTT(30), CacheAssumption DEF Record
<1>4. \A x \in OpT : x.ver \in Nat /\ x.mark \in Nat
  BY SMTT(30), CacheAssumption DEF OpT
<1>5. \A x \in LoadT : x.rec \in Record
  BY DEF LoadT
<1> QED BY <1>1, <1>2, <1>3, <1>4, <1>5, SourceTypes

LEMMA SourceSteady ==
    ASSUME CacheTypeOK, srcVer' = srcVer PROVE srcVer' \in Nat /\ srcVer <= srcVer'
<1>1. srcVer \in Nat
  BY SourceTypes
<1> QED BY SMTT(30), <1>1

(* Attached, every whole record but a complete one without its bundle can   *)
(* be read, and a complete record that is read is the newer one.            *)
LEMMA AttachedReads ==
    ASSUME CacheTypeOK, GroundEntry, Attached
    PROVE  /\ srcUp
           /\ \A r : ShapeValid(r) <=> r.st \in {"mat", "int"} \/ (Com(r) /\ bundle \in Sized)
           /\ Read = "valid" => Whole(Journal) /\ tomb = "none"
           /\ Read = "valid" /\ Com(Journal) => Journal = Hi /\ bundle \in Sized
           /\ Read = "valid" /\ bundle \in Sized => Journal = Hi
           /\ Read # "valid" /\ tomb = "none" /\ bundle \in Sized => ~Whole(Hi) /\ ~Whole(Lo)
           /\ tomb = "none" /\ Whole(Hi) /\ (Com(Hi) => bundle \in Sized) =>
                 Read = "valid" /\ Journal = Hi
           /\ tomb = "none" /\ "int" \in {Hi.st, Lo.st} => Read = "valid"
<1>1. srcUp
  BY DEF GroundEntry
<1>2. \A r : ShapeValid(r) <=> r.st \in {"mat", "int"} \/ (Com(r) /\ bundle \in Sized)
  BY <1>1 DEF ShapeValid, Com
<1>3. /\ Whole(Hi) \/ ~Whole(Lo)
      /\ Journal = IF ShapeValid(Hi) THEN Hi ELSE Lo
      /\ Read = "valid" <=> tomb = "none" /\ (ShapeValid(Hi) \/ ShapeValid(Lo))
  BY Reads
<1> QED BY <1>1, <1>2, <1>3 DEF Whole, Com

(* A step of the process that is alone *)
LEMMA AgesSolo ==
    ASSUME CacheTypeOK, Scans, NEW p \in Procs, Alone(p)', NEW x,
           op' = [op EXCEPT ![p] = x], srcVer' = srcVer, Attached' => Attached,
           x.pc \notin Scanning, AgesEntry', AgesOp(p)',
           \A v \in Nat : v <= srcVer /\ Since(v) => EntrySince(v)' /\ OpSince(v, p)'
    PROVE  Ages' /\ Scans'
<1>0. op \in [Procs -> OpT]
  BY Typed
<1>1. \A q \in Procs : op'[q] = IF q = p THEN x ELSE op[q]
  BY <1>0
<1>2. \A q \in Procs : q # p => op'[q].pc \notin Carrying
  BY Steps DEF Alone
<1>3. \A q \in Procs : load'[q].at \notin Verifying
  BY Steps DEF Alone
<1>4. Ages'
  BY <1>2, <1>3 DEF Ages, AgesOp, AgesLoad
<1>5. \A v \in Nat : v <= srcVer /\ Since(v) => Since(v)'
  <2> TAKE v \in Nat
  <2>1. \A q \in Procs : LoadSince(v, q)' /\ (q # p => OpSince(v, q)')
    BY <1>2, <1>3 DEF OpSince, LoadSince
  <2> QED BY <2>1 DEF Since
<1>6. ASSUME NEW q \in Procs PROVE Scan(q)'
  <2>1. CASE q = p
    BY <1>1, <2>1 DEF Scan
  <2>2. CASE q # p
    <3>1. op'[q] = op[q] /\ op[q].ver \in Nat /\ Scan(q)
      BY <1>1, <2>2, VersionNumbers DEF Scans
    <3>2. op[q].ver <= srcVer /\ Since(op[q].ver) => Since(op[q].ver)'
      BY <1>5, <3>1
    <3> QED BY <3>1, <3>2 DEF Scan
  <2> QED BY <2>1, <2>2
<1> QED BY <1>4, <1>6 DEF Scans

(* Most steps leave no complete record that was not there before. *)
Derived(r) ==
    \/ ~Com(r)
    \/ Com(Hi) /\ r.ver = Hi.ver
    \/ Com(Lo) /\ r.ver = Lo.ver

LEMMA AgesKept ==
    ASSUME CacheTypeOK, Ages, Scans, NEW p \in Procs, Alone(p)', NEW x,
           op' = [op EXCEPT ![p] = x], Derived(Hi'), Derived(Lo'),
           receipt' = receipt \/ ~Com(receipt'), srcVer' = srcVer, Attached' => Attached,
           x.pc \notin Scanning,
           x.pc \in Carrying => op[p].pc \in Carrying /\ x.ver = op[p].ver
    PROVE  Ages' /\ Scans'
<1>0. op \in [Procs -> OpT]
  BY Typed
<1>1. op'[p] = x
  BY <1>0
<1>2. \A v \in Nat : NotNewer(v) => NotNewer(v)'
  BY DEF NotNewer, Derived
<1>3. \A v \in Nat : Since(v) => EntrySince(v)' /\ OpSince(v, p)'
  BY <1>1 DEF EntrySince, Derived, Since, OpSince
<1>4. AgesEntry'
  BY <1>2, VersionNumbers DEF Ages, AgesEntry, NotNewer
<1>5. AgesOp(p)'
  BY <1>1, <1>2, VersionNumbers DEF Ages, AgesOp
<1> QED BY <1>3, <1>4, <1>5, AgesSolo

-----------------------------------------------------------------------------
(* The steps *)

(* A step of the process that is alone: what is to be shown of the others   *)
(* holds because they hold no lock.                                         *)
LEMMA SoloKeeps ==
    ASSUME NEW p \in Procs, Alone(p)', GroundEntry', GroundOp(p)',
           Attached' => JournalSlots' /\ JournalOp(p)',
           Attached' /\ asked' = TRUE => PinnedEntry' /\ PinnedOp(p)'
    PROVE  Ground' /\ JournalInv' /\ Pinned'
<1>1. Ground'
  BY GroundOne
<1>2. \A q \in Procs : /\ q # p => op'[q].pc \notin Exclusive
                       /\ load'[q].at \notin Verifying
  BY Steps DEF Alone
<1>3. \A q \in Procs : q # p => JournalOp(q)' /\ PinnedOp(q)'
  BY <1>2, Steps DEF JournalOp, PinnedOp
<1>4. \A q \in Procs : JournalLoad(q)' /\ PinnedLoad(q)'
  BY <1>2 DEF JournalLoad, PinnedLoad
<1>5. JournalInv'
  BY <1>3, <1>4 DEF JournalInv
<1>6. Pinned'
  BY <1>3, <1>4 DEF Pinned
<1> QED BY <1>1, <1>5, <1>6

(* The invariant's facts about one process, as a step starts from them *)
LEMMA EntryFacts ==
    ASSUME CacheTypeOK, EntryInv, NEW p \in Procs
    PROVE  /\ GroundEntry /\ GroundOp(p) /\ GroundLoad(p) /\ Ages /\ Scans
           /\ Attached => JournalSlots /\ JournalOp(p) /\ JournalLoad(p) /\ srcUp
           /\ Attached /\ asked = TRUE =>
                 /\ PinnedEntry /\ PinnedOp(p) /\ PinnedLoad(p)
                 /\ Read = "valid" /\ Journal = Hi
<1>1. GroundEntry /\ GroundOp(p) /\ GroundLoad(p) /\ Ages /\ Scans
  BY DEF EntryInv, Ground
<1>2. Attached => JournalSlots /\ JournalOp(p) /\ JournalLoad(p)
  BY DEF EntryInv, JournalInv
<1>3. Attached /\ asked = TRUE => PinnedEntry /\ PinnedOp(p) /\ PinnedLoad(p)
  BY DEF EntryInv, Pinned
<1>4. Attached => srcUp
  BY <1>1 DEF GroundEntry
<1>5. Attached /\ PinnedEntry => Read = "valid" /\ Journal = Hi
  BY <1>1, AttachedReads DEF PinnedEntry
<1> QED BY <1>1, <1>2, <1>3, <1>4, <1>5

LEMMA ReserveKeeps ==
    ASSUME CacheTypeOK, CacheInv, EntryInv, NEW p \in Procs, Reserve(p) PROVE EntryInv'
<1> USE DEF durable, source, ghosts, limits
<1>0. /\ GroundEntry /\ GroundOp(p) /\ op[p] \in OpT /\ Journal \in Record
      /\ receipt \in Record /\ op \in [Procs -> OpT] /\ CarriedPin \in BOOLEAN
      /\ Ages /\ Scans
  BY JournalTypes, Typed, EntryFacts DEF EntryTypes
<1>1. Alone(p) /\ load' = load
  BY AloneInside DEF Reserve, Enter
<1>2. PICK c \in {"reserving", "clearing for reserve"} :
         /\ op' = [op EXCEPT ![p] = At(c)]
         /\ c = "clearing for reserve" <=> Read = "evicted"
         /\ c = "reserving" => tomb = "none"
  <2>1. CASE Read = "evicted"
    BY <2>1 DEF Reserve, StartRemoval
  <2>2. CASE Read # "evicted"
    <3>1. op' = [op EXCEPT ![p] = At("reserving")] /\ (Read = "missing" \/ Read = "valid")
      BY <2>2 DEF Reserve
    <3> QED BY <2>2, <3>1, Reads
  <2> QED BY <2>1, <2>2
<1>3. Alone(p)' /\ op'[p] = At(c) /\ op'[p].pc = c
  BY <1>1, <1>2, AloneStays, OpRecords
<1>4. \/ /\ Read = "missing" \/ Read = "evicted" \/ (Read = "valid" /\ Journal.st = "int")
         /\ Hi' = Hi /\ Lo' = Lo
      \/ /\ Read = "valid" /\ Journal.st = "mat" /\ Hi'.st = "int" /\ Hi'.pin = Journal.pin
         /\ Lo' = Hi
  <2>1. /\ Interrupted(Journal) \in Record /\ Whole(Interrupted(Journal))
        /\ Interrupted(Journal).st = "int" /\ Interrupted(Journal).pin = Journal.pin
    BY <1>0, RecordTypes DEF Whole
  <2> QED BY <2>1, Rests, Written DEF Reserve, Stale
<1>5. UNCHANGED <<tomb, receipt, bundle, cached, source, ghosts, limits>>
  BY DEF Reserve
<1>6. GroundEntry'
  BY <1>0, <1>4, <1>5 DEF GroundEntry, Attached, Com
<1>7. c = "clearing for reserve" => tomb # "none"
  BY <1>2, Reads DEF Sanctioned
<1>8. GroundOp(p)'
  BY <1>0, <1>2, <1>3, <1>5, <1>7 DEF GroundOp, GroundEntry, OwnerSteps, Erasing, Carrying
<1>9. ASSUME Attached' PROVE JournalSlots' /\ JournalOp(p)'
  <2>1. Attached /\ JournalSlots
    BY <1>5, <1>9, EntryFacts DEF Attached
  <2>2. JournalSlots'
    BY <1>4, <1>5, <2>1 DEF JournalSlots, Decayed, Com, Sound, Unrotted, OnlyVersion
  <2>3. Read = "valid" => Journal \in {Hi, Lo}
    BY Reads
  <2>4. c = "reserving" => Read \in {"missing", "valid"}
    BY <1>2, <1>4
  <2>5. JournalOp(p)'
    BY <1>3, <1>4, <1>5, <2>1, <2>3, <2>4, Reads
    DEF JournalSlots, JournalOp, Com, Sound, OwnerSteps
  <2> QED BY <2>2, <2>5
<1>10. ASSUME Attached', asked' = TRUE PROVE PinnedEntry' /\ PinnedOp(p)'
  <2>1. PinnedEntry /\ Read = "valid" /\ Journal = Hi
    BY <1>5, <1>10, EntryFacts DEF Attached
  <2> QED BY <1>2, <1>3, <1>4, <1>5, <1>7, <2>1 DEF PinnedEntry, PinnedOp, Whole, Com, Erasing
<1>11. Ages' /\ Scans'
  BY <1>0, <1>2, <1>3, <1>4, <1>5, OpRecords, AgesKept
  DEF Derived, Com, Attached, Scanning, Carrying
<1> QED BY <1>3, <1>6, <1>8, <1>9, <1>10, <1>11, SoloKeeps DEF EntryInv

LEMMA ReserveRecordKeeps ==
    ASSUME CacheTypeOK, CacheInv, EntryInv, NEW p \in Procs, ReserveRecord(p) PROVE EntryInv'
<1> USE DEF durable, source, ghosts, limits
<1>0. /\ GroundEntry /\ GroundOp(p) /\ op[p] \in OpT /\ Journal \in Record
      /\ receipt \in Record /\ op \in [Procs -> OpT] /\ CarriedPin \in BOOLEAN
      /\ Ages /\ Scans
  BY JournalTypes, Typed, EntryFacts DEF EntryTypes
<1> DEFINE r == Materializing(p, CarriedPin)
<1>1. Alone(p) /\ load' = load
  BY AloneInside, Steps DEF ReserveRecord
<1>2. PICK c \in {"reserved", "idle"} : op' = [op EXCEPT ![p] = At(c)]
  BY DEF ReserveRecord, At, Idle
<1>3. Alone(p)' /\ op'[p] = At(c) /\ op'[p].pc = c
  BY <1>1, <1>2, AloneStays, OpRecords
<1>4. r \in Record /\ Whole(r) /\ r.st = "mat" /\ r.ses = p /\ r.pin = CarriedPin
  BY <1>0, RecordTypes DEF Whole, Materializing
<1>5. /\ UNCHANGED <<tomb, receipt, bundle, source, asked, limits>> /\ tomb = "none"
      /\ cached' = FALSE
  BY <1>0 DEF ReserveRecord, GroundOp
<1>6. \/ ~srcUp /\ UNCHANGED <<slots, top>> /\ condemned' = condemned
      \/ srcUp /\ WriteJournal(r) /\ condemned' = FALSE
  BY DEF ReserveRecord
<1> HIDE DEF r
<1>7. \/ ~srcUp /\ Hi' = Hi /\ Lo' = Lo
      \/ srcUp /\ Read = "valid" /\ Hi' = r /\ Lo' = Hi
      \/ /\ srcUp /\ Read # "valid"
         /\ \/ Hi' = r /\ Lo' \in {Hi, Lo} /\ ~Whole(Lo')
            \/ Hi' \in {Hi, Lo} /\ Whole(Hi') /\ Lo' = r
  BY <1>4, <1>6, Rests, Written
<1>8. GroundEntry'
  BY <1>0, <1>4, <1>5, <1>7 DEF GroundEntry, Attached, Com
<1>9. GroundOp(p)'
  BY <1>3, <1>5 DEF GroundOp, OwnerSteps, Erasing, Carrying
<1>10. ASSUME Attached' PROVE JournalSlots' /\ JournalOp(p)'
  <2>1. /\ Attached /\ JournalSlots /\ JournalOp(p) /\ srcUp /\ op[p].pc = "reserving"
        /\ "int" \in {Hi.st, Lo.st} => Read = "valid"
    BY <1>0, <1>5, <1>10, EntryFacts, AttachedReads DEF Attached, ReserveRecord
  <2>2. Unrotted => Hi' = r
    BY <1>7, <2>1 DEF JournalOp, Whole
  <2>3. Sound => Unrotted
    BY DEF Sound, Unrotted
  <2>4. JournalSlots'
    BY <1>4, <1>5, <1>7, <2>1, <2>2, <2>3
    DEF JournalSlots, Decayed, Com, Sound, Unrotted, OnlyVersion, Whole
  <2>5. Sound => ~Com(Lo')
    BY <1>4, <1>7, <2>1, <2>2, <2>3 DEF JournalOp, Com, Whole
  <2>6. JournalOp(p)'
    BY <1>3, <1>4, <1>5, <2>2, <2>5 DEF JournalOp, Sound, Unrotted, Com
  <2> QED BY <2>4, <2>6
<1>11. ASSUME Attached', asked' = TRUE PROVE PinnedEntry' /\ PinnedOp(p)'
  <2>1. PinnedEntry /\ Read = "valid" /\ Journal = Hi /\ srcUp
    BY <1>5, <1>11, EntryFacts DEF Attached
  <2>2. CarriedPin = TRUE
    BY <2>1 DEF CarriedPin, PinnedEntry
  <2> QED BY <1>3, <1>4, <1>5, <1>7, <2>1, <2>2 DEF PinnedEntry, PinnedOp, Whole, Com, Erasing
<1>12. Ages' /\ Scans'
  <2>1. Derived(Hi') /\ Derived(Lo')
    BY <1>4, <1>7 DEF Derived, Com
  <2>2. At(c).pc \notin Scanning /\ At(c).pc \notin Carrying
    BY OpRecords DEF Scanning, Carrying
  <2> QED BY <1>0, <1>2, <1>3, <1>5, <2>1, <2>2, AgesKept DEF Attached
<1> QED BY <1>3, <1>8, <1>9, <1>10, <1>11, <1>12, SoloKeeps DEF EntryInv

LEMMA PrepareKeeps ==
    ASSUME CacheTypeOK, CacheInv, EntryInv, NEW p \in Procs, Prepare(p) PROVE EntryInv'
<1> USE DEF durable, source, ghosts, limits
<1>0. /\ GroundEntry /\ GroundOp(p) /\ op[p] \in OpT /\ Journal \in Record
      /\ receipt \in Record /\ op \in [Procs -> OpT] /\ CarriedPin \in BOOLEAN
      /\ Ages /\ Scans
  BY JournalTypes, Typed, EntryFacts DEF EntryTypes
<1>1. Alone(p) /\ load' = load /\ tomb = "none"
  BY <1>0, AloneInside, Steps DEF Prepare, GroundOp
<1>2. PICK c \in {"copying", "clearing"} : /\ op' = [op EXCEPT ![p] = At(c)]
                                           /\ c = "copying" => bundle = Absent
  BY DEF Prepare
<1>3. Alone(p)' /\ op'[p] = At(c) /\ op'[p].pc = c
  BY <1>1, <1>2, AloneStays, OpRecords
<1>4. UNCHANGED <<durable, source, ghosts, limits>> /\ Hi' = Hi /\ Lo' = Lo
  BY Rests DEF Prepare
<1>5. op[p].pc = "reserved" /\ Journal.st = "mat"
  BY DEF Prepare, Owns
<1>6. GroundEntry'
  BY <1>0, <1>4 DEF GroundEntry, Attached, Com
<1>7. GroundOp(p)'
  BY <1>1, <1>2, <1>3, <1>4 DEF GroundOp, OwnerSteps, Erasing, Carrying
<1>8. ASSUME Attached' PROVE JournalSlots' /\ JournalOp(p)'
  <2>1. JournalSlots /\ JournalOp(p)
    BY <1>4, <1>8, EntryFacts DEF Attached
  <2>2. JournalSlots'
    BY <1>4, <2>1 DEF JournalSlots, Decayed, Com, Sound, Unrotted, OnlyVersion
  <2> QED BY <1>2, <1>3, <1>4, <1>5, <2>1, <2>2 DEF JournalOp, Com, Sound, Unrotted, OwnerSteps
<1>9. ASSUME Attached', asked' = TRUE PROVE PinnedEntry' /\ PinnedOp(p)'
  <2>1. PinnedEntry /\ Journal = Hi
    BY <1>4, <1>9, EntryFacts DEF Attached
  <2> QED BY <1>2, <1>3, <1>4, <1>5, <2>1 DEF PinnedEntry, PinnedOp, Whole, Com, Erasing
<1>10. Ages' /\ Scans'
  BY <1>0, <1>2, <1>3, <1>4, OpRecords, AgesKept DEF Derived, Com, Attached, Scanning, Carrying
<1> QED BY <1>3, <1>6, <1>7, <1>8, <1>9, <1>10, SoloKeeps DEF EntryInv

LEMMA ClearBundleKeeps ==
    ASSUME CacheTypeOK, CacheInv, EntryInv, NEW p \in Procs, ClearBundle(p) PROVE EntryInv'
<1> USE DEF durable, source, ghosts, limits
<1>0. /\ GroundEntry /\ GroundOp(p) /\ op[p] \in OpT /\ Journal \in Record
      /\ receipt \in Record /\ op \in [Procs -> OpT] /\ CarriedPin \in BOOLEAN
      /\ Ages /\ Scans
  BY JournalTypes, Typed, EntryFacts DEF EntryTypes
<1>1. Alone(p) /\ load' = load /\ tomb = "none" /\ op[p].pc \in {"clearing", "undoing"}
  BY <1>0, AloneInside, Steps DEF ClearBundle, GroundOp
<1>2. PICK x : /\ op' = [op EXCEPT ![p] = x]
               /\ x.pc \in {"copying", "clearing", "undoing"}
               /\ x.pc = "copying" => bundle' = Absent
  <2>1. CASE op[p].pc = "clearing" /\ bundle = Partial
    BY <2>1, OpRecords DEF ClearBundle, UnlinkBundle
  <2>2. CASE ~(op[p].pc = "clearing" /\ bundle = Partial)
    <3>1. op' = [op EXCEPT ![p] = op[p]]
      BY <1>0, <2>2 DEF ClearBundle
    <3> QED BY <3>1 DEF ClearBundle
  <2> QED BY <2>1, <2>2
<1>3. Alone(p)' /\ op'[p] = x
  BY <1>1, <1>2, AloneStays
<1>4. /\ UNCHANGED <<slots, top, tomb, receipt, source, ghosts, limits>>
      /\ Hi' = Hi /\ Lo' = Lo /\ cached' = FALSE /\ bundle' \notin Versions
  BY SMTT(30), Rests DEF ClearBundle, UnlinkBundle, Absent, Partial, Versions
<1>6. GroundEntry'
  BY <1>0, <1>4 DEF GroundEntry, Attached, Com
<1>7. GroundOp(p)'
  BY <1>1, <1>2, <1>3, <1>4 DEF GroundOp, OwnerSteps, Erasing, Carrying
<1>8. ASSUME Attached' PROVE JournalSlots' /\ JournalOp(p)'
  <2>1. JournalSlots /\ JournalOp(p)
    BY <1>4, <1>8, EntryFacts DEF Attached
  <2>2. JournalSlots'
    BY <1>4, <2>1 DEF JournalSlots, Decayed, Com, Sound, Unrotted, OnlyVersion
  <2> QED BY <1>1, <1>2, <1>3, <1>4, <2>1, <2>2 DEF JournalOp, Com, Sound, Unrotted, OwnerSteps
<1>9. ASSUME Attached', asked' = TRUE PROVE PinnedEntry' /\ PinnedOp(p)'
  <2>1. PinnedEntry /\ PinnedOp(p)
    BY <1>4, <1>9, EntryFacts DEF Attached
  <2> QED BY <1>1, <1>2, <1>3, <1>4, <2>1 DEF PinnedEntry, PinnedOp, Whole, Com, Erasing
<1>10. Ages' /\ Scans'
  BY <1>0, <1>2, <1>3, <1>4, AgesKept DEF Derived, Com, Attached, Scanning, Carrying
<1> QED BY <1>3, <1>6, <1>7, <1>8, <1>9, <1>10, SoloKeeps DEF EntryInv

LEMMA CopyKeeps ==
    ASSUME CacheTypeOK, CacheInv, EntryInv, NEW p \in Procs, Copy(p) PROVE EntryInv'
<1> USE DEF durable, source, ghosts, limits
<1>0. /\ GroundEntry /\ GroundOp(p) /\ op[p] \in OpT /\ Journal \in Record
      /\ receipt \in Record /\ op \in [Procs -> OpT] /\ CarriedPin \in BOOLEAN
      /\ Ages /\ Scans
  BY JournalTypes, Typed, EntryFacts DEF EntryTypes
<1>1. Alone(p) /\ load' = load /\ tomb = "none" /\ bundle = Absent /\ op[p].pc = "copying"
  BY <1>0, AloneInside, Steps DEF Copy, GroundOp
<1>2. op' = [op EXCEPT ![p] = [At("staged") EXCEPT !.ver = srcVer]]
  BY DEF Copy
<1>3. Alone(p)' /\ op'[p].pc = "staged" /\ op'[p].ver = srcVer /\ srcVer \in Versions
  <2>1. srcVer \in 0..MaxVersion /\ srcVer \in Versions /\ "staged" \in OpSteps
    BY SourceTypes, StepNames
  <2> DEFINE x == [At("staged") EXCEPT !.ver = srcVer]
  <2>2. x.pc = "staged" /\ x.ver = srcVer
    BY <2>1, OpTypes
  <2>3. Alone(p)' /\ op'[p] = x
    BY <1>1, <1>2, AloneStays
  <2> QED BY <2>1, <2>2, <2>3
<1>4. UNCHANGED <<durable, source, ghosts, limits>> /\ Hi' = Hi /\ Lo' = Lo
  BY Rests DEF Copy
<1>6. GroundEntry'
  BY <1>0, <1>4 DEF GroundEntry, Attached, Com
<1>7. GroundOp(p)'
  BY <1>1, <1>3, <1>4 DEF GroundOp, OwnerSteps, Erasing, Carrying
<1>8. ASSUME Attached' PROVE JournalSlots' /\ JournalOp(p)'
  <2>1. JournalSlots /\ JournalOp(p)
    BY <1>4, <1>8, EntryFacts DEF Attached
  <2>2. JournalSlots'
    BY <1>4, <2>1 DEF JournalSlots, Decayed, Com, Sound, Unrotted, OnlyVersion
  <2> QED BY <1>1, <1>3, <1>4, <2>1, <2>2 DEF JournalOp, Com, Sound, Unrotted, OwnerSteps
<1>9. ASSUME Attached', asked' = TRUE PROVE PinnedEntry' /\ PinnedOp(p)'
  <2>1. PinnedEntry
    BY <1>4, <1>9, EntryFacts DEF Attached
  <2> QED BY <1>3, <1>4, <2>1 DEF PinnedEntry, PinnedOp, Whole, Com, Erasing
<1>10. Ages' /\ Scans'
  <2>1. AgesEntry' /\ AgesOp(p)'
    BY SMTT(30), <1>0, <1>3, <1>4, VersionNumbers DEF Ages, AgesEntry, AgesOp, NotNewer, Com
  <2>2. \A v \in Nat : v <= srcVer /\ Since(v) => EntrySince(v)' /\ OpSince(v, p)'
    BY <1>3, <1>4 DEF Since, EntrySince, OpSince, Com
  <2>3. op' = [op EXCEPT ![p] = op'[p]] /\ op'[p].pc \notin Scanning
    BY <1>0, <1>2, <1>3 DEF Scanning
  <2> QED BY <1>0, <1>3, <1>4, <2>1, <2>2, <2>3, AgesSolo DEF Attached
<1> QED BY <1>3, <1>6, <1>7, <1>8, <1>9, <1>10, SoloKeeps DEF EntryInv

LEMMA PublishKeeps ==
    ASSUME CacheTypeOK, CacheInv, EntryInv, NEW p \in Procs, Publish(p) PROVE EntryInv'
<1> USE DEF durable, source, ghosts, limits
<1>0. /\ GroundEntry /\ GroundOp(p) /\ op[p] \in OpT /\ Journal \in Record
      /\ receipt \in Record /\ op \in [Procs -> OpT] /\ CarriedPin \in BOOLEAN
      /\ Ages /\ Scans
  BY JournalTypes, Typed, EntryFacts DEF EntryTypes
<1>1. /\ Alone(p) /\ load' = load /\ tomb = "none" /\ op[p].ver \in Versions
      /\ op[p].pc = "staged"
  BY <1>0, AloneInside, Steps DEF Publish, GroundOp, Carrying
<1>2. op' = [op EXCEPT ![p] = [op[p] EXCEPT !.pc = "renamed"]]
  BY DEF Publish
<1>3. Alone(p)' /\ op'[p].pc = "renamed" /\ op'[p].ver = op[p].ver
  BY <1>1, <1>2, AloneMoves, StepNames
<1>4. /\ UNCHANGED <<slots, top, tomb, receipt, source, ghosts, limits>>
      /\ Hi' = Hi /\ Lo' = Lo /\ bundle' = op[p].ver /\ cached' = FALSE
  BY Rests DEF Publish
<1>6. GroundEntry'
  BY <1>0, <1>4 DEF GroundEntry, Attached, Com
<1>7. GroundOp(p)'
  BY <1>1, <1>3, <1>4 DEF GroundOp, OwnerSteps, Erasing, Carrying
<1>8. ASSUME Attached' PROVE JournalSlots' /\ JournalOp(p)'
  <2>1. JournalSlots /\ JournalOp(p)
    BY <1>4, <1>8, EntryFacts DEF Attached
  <2>2. Sound => ~Com(Hi) /\ ~Com(Lo)
    BY <1>1, <2>1 DEF JournalOp, Com, Sound, Unrotted, OwnerSteps
  <2>3. JournalSlots'
    BY <1>1, <1>4, <2>1, <2>2 DEF JournalSlots, Decayed, Com, Sound, Unrotted, OnlyVersion
  <2> QED BY <1>1, <1>3, <1>4, <2>1, <2>3 DEF JournalOp, Com, Sound, Unrotted, OwnerSteps
<1>9. ASSUME Attached', asked' = TRUE PROVE PinnedEntry' /\ PinnedOp(p)'
  <2>1. PinnedEntry
    BY <1>4, <1>9, EntryFacts DEF Attached
  <2> QED BY <1>1, <1>3, <1>4, <2>1 DEF PinnedEntry, PinnedOp, Whole, Com, Erasing, Sized
<1>10. Ages' /\ Scans'
  <2>1. op' = [op EXCEPT ![p] = op'[p]]
    BY <1>0, <1>2
  <2> QED BY <1>0, <1>1, <1>3, <1>4, <2>1, AgesKept
      DEF Derived, Com, Attached, Scanning, Carrying
<1> QED BY <1>3, <1>6, <1>7, <1>8, <1>9, <1>10, SoloKeeps DEF EntryInv

LEMMA RecordReceiptKeeps ==
    ASSUME CacheTypeOK, CacheInv, EntryInv, NEW p \in Procs, RecordReceipt(p) PROVE EntryInv'
<1> USE DEF durable, source, ghosts, limits
<1>0. /\ GroundEntry /\ GroundOp(p) /\ op[p] \in OpT /\ Journal \in Record
      /\ receipt \in Record /\ op \in [Procs -> OpT] /\ CarriedPin \in BOOLEAN
      /\ Ages /\ Scans
  BY JournalTypes, Typed, EntryFacts DEF EntryTypes
<1>1. /\ Alone(p) /\ load' = load /\ tomb = "none" /\ op[p].ver \in Versions
      /\ op[p].pc = "renamed" /\ Read = "valid" /\ Journal.st = "mat"
  BY <1>0, AloneInside, Steps DEF RecordReceipt, GroundOp, Carrying, Owns
<1>2. op' = [op EXCEPT ![p] = [op[p] EXCEPT !.pc = "receipted"]]
  BY DEF RecordReceipt
<1>3. Alone(p)' /\ op'[p].pc = "receipted" /\ op'[p].ver = op[p].ver
  BY <1>1, <1>2, AloneMoves, StepNames
<1>4. /\ UNCHANGED <<slots, top, tomb, bundle, source, ghosts, limits>>
      /\ Hi' = Hi /\ Lo' = Lo /\ bundle = op[p].ver
  BY Rests DEF RecordReceipt
<1>5. /\ receipt'.st = "com" /\ receipt'.ver = op[p].ver /\ receipt'.pin = Journal.pin
      /\ cached' = FALSE
  BY SMTT(30), <1>0, RecordTypes DEF RecordReceipt, OpT
<1>6. GroundEntry'
  BY <1>0, <1>1, <1>4, <1>5 DEF GroundEntry, Attached, Com
<1>7. GroundOp(p)'
  BY <1>1, <1>3, <1>4, <1>5 DEF GroundOp, OwnerSteps, Erasing, Carrying, Com
<1>8. ASSUME Attached' PROVE JournalSlots' /\ JournalOp(p)'
  <2>1. JournalSlots /\ JournalOp(p) /\ Attached
    BY <1>4, <1>8, EntryFacts DEF Attached
  <2>2. Hi.st = "mat"
    <3>1. bundle \in Sized
      BY <1>1, <1>4 DEF Sized
    <3> QED BY <1>0, <1>1, <2>1, <3>1, AttachedReads
  <2>3. JournalSlots'
    BY <1>4, <1>5, <2>1, <2>2 DEF JournalSlots, Decayed, Com, Sound, Unrotted, OnlyVersion
  <2> QED BY <1>1, <1>3, <1>4, <2>1, <2>2, <2>3
      DEF JournalOp, Com, Sound, Unrotted, OwnerSteps
<1>9. ASSUME Attached', asked' = TRUE PROVE PinnedEntry' /\ PinnedOp(p)'
  <2>1. PinnedEntry /\ Journal = Hi
    BY <1>4, <1>9, EntryFacts DEF Attached
  <2> QED BY <1>3, <1>4, <1>5, <2>1 DEF PinnedEntry, PinnedOp, Whole, Com, Erasing
<1>10. Ages' /\ Scans'
  <2>0. op[p].pc \in Carrying
    BY <1>1 DEF Carrying
  <2>1. AgesEntry' /\ AgesOp(p)'
    BY <1>0, <1>3, <1>4, <1>5, <2>0, VersionNumbers DEF Ages, AgesEntry, AgesOp, NotNewer, Com
  <2>2. \A v \in Nat : v <= srcVer /\ Since(v) => EntrySince(v)' /\ OpSince(v, p)'
    BY <1>3, <1>4, <1>5, <2>0 DEF Since, EntrySince, OpSince, Com
  <2>3. op' = [op EXCEPT ![p] = op'[p]] /\ op'[p].pc \notin Scanning
    BY <1>0, <1>2, <1>3 DEF Scanning
  <2> QED BY <1>0, <1>3, <1>4, <2>1, <2>2, <2>3, AgesSolo DEF Attached
<1> QED BY <1>3, <1>6, <1>7, <1>8, <1>9, <1>10, SoloKeeps DEF EntryInv

LEMMA RecordCompleteKeeps ==
    ASSUME CacheTypeOK, CacheInv, EntryInv, NEW p \in Procs, RecordComplete(p) PROVE EntryInv'
<1> USE DEF durable, source, ghosts, limits
<1>0. /\ GroundEntry /\ GroundOp(p) /\ op[p] \in OpT /\ Journal \in Record
      /\ receipt \in Record /\ op \in [Procs -> OpT] /\ CarriedPin \in BOOLEAN
      /\ Ages /\ Scans
  BY JournalTypes, Typed, EntryFacts DEF EntryTypes
<1>1. Alone(p) /\ load' = load /\ op[p].pc = "receipted" /\ tomb = "none"
  BY <1>0, AloneInside, Steps DEF RecordComplete, GroundOp
<1>2. op' = [op EXCEPT ![p] = Idle]
  BY DEF RecordComplete
<1>3. Alone(p)' /\ op'[p] = Idle /\ op'[p].pc = "idle"
  BY <1>1, <1>2, AloneStays, OpTypes
<1>4. UNCHANGED <<tomb, bundle, receipt, cached, source, ghosts, limits>>
  BY DEF RecordComplete
<1>5. /\ Com(receipt) /\ receipt.ver = op[p].ver /\ bundle \in {op[p].ver, Altered}
      /\ op[p].ver \in Versions /\ cached = FALSE
  BY <1>0, <1>1, Typed DEF GroundOp, Carrying, EntryTypes
<1>6. /\ Read = "valid" => Hi' = receipt /\ Lo' = Hi
      /\ Read # "valid" => \/ Hi' = receipt /\ Lo' \in {Hi, Lo} /\ ~Whole(Lo')
                           \/ Hi' \in {Hi, Lo} /\ Whole(Hi') /\ Lo' = receipt
  BY <1>0, <1>5, Written DEF RecordComplete, Whole, Com
<1>7. GroundEntry'
  BY <1>0, <1>4, <1>5, <1>6 DEF GroundEntry, Attached, Com
<1>8. GroundOp(p)'
  BY <1>3 DEF GroundOp, OwnerSteps, Erasing, Carrying
<1>9. ASSUME Attached' PROVE JournalSlots' /\ JournalOp(p)'
  <2>1. /\ JournalSlots /\ JournalOp(p) /\ Attached
        /\ Read # "valid" => ~Whole(Hi) /\ ~Whole(Lo)
    <3>1. bundle \in Sized
      BY <1>5 DEF Sized
    <3> QED BY <1>0, <1>1, <1>4, <1>9, <3>1, EntryFacts, AttachedReads DEF Attached
  <2>2. Hi' = receipt /\ (Lo' = Hi \/ ~Whole(Lo'))
    BY <1>6, <2>1
  <2>3. ~Com(Lo') /\ (Sound => Lo'.st # "int")
    BY <1>1, <1>6, <2>1, <2>2
    DEF JournalOp, Com, Whole, Sound, Unrotted, OwnerSteps, NoComplete
  <2>4. bundle \in Versions => bundle = op[p].ver
    BY SMTT(30), <1>5 DEF Versions, Altered
  <2>5. JournalSlots'
    BY <1>1, <1>4, <1>5, <2>2, <2>3, <2>4
    DEF JournalSlots, Decayed, Com, Sound, Unrotted, OnlyVersion
  <2> QED BY <1>3, <2>5 DEF JournalOp, OwnerSteps
<1>10. ASSUME Attached', asked' = TRUE PROVE PinnedEntry' /\ PinnedOp(p)'
  <2>1. PinnedEntry /\ PinnedOp(p) /\ Read = "valid"
    BY <1>4, <1>10, EntryFacts DEF Attached
  <2> QED BY <1>1, <1>3, <1>4, <1>5, <1>6, <2>1
      DEF PinnedEntry, PinnedOp, Whole, Com, Erasing, Sized
<1>11. Ages' /\ Scans'
  <2>1. AgesEntry' /\ AgesOp(p)'
    <3>1. receipt.ver <= receipt.ver
      BY SMTT(30), VersionNumbers
    <3>2. AgesEntry /\ Hi' \in {Hi, Lo, receipt} /\ Lo' \in {Hi, Lo, receipt}
      BY <1>0, <1>6 DEF Ages
    <3>3. AgesEntry'
      BY <1>4, <1>5, <3>1, <3>2 DEF AgesEntry, NotNewer, Com
    <3>4. AgesOp(p)'
      BY <1>3 DEF AgesOp, Carrying
    <3> QED BY <3>3, <3>4
  <2>2. \A v \in Nat : v <= srcVer /\ Since(v) => EntrySince(v)' /\ OpSince(v, p)'
    BY <1>3, <1>4, <1>6 DEF Since, EntrySince, OpSince, Com, Carrying
  <2>3. Idle.pc \notin Scanning
    BY OpTypes DEF Scanning
  <2> QED BY <1>0, <1>2, <1>3, <1>4, <2>1, <2>2, <2>3, AgesSolo DEF Attached
<1> QED BY <1>3, <1>7, <1>8, <1>9, <1>10, <1>11, SoloKeeps DEF EntryInv

LEMMA RollBackKeeps ==
    ASSUME CacheTypeOK, CacheInv, EntryInv, NEW p \in Procs, RollBack(p) PROVE EntryInv'
<1> USE DEF durable, source, ghosts, limits
<1>0. /\ GroundEntry /\ GroundOp(p) /\ op[p] \in OpT /\ Journal \in Record
      /\ receipt \in Record /\ op \in [Procs -> OpT] /\ CarriedPin \in BOOLEAN
      /\ Ages /\ Scans
  BY JournalTypes, Typed, EntryFacts DEF EntryTypes
<1>1. /\ Alone(p) /\ load' = load /\ tomb = "none"
      /\ op[p].pc = "renamed" /\ Journal.st = "mat"
  BY <1>0, AloneInside, Steps DEF RollBack, GroundOp, Owns
<1>2. op' = [op EXCEPT ![p] = At("undoing")]
  BY DEF RollBack
<1>3. Alone(p)' /\ op'[p] = At("undoing") /\ op'[p].pc = "undoing"
  BY <1>1, <1>2, AloneStays, OpRecords
<1>4. UNCHANGED <<durable, source, ghosts, limits>> /\ Hi' = Hi /\ Lo' = Lo
  BY Rests DEF RollBack
<1>6. GroundEntry'
  BY <1>0, <1>4 DEF GroundEntry, Attached, Com
<1>7. GroundOp(p)'
  BY <1>1, <1>3, <1>4 DEF GroundOp, OwnerSteps, Erasing, Carrying
<1>8. ASSUME Attached' PROVE JournalSlots' /\ JournalOp(p)'
  <2>1. JournalSlots /\ JournalOp(p)
    BY <1>4, <1>8, EntryFacts DEF Attached
  <2>2. JournalSlots'
    BY <1>4, <2>1 DEF JournalSlots, Decayed, Com, Sound, Unrotted, OnlyVersion
  <2> QED BY <1>1, <1>3, <1>4, <2>1, <2>2 DEF JournalOp, Com, Sound, Unrotted, OwnerSteps
<1>9. ASSUME Attached', asked' = TRUE PROVE PinnedEntry' /\ PinnedOp(p)'
  <2>1. PinnedEntry /\ Journal = Hi
    BY <1>4, <1>9, EntryFacts DEF Attached
  <2> QED BY <1>1, <1>3, <1>4, <2>1 DEF PinnedEntry, PinnedOp, Whole, Com, Erasing
<1>10. Ages' /\ Scans'
  BY <1>0, <1>2, <1>3, <1>4, OpRecords, AgesKept DEF Derived, Com, Attached, Scanning, Carrying
<1> QED BY <1>3, <1>6, <1>7, <1>8, <1>9, <1>10, SoloKeeps DEF EntryInv

LEMMA AbandonKeeps ==
    ASSUME CacheTypeOK, CacheInv, EntryInv, NEW p \in Procs, Abandon(p) PROVE EntryInv'
<1> USE DEF durable, source, ghosts, limits
<1>0. /\ GroundEntry /\ GroundOp(p) /\ op[p] \in OpT /\ Journal \in Record
      /\ receipt \in Record /\ op \in [Procs -> OpT] /\ CarriedPin \in BOOLEAN
      /\ Ages /\ Scans
  BY JournalTypes, Typed, EntryFacts DEF EntryTypes
<1>1. Alone(p) /\ load' = load /\ tomb = "none"
  BY <1>0, AloneInside, Steps DEF Abandon, GroundOp
<1>2. op' = [op EXCEPT ![p] = Idle]
  BY DEF Abandon
<1>3. Alone(p)' /\ op'[p] = Idle /\ op'[p].pc = "idle"
  BY <1>1, <1>2, AloneStays, OpTypes
<1>4. UNCHANGED <<tomb, bundle, receipt, cached, source, ghosts, limits>>
  BY DEF Abandon
<1>5. \/ Hi' = Hi /\ Lo' = Lo
      \/ Read = "valid" /\ Hi'.st = "int" /\ Hi'.pin = Journal.pin /\ Lo' = Hi
  <2>1. /\ Interrupted(Journal) \in Record /\ Whole(Interrupted(Journal))
        /\ Interrupted(Journal).st = "int" /\ Interrupted(Journal).pin = Journal.pin
    BY <1>0, RecordTypes DEF Whole
  <2> QED BY <2>1, Rests, Written DEF Abandon, Owns
<1>6. GroundEntry'
  BY <1>0, <1>4, <1>5 DEF GroundEntry, Attached, Com
<1>7. GroundOp(p)'
  BY <1>3 DEF GroundOp, OwnerSteps, Erasing, Carrying
<1>8. ASSUME Attached' PROVE JournalSlots' /\ JournalOp(p)'
  <2>1. JournalSlots
    BY <1>4, <1>8, EntryFacts DEF Attached
  <2>2. JournalSlots'
    BY <1>4, <1>5, <2>1 DEF JournalSlots, Decayed, Com, Sound, Unrotted, OnlyVersion
  <2> QED BY <1>3, <2>2 DEF JournalOp, OwnerSteps
<1>9. ASSUME Attached', asked' = TRUE PROVE PinnedEntry' /\ PinnedOp(p)'
  <2>1. PinnedEntry /\ Journal = Hi
    BY <1>4, <1>9, EntryFacts DEF Attached
  <2> QED BY <1>3, <1>4, <1>5, <2>1 DEF PinnedEntry, PinnedOp, Whole, Com, Erasing
<1>10. Ages' /\ Scans'
  <2>1. Derived(Hi') /\ Derived(Lo')
    BY <1>5 DEF Derived, Com
  <2>2. Idle.pc \notin Scanning /\ Idle.pc \notin Carrying
    BY OpTypes DEF Scanning, Carrying
  <2> QED BY <1>0, <1>2, <1>3, <1>4, <2>1, <2>2, AgesKept DEF Attached
<1> QED BY <1>3, <1>6, <1>7, <1>8, <1>9, <1>10, SoloKeeps DEF EntryInv

LEMMA MaterializeKeeps ==
    ASSUME CacheTypeOK, CacheInv, EntryInv, NEW p \in Procs, Materialize(p) PROVE EntryInv'
BY ReserveKeeps, ReserveRecordKeeps, PrepareKeeps, ClearBundleKeeps, CopyKeeps,
   PublishKeeps, RecordReceiptKeeps, RecordCompleteKeeps, RollBackKeeps, AbandonKeeps DEF
   Materialize

(* A removal that starts or resumes *)
LEMMA CondemnKeeps ==
    ASSUME CacheTypeOK, CacheInv, EntryInv, NEW p \in Procs, LockFree,
           NEW cause \in Sanctioned, Condemn(p, cause),
           cause = "auto" => Read = "valid" /\ Journal.pin # TRUE
    PROVE  EntryInv'
<1> USE DEF source, limits
<1>0. GroundEntry /\ op \in [Procs -> OpT] /\ Ages /\ Scans /\ asked \in BOOLEAN
  BY Typed, EntryFacts DEF EntryTypes
<1>1. Alone(p) /\ load' = load /\ op' = [op EXCEPT ![p] = At("removing")]
  BY AloneInside DEF Condemn, StartRemoval
<1>2. Alone(p)' /\ op'[p] = At("removing") /\ op'[p].pc = "removing"
  BY <1>1, AloneStays, OpRecords
<1>3. /\ UNCHANGED <<slots, top, bundle, receipt, cached, source, limits>>
      /\ Hi' = Hi /\ Lo' = Lo /\ condemned' = TRUE /\ tomb' = cause
      /\ asked' = (asked /\ cause = "auto")
  BY Rests DEF Condemn
<1>4. tomb' # "bad"
  BY <1>3 DEF Sanctioned
<1>5. GroundEntry'
  BY <1>0, <1>3, <1>4 DEF GroundEntry, Attached, Com
<1>6. GroundOp(p)'
  BY <1>2, <1>3 DEF GroundOp, OwnerSteps, Erasing, Carrying
<1>7. ASSUME Attached' PROVE JournalSlots' /\ JournalOp(p)'
  <2>1. JournalSlots
    BY <1>3, <1>7, EntryFacts DEF Attached
  <2>2. JournalSlots'
    BY <1>3, <1>4, <2>1 DEF JournalSlots, Decayed, Com, Sound, Unrotted, OnlyVersion
  <2> QED BY <1>2, <2>2 DEF JournalOp, OwnerSteps
<1>8. Attached' => asked' # TRUE
  <2>1. Attached /\ asked = TRUE => Journal = Hi /\ Hi.pin = TRUE
    BY EntryFacts DEF PinnedEntry
  <2>2. Attached' => Attached
    BY <1>3 DEF Attached
  <2> QED BY <1>0, <1>3, <2>1, <2>2
<1>9. Ages' /\ Scans'
  BY <1>0, <1>1, <1>2, <1>3, OpRecords, AgesKept DEF Derived, Com, Attached, Scanning, Carrying
<1> QED BY <1>2, <1>5, <1>6, <1>7, <1>8, <1>9, SoloKeeps DEF EntryInv

LEMMA ResumeKeeps ==
    ASSUME CacheTypeOK, CacheInv, EntryInv, NEW p \in Procs, LockFree, Read = "evicted",
           StartRemoval(p, "idle"), UNCHANGED <<load, durable, source, ghosts, limits>>
    PROVE  EntryInv'
<1> USE DEF durable, source, ghosts, limits
<1>0. GroundEntry /\ op \in [Procs -> OpT] /\ Ages /\ Scans /\ condemned
  <2>1. tomb # "none"
    BY Reads DEF Sanctioned
  <2> QED BY <2>1, Typed, EntryFacts DEF GroundEntry
<1>1. Alone(p) /\ load' = load /\ op' = [op EXCEPT ![p] = At("removing")]
  BY AloneInside DEF StartRemoval
<1>2. Alone(p)' /\ op'[p] = At("removing") /\ op'[p].pc = "removing"
  BY <1>1, AloneStays, OpRecords
<1>3. UNCHANGED <<durable, source, ghosts, limits>> /\ Hi' = Hi /\ Lo' = Lo
  BY Rests
<1>5. GroundEntry'
  BY SMTT(30), <1>0, <1>3 DEF GroundEntry, Attached, Com
<1>6. GroundOp(p)'
  BY SMTT(30), <1>0, <1>2, <1>3 DEF GroundOp, OwnerSteps, Erasing, Carrying
<1>7. ASSUME Attached' PROVE JournalSlots' /\ JournalOp(p)'
  <2>1. JournalSlots
    BY <1>3, <1>7, EntryFacts DEF Attached
  <2>2. JournalSlots'
    BY SMTT(30), <1>3, <2>1 DEF JournalSlots, Decayed, Com, Sound, Unrotted, OnlyVersion
  <2> QED BY <1>2, <2>2 DEF JournalOp, OwnerSteps
<1>8. Attached' => asked' # TRUE
  BY <1>3, EntryFacts DEF Attached
<1>9. Ages' /\ Scans'
  BY <1>0, <1>1, <1>2, <1>3, OpRecords, AgesKept DEF Derived, Com, Attached, Scanning, Carrying
<1> QED BY <1>2, <1>5, <1>6, <1>7, <1>8, <1>9, SoloKeeps DEF EntryInv

LEMMA RemoveEntryKeeps ==
    ASSUME CacheTypeOK, CacheInv, EntryInv, NEW p \in Procs, RemoveEntry(p) PROVE EntryInv'
<1> USE DEF durable, source, ghosts, limits
<1>0. /\ GroundEntry /\ GroundOp(p) /\ op \in [Procs -> OpT] /\ Ages /\ Scans
      /\ NoRecord \in Record /\ ~Whole(NoRecord) /\ NoRecord.st = "none"
  BY Typed, EntryFacts, RecordTypes DEF NoRecord, Whole
<1>1. LockFree
  BY DEF RemoveEntry, Enter
<1>2. CASE Condemn(p, "manual")
  BY <1>1, <1>2, CondemnKeeps DEF Sanctioned
<1>3. CASE /\ Read = "evicted" /\ StartRemoval(p, "idle")
           /\ UNCHANGED <<load, durable, source, ghosts, limits>>
  BY <1>1, <1>3, ResumeKeeps
<1> QED BY <1>2, <1>3 DEF RemoveEntry

LEMMA ReconcileRemovedSourceKeeps ==
    ASSUME CacheTypeOK, CacheInv, EntryInv, NEW p \in Procs, ReconcileRemovedSource(p) PROVE EntryInv'
<1> USE DEF durable, source, ghosts, limits
<1>0. /\ GroundEntry /\ GroundOp(p) /\ op \in [Procs -> OpT] /\ Ages /\ Scans
      /\ NoRecord \in Record /\ ~Whole(NoRecord) /\ NoRecord.st = "none"
  BY Typed, EntryFacts, RecordTypes DEF NoRecord, Whole
<1>1. LockFree /\ Condemn(p, "source")
  BY DEF ReconcileRemovedSource, Enter
<1> QED BY <1>1, CondemnKeeps DEF Sanctioned

LEMMA UnlinkKeeps ==
    ASSUME CacheTypeOK, CacheInv, EntryInv, NEW p \in Procs, Unlink(p) PROVE EntryInv'
<1> USE DEF durable, source, ghosts, limits
<1>0. /\ GroundEntry /\ GroundOp(p) /\ op \in [Procs -> OpT] /\ Ages /\ Scans
      /\ NoRecord \in Record /\ ~Whole(NoRecord) /\ NoRecord.st = "none"
  BY Typed, EntryFacts, RecordTypes DEF NoRecord, Whole
<1>1. Alone(p) /\ load' = load /\ op[p].pc \in Erasing /\ condemned
  BY <1>0, AloneInside, Steps DEF Unlink, GroundOp, Erasing
<1>2. op' = [op EXCEPT ![p] = op[p]]
  BY <1>0 DEF Unlink
<1>3. Alone(p)' /\ op'[p] = op[p]
  BY <1>1, <1>2, AloneStays
<1>4. UNCHANGED <<source, ghosts, limits>>
  BY DEF Unlink
<1>5. \/ Hi' = Hi /\ Lo' = Lo
      \/ \E o \in {Hi, Lo} : \/ Hi' = o /\ Lo' = NoRecord
                             \/ Hi' = NoRecord /\ Lo' = o /\ ~Whole(o)
  <2>1. UNCHANGED <<slots, top>> => Hi' = Hi /\ Lo' = Lo
    BY Rests
  <2>2. ASSUME NEW i \in 0..1, UnlinkSlot(i)
        PROVE  \E o \in {Hi, Lo} : \/ Hi' = o /\ Lo' = NoRecord
                                   \/ Hi' = NoRecord /\ Lo' = o /\ ~Whole(o)
    BY <1>0, <2>2, SlotLost DEF UnlinkSlot
  <2> QED BY <2>1, <2>2 DEF Unlink, UnlinkBundle, UnlinkTomb, UnlinkReceipt
<1>6. /\ tomb' = tomb \/ tomb' = "none"
      /\ receipt' = receipt \/ receipt' = NoRecord
      /\ \/ bundle' = bundle /\ cached' = cached
         \/ bundle' \notin Versions /\ cached' = FALSE
  <2>1. Absent \notin Versions /\ Partial \notin Versions
    BY SMTT(30), CacheAssumption DEF Absent, Partial, Versions
  <2>2. CASE UnlinkBundle
    BY <2>1, <2>2 DEF UnlinkBundle
  <2>3. CASE UnlinkTomb \/ UnlinkReceipt \/ \E i \in 0..1 : UnlinkSlot(i)
    BY <2>3 DEF UnlinkTomb, UnlinkReceipt, UnlinkSlot
  <2> QED BY <2>2, <2>3 DEF Unlink
<1>7. GroundEntry'
  BY <1>0, <1>1, <1>4, <1>5, <1>6 DEF GroundEntry, Attached, Com
<1>8. GroundOp(p)'
  BY <1>1, <1>3, <1>4 DEF GroundOp, OwnerSteps, Erasing, Carrying
<1>9. ASSUME Attached' PROVE JournalSlots' /\ JournalOp(p)'
  <2>1. JournalSlots
    BY <1>4, <1>9, EntryFacts DEF Attached
  <2>2. JournalSlots'
    BY SMTT(30), <1>0, <1>1, <1>4, <1>5, <1>6, <2>1
    DEF JournalSlots, Decayed, Com, Sound, Unrotted, OnlyVersion, Whole
  <2> QED BY <1>1, <1>3, <2>2 DEF JournalOp, OwnerSteps, Erasing
<1>10. Attached' => asked' # TRUE
  BY <1>1, <1>4, EntryFacts DEF Attached, PinnedOp
<1>11. Ages' /\ Scans'
  <2>1. Derived(Hi') /\ Derived(Lo') /\ (receipt' = receipt \/ ~Com(receipt'))
    BY <1>0, <1>5, <1>6 DEF Derived, Com
  <2>2. op[p].pc \notin Scanning /\ op[p].pc \notin Carrying
    BY <1>1 DEF Scanning, Carrying, Erasing
  <2> QED BY <1>0, <1>2, <1>3, <1>4, <2>1, <2>2, AgesKept DEF Attached
<1> QED BY <1>3, <1>7, <1>8, <1>9, <1>10, <1>11, SoloKeeps DEF EntryInv

LEMMA RemovalEndKeeps ==
    ASSUME CacheTypeOK, CacheInv, EntryInv, NEW p \in Procs, RemovalDone(p) \/ RemovalFails(p) PROVE EntryInv'
<1> USE DEF durable, source, ghosts, limits
<1>0. /\ GroundEntry /\ GroundOp(p) /\ op \in [Procs -> OpT] /\ Ages /\ Scans
      /\ NoRecord \in Record /\ ~Whole(NoRecord) /\ NoRecord.st = "none"
  BY Typed, EntryFacts, RecordTypes DEF NoRecord, Whole
<1>1. /\ Alone(p) /\ load' = load /\ op[p].pc \in Erasing
  BY AloneInside, Steps DEF RemovalDone, RemovalFails, Erasing
<1>2. PICK c \in {"idle", "reserving"} : /\ op' = [op EXCEPT ![p] = At(c)]
                                         /\ c = "reserving" => EntryEmpty
  BY DEF RemovalDone, RemovalFails, At, Idle
<1>3. Alone(p)' /\ op'[p] = At(c) /\ op'[p].pc = c
  BY <1>1, <1>2, AloneStays, OpRecords
<1>4. /\ UNCHANGED <<durable, source, ghosts, fault>> /\ Hi' = Hi /\ Lo' = Lo
      /\ Attached' <=> Attached
  <2>1. UNCHANGED <<durable, source, ghosts, fault>>
    BY DEF RemovalDone, RemovalFails
  <2>2. budget'.detaches = budget.detaches
    BY SourceTypes DEF RemovalDone, RemovalFails
  <2> QED BY <2>1, <2>2, Rests DEF Attached
<1>5. c = "reserving" => tomb = "none" /\ Hi.st = "none" /\ Lo.st = "none"
  <2>1. EntryEmpty => tomb = "none" /\ slots[0] = NoRecord /\ slots[1] = NoRecord
    BY SMTT(30) DEF EntryEmpty
  <2>2. Highest = 0 \/ Highest = 1
    BY SMTT(30), JournalTypes
  <2> QED BY SMTT(30), <1>0, <1>2, <2>1, <2>2 DEF Hi, Lo
<1>6. GroundEntry'
  BY <1>0, <1>4 DEF GroundEntry, Com
<1>7. GroundOp(p)'
  BY <1>3, <1>4, <1>5 DEF GroundOp, OwnerSteps, Erasing, Carrying
<1>8. ASSUME Attached' PROVE JournalSlots' /\ JournalOp(p)'
  <2>1. JournalSlots
    BY <1>4, <1>8, EntryFacts
  <2>2. JournalSlots'
    BY <1>4, <2>1 DEF JournalSlots, Decayed, Com, Sound, Unrotted, OnlyVersion
  <2> QED BY <1>3, <1>4, <1>5, <2>2 DEF JournalOp, OwnerSteps, Com
<1>9. Attached' => asked' # TRUE
  BY <1>1, <1>4, EntryFacts DEF PinnedOp
<1>10. Ages' /\ Scans'
  <2>1. At(c).pc \notin Scanning /\ At(c).pc \notin Carrying
    BY OpRecords DEF Scanning, Carrying
  <2> QED BY <1>0, <1>2, <1>3, <1>4, <2>1, AgesKept DEF Derived, Com
<1> QED BY <1>3, <1>6, <1>7, <1>8, <1>9, <1>10, SoloKeeps DEF EntryInv

LEMMA RemoveKeeps ==
    ASSUME CacheTypeOK, CacheInv, EntryInv, NEW p \in Procs, Remove(p) PROVE EntryInv'
BY RemoveEntryKeeps, ReconcileRemovedSourceKeeps, UnlinkKeeps, RemovalEndKeeps DEF Remove

(* A bundle with the bytes of a complete record has those of the receipt. *)
LEMMA MatchedReceipt ==
    ASSUME CacheTypeOK, Ages, Vouched, Com(receipt),
           \/ Com(Hi) /\ bundle = Hi.ver
           \/ \E p \in Procs : load[p].at \in Verifying /\ bundle = load[p].rec.ver
    PROVE  receipt.ver = bundle
<1>1. bundle \in Nat /\ bundle <= receipt.ver
  BY VersionNumbers DEF Ages, AgesEntry, AgesLoad, NotNewer
<1>2. bundle \in Versions
  <2>1. bundle \in Sized \cup {Absent, Partial}
    BY Typed DEF EntryTypes
  <2> QED BY SMTT(30), <1>1, <2>1 DEF Sized, Absent, Partial, Altered
<1>3. receipt.ver <= bundle
  BY <1>2 DEF Vouched
<1> QED BY SMTT(30), <1>1, <1>3, VersionNumbers

LEMMA RecoverValidKeeps ==
    ASSUME CacheTypeOK, CacheInv, EntryInv, Vouched, NEW p \in Procs, RecoverValid(p)
    PROVE  EntryInv'
<1> USE DEF durable, source, ghosts, limits
<1>0. /\ GroundEntry /\ GroundOp(p) /\ op[p] \in OpT /\ Journal \in Record
      /\ receipt \in Record /\ op \in [Procs -> OpT] /\ Ages /\ Scans /\ cached \in BOOLEAN
  BY JournalTypes, Typed, EntryFacts DEF EntryTypes
<1>1. Alone(p) /\ load' = load /\ Read = "valid" /\ tomb = "none" /\ op[p].pc = "idle"
  BY AloneInside, Reads, OpTypes DEF RecoverValid, Enter
<1>2. op' = [op EXCEPT ![p] = op[p]]
  BY <1>0 DEF RecoverValid
<1>3. Alone(p)' /\ op'[p] = op[p]
  BY <1>1, <1>2, AloneStays
<1>4. UNCHANGED <<tomb, bundle, receipt, source, ghosts, limits>>
  BY DEF RecoverValid
<1>5. \/ UNCHANGED <<slots, top>>
      \/ \E r \in Record : /\ WriteJournal(r) /\ r.ver = Journal.ver
                           /\ r.st = Journal.st \/ (Journal.st = "mat" /\ r.st = "int")
                           /\ Journal.pin = TRUE => r.pin = TRUE
  <2>1. ASSUME NEW j \in Record, j = Journal \/ j = [Journal EXCEPT !.pin = TRUE],
               WriteJournal(IF Stale(j) THEN Interrupted(j) ELSE j)
        PROVE  \E r \in Record : /\ WriteJournal(r) /\ r.ver = Journal.ver
                                 /\ r.st = Journal.st \/ (Journal.st = "mat" /\ r.st = "int")
                                 /\ Journal.pin = TRUE => r.pin = TRUE
    <3>1. j.st = Journal.st /\ j.ver = Journal.ver /\ (Journal.pin = TRUE => j.pin = TRUE)
      <4>1. TRUE \in BOOLEAN
        OBVIOUS
      <4>2. /\ [Journal EXCEPT !.pin = TRUE].st = Journal.st
            /\ [Journal EXCEPT !.pin = TRUE].ver = Journal.ver
            /\ [Journal EXCEPT !.pin = TRUE].pin = TRUE
        BY <1>0, <4>1, RecordTypes
      <4> QED BY <2>1, <4>2
    <3>2. /\ Interrupted(j) \in Record /\ Interrupted(j).st = "int"
          /\ Interrupted(j).pin = j.pin /\ Interrupted(j).ver = j.ver
      BY <2>1, RecordTypes DEF Interrupted, Record
    <3> QED BY <2>1, <3>1, <3>2 DEF Stale
  <2>2. [Journal EXCEPT !.pin = TRUE] \in Record
    BY <1>0, RecordTypes
  <2>3. \/ UNCHANGED <<slots, top>>
        \/ \E j \in {Journal, [Journal EXCEPT !.pin = TRUE]} :
              WriteJournal(IF Stale(j) THEN Interrupted(j) ELSE j)
    BY DEF RecoverValid
  <2> QED BY <1>0, <2>1, <2>2, <2>3
<1>6. cached' = TRUE => cached \/ (Journal.st = "com" /\ bundle = Journal.ver)
  <2>1. PICK redeemed \in {cached, FALSE} :
           cached' = IF HadInvalidSlot /\ Journal.st = "com"
                     THEN redeemed \/ bundle = Journal.ver ELSE cached
    BY DEF RecoverValid
  <2>2. CASE HadInvalidSlot /\ Journal.st = "com"
    <3>1. cached' = (redeemed \/ bundle = Journal.ver)
      BY <2>1, <2>2
    <3>2. redeemed => cached
      BY <2>1
    <3>3. cached' = TRUE => redeemed \/ bundle = Journal.ver
      BY <3>1
    <3> QED BY <2>2, <3>2, <3>3
  <2>3. CASE ~(HadInvalidSlot /\ Journal.st = "com")
    BY <2>1, <2>3
  <2> QED BY <2>2, <2>3
<1>7. \/ Hi' = Hi /\ Lo' = Lo
      \/ /\ Lo' = Hi /\ Whole(Hi') /\ Hi'.ver = Journal.ver
         /\ Hi'.st = Journal.st \/ (Journal.st = "mat" /\ Hi'.st = "int")
         /\ Journal.pin = TRUE => Hi'.pin = TRUE
  <2>1. Whole(Journal)
    BY <1>1, Reads DEF ShapeValid, Whole
  <2>2. CASE UNCHANGED <<slots, top>>
    BY <2>2, Rests
  <2>3. CASE ~UNCHANGED <<slots, top>>
    <3>1. PICK r \in Record : /\ WriteJournal(r) /\ r.ver = Journal.ver
                              /\ r.st = Journal.st \/ (Journal.st = "mat" /\ r.st = "int")
                              /\ Journal.pin = TRUE => r.pin = TRUE
      BY <1>5, <2>3
    <3>2. Whole(r) /\ Hi' = r /\ Lo' = Hi
      BY <1>1, <2>1, <3>1, Written DEF Whole
    <3> QED BY <3>1, <3>2
  <2> QED BY <2>2, <2>3
<1>8. GroundEntry'
  BY <1>0, <1>4, <1>7 DEF GroundEntry, Attached, Com, Whole
<1>9. GroundOp(p)'
  BY <1>1, <1>3 DEF GroundOp, OwnerSteps, Erasing, Carrying
<1>10. ASSUME Attached' PROVE JournalSlots' /\ JournalOp(p)'
  <2>1. JournalSlots /\ Attached /\ (Com(Journal) => Journal = Hi)
    BY <1>0, <1>1, <1>4, <1>10, EntryFacts, AttachedReads DEF Attached
  <2>2. \A v : OnlyVersion(v) => OnlyVersion(v)'
    BY <1>7, <2>1 DEF OnlyVersion, Com
  <2>3. cached' = TRUE =>
          Decayed' \/ (OnlyVersion(bundle)' /\ (Com(receipt') => receipt'.ver = bundle'))
    <3>1. ASSUME cached = TRUE
          PROVE  Decayed \/ (OnlyVersion(bundle) /\ (Com(receipt) => receipt.ver = bundle))
      BY <2>1, <3>1 DEF JournalSlots
    <3>2. ASSUME Com(Journal), bundle = Journal.ver
          PROVE  OnlyVersion(bundle) /\ (Com(receipt) => receipt.ver = bundle)
      BY <1>0, <1>1, <2>1, <3>2, MatchedReceipt DEF JournalSlots, OnlyVersion
    <3>3. bundle' = bundle /\ (OnlyVersion(bundle) => OnlyVersion(bundle)')
      BY <1>4, <2>2
    <3> QED BY <1>4, <1>6, <3>1, <3>2, <3>3 DEF Decayed, Com
  <2>4. cached' \in BOOLEAN
    BY <1>0 DEF RecoverValid
  <2>5. JournalSlots'
    BY <1>4, <1>7, <2>1, <2>2, <2>3, <2>4 DEF JournalSlots, Com, Sound, Unrotted
  <2> QED BY <1>1, <1>3, <2>5 DEF JournalOp, OwnerSteps
<1>11. ASSUME Attached', asked' = TRUE PROVE PinnedEntry' /\ PinnedOp(p)'
  <2>1. PinnedEntry /\ Journal = Hi
    BY <1>4, <1>11, EntryFacts DEF Attached
  <2> QED BY <1>1, <1>3, <1>4, <1>7, <2>1 DEF PinnedEntry, PinnedOp, Whole, Com, Erasing
<1>12. Ages' /\ Scans'
  <2>1. Derived(Hi') /\ Derived(Lo')
    <3>1. Journal \in {Hi, Lo}
      BY Reads
    <3> QED BY <1>7, <3>1 DEF Derived, Com
  <2>2. op[p].pc \notin Scanning /\ op[p].pc \notin Carrying
    BY <1>1 DEF Scanning, Carrying
  <2> QED BY <1>0, <1>2, <1>3, <1>4, <2>1, <2>2, AgesKept DEF Attached
<1> QED BY <1>3, <1>8, <1>9, <1>10, <1>11, <1>12, SoloKeeps DEF EntryInv

LEMMA RecoverEvictedKeeps ==
    ASSUME CacheTypeOK, CacheInv, EntryInv, NEW p \in Procs, RecoverEvicted(p) PROVE EntryInv'
<1> USE DEF durable, source, ghosts, limits
<1>0. /\ GroundEntry /\ GroundOp(p) /\ op[p] \in OpT /\ Journal \in Record
      /\ receipt \in Record /\ op \in [Procs -> OpT] /\ Ages /\ Scans /\ cached \in BOOLEAN
  BY JournalTypes, Typed, EntryFacts DEF EntryTypes
<1>1. LockFree /\ Read = "evicted" /\ StartRemoval(p, "idle")
      /\ UNCHANGED <<load, durable, source, ghosts, limits>>
  BY DEF RecoverEvicted, Enter
<1> QED BY <1>1, ResumeKeeps

LEMMA RecoverUnreadableKeeps ==
    ASSUME CacheTypeOK, CacheInv, EntryInv, Vouched, NEW p \in Procs, RecoverUnreadable(p)
    PROVE  EntryInv'
<1> USE DEF durable, source, ghosts, limits
<1>0. /\ GroundEntry /\ GroundOp(p) /\ op[p] \in OpT /\ Journal \in Record
      /\ receipt \in Record /\ op \in [Procs -> OpT] /\ Ages /\ Scans /\ cached \in BOOLEAN
  BY JournalTypes, Typed, EntryFacts DEF EntryTypes
<1>1. /\ Alone(p) /\ load' = load /\ Read \in {"corrupt", "error"} /\ op[p].pc = "idle"
      /\ Com(receipt) /\ UNCHANGED <<slots, top, bundle, receipt, source, ghosts, limits>>
      /\ Hi' = Hi /\ Lo' = Lo
  BY AloneInside, OpTypes, Rests DEF RecoverUnreadable, Enter, Com
<1>2. PICK x : /\ op' = [op EXCEPT ![p] = x] /\ x.pc \in {"idle", "resurrecting"}
               /\ x.pc = "resurrecting" =>
                     tomb' = "none" /\ (cached = TRUE \/ bundle = receipt.ver)
               /\ x.pc = "idle" => cached' = FALSE /\ tomb' = tomb
  <2>1. CASE /\ op' = [op EXCEPT ![p] = At("resurrecting")] /\ tomb' = "none"
             /\ cached \/ bundle = receipt.ver
    <3>1. At("resurrecting").pc = "resurrecting" /\ (cached => cached = TRUE)
      BY <1>0, OpRecords
    <3> QED BY <2>1, <3>1
  <2>2. CASE UNCHANGED <<tomb, op>> /\ cached' = FALSE
    <3>1. op' = [op EXCEPT ![p] = op[p]]
      BY <1>0, <2>2
    <3> QED BY <1>1, <2>2, <3>1
  <2> QED BY <2>1, <2>2 DEF RecoverUnreadable
<1>3. Alone(p)' /\ op'[p] = x
  BY <1>1, <1>2, AloneStays
<1>4. x.pc = "resurrecting" => bundle \in Sized
  BY <1>0, <1>1, <1>2 DEF GroundEntry, Vouched, Sized
<1>5. GroundEntry'
  BY <1>0, <1>1, <1>2 DEF GroundEntry, Attached, Com
<1>6. GroundOp(p)'
  BY <1>1, <1>2, <1>3, <1>4 DEF GroundOp, OwnerSteps, Erasing, Carrying, Com
<1>7. ASSUME Attached' PROVE JournalSlots' /\ JournalOp(p)'
  <2>1. JournalSlots /\ Attached
    BY <1>1, <1>7, EntryFacts DEF Attached
  <2>2. CASE x.pc = "idle"
    BY <1>1, <1>2, <1>3, <2>1, <2>2
    DEF JournalSlots, Decayed, JournalOp, OwnerSteps, Com, Sound, Unrotted, OnlyVersion
  <2>3. CASE x.pc = "resurrecting"
    <3>1. fault \in {"rot", "tomb"} /\ (Unrotted => condemned) /\
             (Read = "corrupt" => OnlyVersion(receipt.ver))
      <4>1. CASE Read = "corrupt"
        <5>1. /\ tomb = "none" /\ ~Whole(Hi) /\ ~Whole(Lo)
              /\ Hi.st # "none" \/ Lo.st # "none"
          BY <1>0, <1>4, <2>1, <2>3, <4>1, Reads, AttachedReads
        <5>2. Hi.st = "rotten" \/ Lo.st = "rotten"
          BY <5>1, JournalTypes DEF Record, Whole
        <5> QED BY <1>0, <5>1, <5>2 DEF GroundEntry, Unrotted, OnlyVersion, Whole, Com
      <4>2. CASE Read = "error"
        <5>1. tomb = "bad"
          BY <4>2, Reads
        <5> QED BY <1>0, <4>2, <5>1 DEF GroundEntry, Unrotted
      <4> QED BY <1>1, <4>1, <4>2
    <3>2. cached = TRUE => OnlyVersion(bundle) /\ receipt.ver = bundle
      BY <1>1, <2>1, <3>1 DEF JournalSlots, Decayed
    <3>3. receipt.ver = bundle
      BY <1>2, <2>3, <3>2
    <3>4. OnlyVersion(receipt.ver)
      <4>1. Read = "error" => tomb = "bad"
        BY Reads
      <4>2. receipt.ver \in Versions
        BY <1>0, <1>1 DEF GroundEntry
      <4> QED BY <1>1, <2>1, <3>1, <3>3, <4>1, <4>2 DEF JournalSlots
    <3>5. JournalSlots'
      BY <1>1, <1>2, <2>1, <2>3, <3>1, <3>3, <3>4
      DEF JournalSlots, Com, Sound, Unrotted, OnlyVersion
    <3> QED BY <1>1, <1>2, <1>3, <2>3, <3>1, <3>4, <3>5
        DEF JournalOp, OwnerSteps, Com, Sound, Unrotted, OnlyVersion
  <2> QED BY <1>2, <2>2, <2>3
<1>8. Attached' => asked' # TRUE
  BY <1>1, EntryFacts DEF Attached
<1>9. Ages' /\ Scans'
  BY <1>0, <1>1, <1>2, <1>3, AgesKept DEF Derived, Com, Attached, Scanning, Carrying
<1> QED BY <1>3, <1>5, <1>6, <1>7, <1>8, <1>9, SoloKeeps DEF EntryInv

LEMMA ResurrectKeeps ==
    ASSUME CacheTypeOK, CacheInv, EntryInv, NEW p \in Procs, Resurrect(p) PROVE EntryInv'
<1> USE DEF durable, source, ghosts, limits
<1>0. /\ GroundEntry /\ GroundOp(p) /\ op[p] \in OpT /\ Journal \in Record
      /\ receipt \in Record /\ op \in [Procs -> OpT] /\ Ages /\ Scans /\ cached \in BOOLEAN
  BY JournalTypes, Typed, EntryFacts DEF EntryTypes
<1> DEFINE r == [receipt EXCEPT !.pin = TRUE]
<1>1. /\ Alone(p) /\ load' = load /\ op[p].pc = "resurrecting" /\ tomb = "none"
      /\ Com(receipt) /\ bundle \in Sized
  BY <1>0, AloneInside, Steps DEF Resurrect, GroundOp
<1>2. op' = [op EXCEPT ![p] = Idle]
  BY DEF Resurrect
<1>3. Alone(p)' /\ op'[p] = Idle /\ op'[p].pc = "idle"
  BY <1>1, <1>2, AloneStays, OpTypes
<1>4. UNCHANGED <<tomb, bundle, receipt, cached, source, ghosts, limits>>
  BY DEF Resurrect
<1>5. r \in Record /\ Com(r) /\ Whole(r) /\ r.ver = receipt.ver /\ r.pin = TRUE
  BY <1>0, <1>1, RecordTypes DEF Com, Whole
<1>6. WriteJournal(r)
  BY DEF Resurrect
<1> HIDE DEF r
<1>7. /\ Read = "valid" => Hi' = r /\ Lo' = Hi
      /\ Read # "valid" => \/ Hi' = r /\ Lo' \in {Hi, Lo} /\ ~Whole(Lo')
                           \/ Hi' \in {Hi, Lo} /\ Whole(Hi') /\ Lo' = r
  BY <1>5, <1>6, Written
<1>9. GroundEntry'
  BY <1>0, <1>4, <1>5, <1>7 DEF GroundEntry, Attached, Com
<1>10. GroundOp(p)'
  BY <1>3 DEF GroundOp, OwnerSteps, Erasing, Carrying
<1>11. ASSUME Attached' PROVE JournalSlots' /\ JournalOp(p)'
  <2>1. JournalSlots /\ JournalOp(p) /\ (Read # "valid" => ~Whole(Hi) /\ ~Whole(Lo))
    BY <1>0, <1>1, <1>4, <1>11, EntryFacts, AttachedReads DEF Attached
  <2>2. Hi' = r /\ (Lo' = Hi \/ ~Com(Lo'))
    BY <1>7, <2>1 DEF Whole, Com
  <2>3. OnlyVersion(receipt.ver)' /\ ~Sound /\ (Unrotted => condemned)
    BY <1>1, <1>4, <1>5, <2>1, <2>2 DEF JournalOp, OnlyVersion, Com
  <2>4. JournalSlots'
    <3>1. cached = TRUE => Decayed \/ receipt.ver = bundle
      BY <1>1, <2>1 DEF JournalSlots
    <3> QED BY <1>0, <1>1, <1>4, <1>5, <2>2, <2>3, <3>1
        DEF JournalSlots, Decayed, Com, Sound, Unrotted, OnlyVersion
  <2> QED BY <1>3, <2>4 DEF JournalOp, OwnerSteps
<1>12. ASSUME Attached', asked' = TRUE PROVE PinnedEntry' /\ PinnedOp(p)'
  <2>1. PinnedEntry /\ Read = "valid"
    BY <1>4, <1>12, EntryFacts DEF Attached
  <2> QED BY <1>1, <1>3, <1>4, <1>5, <1>7, <2>1 DEF PinnedEntry, PinnedOp, Whole, Com, Erasing
<1>13. Ages' /\ Scans'
  <2>1. AgesEntry' /\ AgesOp(p)'
    BY SMTT(30), <1>0, <1>1, <1>3, <1>4, <1>5, <1>7, VersionNumbers
    DEF Ages, AgesEntry, AgesOp, NotNewer, Com, Carrying
  <2>2. \A v \in Nat : v <= srcVer /\ Since(v) => EntrySince(v)' /\ OpSince(v, p)'
    BY <1>1, <1>3, <1>4, <1>5, <1>7 DEF Since, EntrySince, OpSince, Com, Carrying
  <2>3. Idle.pc \notin Scanning
    BY OpTypes DEF Scanning
  <2> QED BY <1>0, <1>2, <1>3, <1>4, <2>1, <2>2, <2>3, AgesSolo DEF Attached
<1> QED BY <1>3, <1>9, <1>10, <1>11, <1>12, <1>13, SoloKeeps DEF EntryInv

LEMMA RecoverKeeps ==
    ASSUME CacheTypeOK, CacheInv, EntryInv, Vouched, NEW p \in Procs, Recover(p) PROVE EntryInv'
BY RecoverValidKeeps, RecoverEvictedKeeps, RecoverUnreadableKeeps, ResurrectKeeps DEF
   Recover

(* A step that leaves the entry as it is, or orphans what p owned: the      *)
(* others stay where they are, and p leaves the locks or has none.          *)
LEMMA FrameKeeps ==
    ASSUME CacheTypeOK, EntryInv, NEW p, p # NoSession,
           Orphan(Hi, Hi', p), Orphan(Lo, Lo', p),
           op'[p].pc \in Exclusive => Hi' = Hi,
           \A q \in Procs : op'[q].pc \in Exclusive => op'[q] = op[q],
           \A q \in Procs : load'[q].at # "none" => load'[q] = load[q],
           UNCHANGED <<tomb, bundle, receipt, cached, ghosts, fault>>,
           srcVer' \in Nat, srcVer <= srcVer', Attached' => Attached /\ srcUp'
    PROVE  /\ Ground' /\ JournalInv' /\ Pinned' /\ Ages'
           /\ \A v \in Nat : Since(v) => Since(v)'
<1> USE DEF ghosts
<1>1. /\ (Com(Hi') <=> Com(Hi)) /\ (Com(Lo') <=> Com(Lo))
      /\ Hi'.st = Hi.st /\ Lo'.st = Lo.st /\ Hi'.ver = Hi.ver /\ Lo'.ver = Lo.ver
      /\ Hi'.pin = Hi.pin
  BY DEF Orphan, Com
<1>2. Com(Hi) => Hi' = Hi
  BY JournalTypes DEF Orphan, Com, Record
<1>3. \A q \in Procs : load'[q].at \in Verifying => load'[q] = load[q]
  BY Steps
<1>4. Ground'
  <2>1. GroundEntry'
    BY <1>1 DEF EntryInv, Ground, GroundEntry, Com
  <2>2. OneVerifies'
    BY <1>3 DEF EntryInv, Ground, OneVerifies
  <2>3. ASSUME NEW q \in Procs PROVE GroundOp(q)'
    <3>1. CASE op'[q].pc \in Exclusive
      BY <3>1 DEF EntryInv, Ground, GroundOp, Com
    <3>2. CASE op'[q].pc \notin Exclusive
      BY <3>2, Steps DEF GroundOp
    <3> QED BY <3>1, <3>2
  <2>4. \A q \in Procs : GroundLoad(q)'
    BY <1>3 DEF EntryInv, Ground, GroundLoad, Decayed, Verifying, Com
  <2> QED BY <2>1, <2>2, <2>3, <2>4 DEF Ground
<1>5. JournalInv'
  <2>1. JournalSlots => JournalSlots'
    BY <1>1 DEF JournalSlots, Decayed, Com, Sound, Unrotted, OnlyVersion
  <2>2. ASSUME NEW q \in Procs, JournalOp(q) PROVE JournalOp(q)'
    <3>1. CASE op'[q].pc \in Exclusive
      <4>1. op'[q] = op[q] /\ (Hi.ses = q => Hi'.ses = q)
        BY <3>1 DEF Orphan
      <4> QED BY <1>1, <2>2, <4>1
          DEF JournalOp, Sound, Unrotted, NoComplete, OnlyVersion, Com
    <3>2. CASE op'[q].pc \notin Exclusive
      BY <3>2, Steps DEF JournalOp
    <3> QED BY <3>1, <3>2
  <2>3. ASSUME Attached, NEW q \in Procs, JournalLoad(q) PROVE JournalLoad(q)'
    <3>1. load[q].at \in Verifying /\ Unrotted => Com(Hi)
      BY <2>3 DEF JournalLoad, EntryInv, Ground, GroundLoad
    <3> QED BY <1>1, <1>2, <1>3, <2>3, <3>1 DEF JournalLoad, OnlyVersion, Com, Unrotted
  <2> QED BY <2>1, <2>2, <2>3 DEF EntryInv, JournalInv
<1>6. Pinned'
  <2>1. PinnedEntry => PinnedEntry'
    BY <1>1 DEF PinnedEntry, Com, Whole
  <2>2. \A q \in Procs : PinnedOp(q) => PinnedOp(q)'
    BY <1>1, Steps DEF PinnedOp, Com
  <2>3. \A q \in Procs : PinnedLoad(q) => PinnedLoad(q)'
    BY <1>3 DEF PinnedLoad
  <2> QED BY <2>1, <2>2, <2>3 DEF EntryInv, Pinned
<1>7. \A q \in Procs : op'[q].pc \in Carrying => op'[q] = op[q]
  BY Steps
<1>8. Ages'
  <2>1. AgesEntry'
    BY SMTT(30), <1>1, VersionNumbers DEF EntryInv, Ages, AgesEntry, NotNewer, Com
  <2>2. ASSUME NEW q \in Procs PROVE AgesOp(q)'
    BY SMTT(30), <1>1, <1>7, VersionNumbers DEF EntryInv, Ages, AgesOp, NotNewer, Com
  <2>3. ASSUME NEW q \in Procs PROVE AgesLoad(q)'
    BY SMTT(30), <1>3, VersionNumbers DEF EntryInv, Ages, AgesLoad, Com
  <2> QED BY <2>1, <2>2, <2>3 DEF Ages
<1>9. \A v \in Nat : Since(v) => Since(v)'
  BY <1>1, <1>3, <1>7 DEF Since, EntrySince, OpSince, LoadSince, Com
<1> QED BY <1>4, <1>5, <1>6, <1>8, <1>9

(* What the scans of the others know stays true. *)
LEMMA ScanKept ==
    ASSUME CacheTypeOK, NEW q \in Procs, Scan(q), op'[q] = op[q] \/ op'[q].pc \notin Scanning,
           srcVer' \in Nat, srcVer <= srcVer', Attached' => Attached,
           \A v \in Nat : v <= srcVer /\ Since(v) => Since(v)'
    PROVE  Scan(q)'
<1>1. CASE op'[q].pc \notin Scanning
  BY <1>1 DEF Scan
<1>2. CASE op'[q] = op[q]
  <2>1. op[q].ver <= srcVer /\ Since(op[q].ver) => Since(op[q].ver)'
    BY <1>2, VersionNumbers
  <2> QED BY SMTT(30), <1>2, <2>1, VersionNumbers DEF Scan
<1> QED BY <1>1, <1>2

(* A step by which a process outside the locks only moves itself on *)
LEMMA QuietKeeps ==
    ASSUME CacheTypeOK, EntryInv, NEW p \in Procs, NEW x, op' = [op EXCEPT ![p] = x],
           op[p].pc \notin Exclusive, x.pc \notin Exclusive,
           UNCHANGED <<load, durable, source, ghosts, limits>>,
           x.pc \in Scanning =>
              /\ x.mark <= srcVer /\ x.ver \in Nat /\ x.ver <= srcVer
              /\ x.pc # "scanned" /\ srcVer = x.mark => x.ver = x.mark
              /\ Attached => Since(x.ver)
    PROVE  EntryInv'
<1> USE DEF durable, source, ghosts, limits
<1>0. op \in [Procs -> OpT]
  BY Typed
<1>1. \A q \in Procs : op'[q] = IF q = p THEN x ELSE op[q]
  BY <1>0
<1>2. /\ Orphan(Hi, Hi', p) /\ Orphan(Lo, Lo', p) /\ Hi' = Hi /\ (Attached' <=> Attached)
      /\ \A q \in Procs : op'[q].pc \in Exclusive => op'[q] = op[q]
  <2>1. Hi' = Hi /\ Lo' = Lo
    BY Rests
  <2>2. Orphan(Hi, Hi', p) /\ Orphan(Lo, Lo', p)
    BY <2>1, Zenon DEF Orphan
  <2>3. \A q \in Procs : op'[q].pc \in Exclusive => op'[q] = op[q]
    BY <1>1
  <2> QED BY <2>1, <2>2, <2>3 DEF Attached
<1>3. /\ srcVer' \in Nat /\ srcVer <= srcVer' /\ (Attached' => Attached /\ srcUp')
  <2>1. srcVer \in Nat
    BY VersionNumbers
  <2>2. Attached => srcUp
    BY EntryFacts
  <2> QED BY SMTT(30), <1>2, <2>1, <2>2
<1>4. /\ Ground' /\ JournalInv' /\ Pinned' /\ Ages'
      /\ \A v \in Nat : Since(v) => Since(v)'
  BY <1>2, <1>3, FrameKeeps, CacheAssumption
<1>5. ASSUME NEW q \in Procs PROVE Scan(q)'
  <2>1. CASE q = p
    <3>1. op'[q] = x
      BY <1>1, <2>1
    <3>2. x.pc \in Scanning /\ Since(x.ver) => Since(op[q].ver)'
      BY <1>4, <3>1
    <3> QED BY <1>2, <3>1, <3>2 DEF Scan
  <2>2. CASE q # p
    BY <1>1, <1>3, <1>4, <2>2, ScanKept DEF EntryInv, Scans
  <2> QED BY <2>1, <2>2
<1> QED BY <1>4, <1>5 DEF EntryInv, Scans

LEMMA RetainKeeps ==
    ASSUME CacheTypeOK, CacheInv, EntryInv, NEW p \in Procs, Retain(p) PROVE EntryInv'
<1> USE DEF durable, source, ghosts, limits
<1>0. /\ GroundEntry /\ op[p] \in OpT /\ Journal \in Record /\ Ages /\ Scan(p)
  BY JournalTypes, Typed, EntryFacts DEF Scans
<1>1. CASE EvictScan(p)
  <2>1. CASE Read = "evicted"
    BY <1>1, <2>1, ResumeKeeps DEF EvictScan
  <2>2. CASE Read # "evicted"
    <3> DEFINE x == [pc |-> "scanned", ver |-> Journal.ver, mark |-> srcVer]
    <3>1. /\ Read = "valid" /\ Com(Journal) /\ LockFree /\ op' = [op EXCEPT ![p] = x]
          /\ op[p].pc = "idle" /\ UNCHANGED <<load, durable, source, ghosts, limits>>
      BY <1>1, <2>2, OpTypes DEF EvictScan, Com
    <3>2. Journal \in {Hi, Lo} /\ Journal.ver <= srcVer /\ Journal.ver \in Nat
      BY <1>0, <3>1, Reads, VersionNumbers DEF Ages, AgesEntry, NotNewer
    <3>3. ASSUME Attached PROVE Since(Journal.ver)
      <4>1. Journal = Hi /\ JournalSlots
        BY <1>0, <3>1, <3>3, AttachedReads, EntryFacts
      <4>2. EntrySince(Journal.ver)
        BY SMTT(30), <1>0, <3>1, <4>1, VersionNumbers
        DEF EntrySince, JournalSlots, Ages, AgesEntry, NotNewer
      <4>3. Alone(p)
        BY <3>1, AloneInside
      <4>4. \A q \in Procs : op[q].pc \notin Carrying /\ load[q].at \notin Verifying
        BY <3>1, <4>3, Steps DEF Alone, Carrying
      <4> QED BY <4>2, <4>4 DEF Since, OpSince, LoadSince
    <3>4. /\ x.pc = "scanned" /\ x.ver = Journal.ver /\ x.mark = srcVer
          /\ x.pc \notin Exclusive /\ op[p].pc \notin Exclusive
      BY <3>1, Steps DEF Scanning
    <3>5. srcVer <= srcVer
      BY SMTT(30), VersionNumbers
    <3> HIDE DEF x
    <3> QED BY <3>1, <3>2, <3>3, <3>4, <3>5, QuietKeeps
  <2> QED BY <2>1, <2>2
<1>2. CASE EvictHash(p) \/ EvictProve(p)
  <2>1. PICK c \in {"hashed", "proved"} :
           /\ op' = [op EXCEPT ![p] = [op[p] EXCEPT !.pc = c]]
           /\ op[p].pc \in Scanning
           /\ srcVer = op[p].mark => op[p].ver = op[p].mark
           /\ UNCHANGED <<load, durable, source, ghosts, limits>>
    <3>1. CASE EvictHash(p)
      BY <3>1 DEF EvictHash, Scanning
    <3>2. CASE EvictProve(p)
      <4>1. op[p].pc = "hashed" /\ op' = [op EXCEPT ![p] = [op[p] EXCEPT !.pc = "proved"]]
        BY <3>2 DEF EvictProve
      <4>2. op[p].pc \in Scanning
        BY <4>1 DEF Scanning
      <4>3. srcVer = op[p].mark => op[p].ver = op[p].mark
        BY <1>0, <4>1, <4>2 DEF Scan
      <4> QED BY <3>2, <4>1, <4>2, <4>3 DEF EvictProve
    <3> QED BY <1>2, <3>1, <3>2
  <2> DEFINE x == [op[p] EXCEPT !.pc = c]
  <2>2. x.pc = c /\ x.ver = op[p].ver /\ x.mark = op[p].mark
    <3>1. c \in OpSteps
      BY StepNames
    <3> QED BY <1>0, <3>1, OpTypes
  <2>3. op[p].pc \notin Exclusive /\ x.pc \notin Exclusive
    BY <2>1, <2>2, Steps DEF Scanning
  <2>4. op' = [op EXCEPT ![p] = x]
    BY <2>1
  <2> HIDE DEF x
  <2> QED BY <1>0, <2>1, <2>2, <2>3, <2>4, VersionNumbers, QuietKeeps DEF Scan
<1>3. CASE EvictDecide(p)
  <2>1. LockFree
    BY <1>3 DEF EvictDecide
  <2>2. CASE Condemn(p, "auto") /\ Read = "valid" /\ ~Journal.pin
    BY <2>1, <2>2, CondemnKeeps DEF Sanctioned
  <2>3. CASE /\ Read = "evicted" /\ StartRemoval(p, "idle")
             /\ UNCHANGED <<load, durable, source, ghosts, limits>>
    BY <2>1, <2>3, ResumeKeeps
  <2> QED BY <1>3, <2>2, <2>3 DEF EvictDecide
<1>4. CASE EvictRetain(p)
  <2>1. /\ op' = [op EXCEPT ![p] = Idle] /\ op[p].pc \in Scanning
        /\ UNCHANGED <<load, durable, source, ghosts, limits>>
    BY <1>4 DEF EvictRetain
  <2>2. op[p].pc \notin Exclusive /\ Idle.pc \notin Exclusive /\ Idle.pc \notin Scanning
    BY <2>1, Steps, OpTypes DEF Scanning
  <2> QED BY <2>1, <2>2, QuietKeeps
<1> QED BY <1>1, <1>2, <1>3, <1>4 DEF Retain

(* A step of the one load that may be verifying, while no operation holds   *)
(* the artifact lock                                                        *)
LEMMA LoaderKeeps ==
    ASSUME CacheTypeOK, EntryInv, NEW p \in Procs, NEW x, load' = [load EXCEPT ![p] = x],
           op' = op, \A q \in Procs : op[q].pc \notin Exclusive,
           \A q \in Procs : q # p => load[q].at \notin Verifying,
           srcVer' = srcVer, Attached' <=> Attached,
           GroundEntry', GroundLoad(p)', AgesEntry', AgesLoad(p)',
           Attached' => JournalSlots' /\ JournalLoad(p)',
           Attached' /\ asked' = TRUE => PinnedEntry' /\ PinnedLoad(p)',
           \A v \in Nat : v <= srcVer /\ Since(v) => EntrySince(v)' /\ LoadSince(v, p)'
    PROVE  EntryInv'
<1>0. load \in [Procs -> LoadT]
  BY Typed
<1>1. \A q \in Procs : q # p => load'[q] = load[q] /\ load'[q].at \notin Verifying
  BY <1>0
<1>2. \A q \in Procs : op'[q].pc \notin Exclusive
  OBVIOUS
<1>3. Ground'
  <2>1. \A q \in Procs : GroundOp(q)'
    BY <1>2, Steps DEF GroundOp
  <2>2. \A q \in Procs : GroundLoad(q)'
    BY <1>1 DEF GroundLoad, Verifying
  <2>3. OneVerifies'
    BY <1>1 DEF OneVerifies
  <2> QED BY <2>1, <2>2, <2>3 DEF Ground
<1>4. JournalInv'
  <2>1. \A q \in Procs : JournalOp(q)'
    BY <1>2, Steps DEF JournalOp
  <2>2. Attached' => \A q \in Procs : JournalLoad(q)'
    BY <1>1 DEF JournalLoad, EntryInv, JournalInv
  <2> QED BY <2>1, <2>2 DEF JournalInv
<1>5. Pinned'
  <2>1. \A q \in Procs : PinnedOp(q)'
    BY <1>2, Steps DEF PinnedOp
  <2>2. \A q \in Procs : q # p => PinnedLoad(q)'
    BY <1>1 DEF PinnedLoad
  <2> QED BY <2>1, <2>2 DEF Pinned
<1>6. Ages'
  <2>1. \A q \in Procs : AgesOp(q)' /\ (q # p => AgesLoad(q)')
    BY <1>1, <1>2, Steps DEF AgesOp, AgesLoad
  <2> QED BY <2>1 DEF Ages
<1>7. \A v \in Nat : v <= srcVer /\ Since(v) => Since(v)'
  <2> TAKE v \in Nat
  <2>1. \A q \in Procs : OpSince(v, q)' /\ (q # p => LoadSince(v, q)')
    BY <1>1, <1>2, Steps DEF OpSince, LoadSince
  <2> QED BY <2>1 DEF Since
<1>8. ASSUME NEW q \in Procs PROVE Scan(q)'
  <2>1. srcVer' \in Nat /\ srcVer <= srcVer'
    BY SourceSteady
  <2> QED BY <1>7, <2>1, ScanKept DEF EntryInv, Scans
<1> QED BY <1>3, <1>4, <1>5, <1>6, <1>8 DEF EntryInv, Scans

LEMMA ReleaseKeeps ==
    ASSUME CacheTypeOK, CacheInv, EntryInv, NEW p \in Procs, Release(p) PROVE EntryInv'
<1> USE DEF durable, source, ghosts, limits
<1>0. /\ GroundEntry /\ GroundLoad(p) /\ load[p] \in LoadT /\ Journal \in Record
      /\ load[p].rec \in Record /\ load \in [Procs -> LoadT] /\ Ages /\ AgesLoad(p)
      /\ cached \in BOOLEAN
  BY JournalTypes, Typed, EntryFacts DEF EntryTypes, LoadT, Ages
<1>a. \A q \in Procs : op[q].pc \notin Exclusive
  <2>1. load[p].at # "none" \/ ArtifactFree
    BY DEF Load, AcquireStart, AcquireHash, AcquireFinish, Release
  <2> QED BY <2>1 DEF CacheInv, ExclusiveAlone, ArtifactFree
<1>b. /\ op' = op /\ (Attached' <=> Attached)
      /\ UNCHANGED <<tomb, bundle, receipt, source, ghosts, limits>>
  BY DEF Load, AcquireStart, AcquireHash, AcquireFinish, Release, Attached
<1>1. /\ load' = [load EXCEPT ![p] = NotLoading] /\ UNCHANGED <<slots, top, cached>>
  BY DEF Release
<1>2. \A q \in Procs : load'[q].at # "none" => load'[q] = load[q]
  BY <1>0, <1>1, LoadRecords
<1>3. Orphan(Hi, Hi', p) /\ Orphan(Lo, Lo', p) /\ Hi' = Hi
  <2>1. Hi' = Hi /\ Lo' = Lo
    BY <1>1, Rests
  <2> QED BY <2>1, Zenon DEF Orphan
<1>4. srcVer' \in Nat /\ srcVer <= srcVer' /\ (Attached' => Attached /\ srcUp')
  <2>1. srcVer \in Nat /\ (Attached => srcUp)
    BY VersionNumbers, EntryFacts
  <2> QED BY SMTT(30), <1>b, <2>1
<1>5. /\ Ground' /\ JournalInv' /\ Pinned' /\ Ages'
      /\ \A v \in Nat : Since(v) => Since(v)'
  BY <1>b, <1>1, <1>2, <1>3, <1>4, FrameKeeps, CacheAssumption
<1>6. \A q \in Procs : Scan(q)'
  BY <1>b, <1>4, <1>5, ScanKept DEF EntryInv, Scans
<1> QED BY <1>5, <1>6 DEF EntryInv, Scans

LEMMA AcquireStartKeeps ==
    ASSUME CacheTypeOK, CacheInv, EntryInv, NEW p \in Procs, AcquireStart(p) PROVE EntryInv'
<1> USE DEF durable, source, ghosts, limits
<1>0. /\ GroundEntry /\ GroundLoad(p) /\ load[p] \in LoadT /\ Journal \in Record
      /\ load[p].rec \in Record /\ load \in [Procs -> LoadT] /\ Ages /\ AgesLoad(p)
      /\ cached \in BOOLEAN
  BY JournalTypes, Typed, EntryFacts DEF EntryTypes, LoadT, Ages
<1>a. \A q \in Procs : op[q].pc \notin Exclusive
  <2>1. load[p].at # "none" \/ ArtifactFree
    BY DEF Load, AcquireStart, AcquireHash, AcquireFinish, Release
  <2> QED BY <2>1 DEF CacheInv, ExclusiveAlone, ArtifactFree
<1>b. /\ op' = op /\ (Attached' <=> Attached)
      /\ UNCHANGED <<tomb, bundle, receipt, source, ghosts, limits>>
  BY DEF Load, AcquireStart, AcquireHash, AcquireFinish, Release, Attached
<1>1. /\ \A q \in Procs : load[q].at \notin Verifying
      /\ Read = "valid" /\ Com(Journal) /\ tomb = "none" /\ Journal \in {Hi, Lo}
  BY Reads DEF AcquireStart, MetaHeld, Com
<1>2. Attached => Journal = Hi /\ bundle \in Sized /\ JournalSlots
  BY <1>0, <1>1, AttachedReads, EntryFacts
<1>3. Journal.ver <= srcVer /\ (Com(receipt) => Journal.ver <= receipt.ver)
  BY <1>0, <1>1 DEF Ages, AgesEntry, NotNewer
<1>4. CASE cached = TRUE /\ Grant(p, Journal) /\ cached' = cached
  <2> DEFINE x == Loading(IF bundle = Journal.ver THEN "leased" ELSE "tainted")
  <2>1. load' = [load EXCEPT ![p] = x] /\ WriteJournal(Journal)
    BY <1>4 DEF Grant
  <2>2. x.at = (IF bundle = Journal.ver THEN "leased" ELSE "tainted")
    BY LoadRecords
  <2> HIDE DEF x
  <2>3. load'[p] = x /\ load'[p].at \notin Verifying
    BY <1>0, <2>1, <2>2 DEF Verifying
  <2>4. Hi' = Journal /\ Lo' = Hi
    BY <1>0, <1>1, <2>1, Written DEF Whole, Com
  <2>5. GroundEntry' /\ GroundLoad(p)'
    BY <1>0, <1>b, <1>1, <2>3, <2>4 DEF GroundEntry, GroundLoad, Decayed, Com, Verifying
  <2>6. AgesEntry' /\ AgesLoad(p)'
    BY <1>0, <1>b, <1>3, <2>3, <2>4 DEF Ages, AgesEntry, AgesLoad, NotNewer, Com
  <2>7. ASSUME Attached' PROVE JournalSlots' /\ JournalLoad(p)'
    <3>1. JournalSlots /\ Journal = Hi
      BY <1>b, <1>2, <2>7
    <3>2. JournalSlots'
      BY <1>b, <1>4, <2>4, <3>1 DEF JournalSlots, Decayed, Com, Sound, Unrotted, OnlyVersion
    <3> QED BY <2>3, <3>2 DEF JournalLoad
  <2>8. ASSUME Attached', asked' = TRUE PROVE PinnedEntry' /\ PinnedLoad(p)'
    <3>1. PinnedEntry /\ Journal = Hi
      BY <1>b, <2>8, EntryFacts
    <3> QED BY <1>b, <2>3, <2>4, <3>1 DEF PinnedEntry, PinnedLoad, Com
  <2>9. \A v \in Nat : v <= srcVer /\ Since(v) => EntrySince(v)' /\ LoadSince(v, p)'
    BY <1>b, <1>1, <2>3, <2>4 DEF Since, EntrySince, LoadSince, Com
  <2> QED BY <1>a, <1>b, <1>1, <2>1, <2>5, <2>6, <2>7, <2>8, <2>9, LoaderKeeps
<1>5. CASE /\ cached' = FALSE /\ UNCHANGED <<slots, top>>
           /\ load' = [load EXCEPT ![p] = [at |-> "verifying", rec |-> Journal]]
  <2>1. load'[p].at = "verifying" /\ load'[p].rec = Journal
    BY <1>0, <1>5
  <2>2. Hi' = Hi /\ Lo' = Lo
    BY <1>5, Rests
  <2>3. GroundEntry' /\ GroundLoad(p)'
    BY <1>0, <1>b, <1>1, <2>1, <2>2 DEF GroundEntry, GroundLoad, Decayed, Com, Verifying
  <2>4. AgesEntry' /\ AgesLoad(p)'
    BY <1>0, <1>b, <1>3, <2>1, <2>2 DEF Ages, AgesEntry, AgesLoad, NotNewer, Com
  <2>5. ASSUME Attached' PROVE JournalSlots' /\ JournalLoad(p)'
    <3>1. JournalSlots /\ Journal = Hi
      BY <1>b, <1>2, <2>5
    <3>2. JournalSlots'
      BY <1>b, <1>5, <2>2, <3>1 DEF JournalSlots, Decayed, Com, Sound, Unrotted, OnlyVersion
    <3> QED BY <1>1, <2>1, <2>2, <3>1, <3>2 DEF JournalLoad, JournalSlots, OnlyVersion, Com
  <2>6. ASSUME Attached', asked' = TRUE PROVE PinnedEntry' /\ PinnedLoad(p)'
    <3>1. PinnedEntry /\ Journal = Hi
      BY <1>b, <2>6, EntryFacts
    <3> QED BY <1>b, <2>1, <2>2, <3>1 DEF PinnedEntry, PinnedLoad, Com
  <2>7. \A v \in Nat : v <= srcVer /\ Since(v) => EntrySince(v)' /\ LoadSince(v, p)'
    BY <1>b, <1>1, <2>1, <2>2 DEF Since, EntrySince, LoadSince, Com
  <2> QED BY <1>a, <1>b, <1>1, <1>5, <2>3, <2>4, <2>5, <2>6, <2>7, LoaderKeeps
<1> QED BY <1>0, <1>4, <1>5 DEF AcquireStart

LEMMA AcquireHashKeeps ==
    ASSUME CacheTypeOK, CacheInv, EntryInv, NEW p \in Procs, AcquireHash(p) PROVE EntryInv'
<1> USE DEF durable, source, ghosts, limits
<1>0. /\ GroundEntry /\ GroundLoad(p) /\ load[p] \in LoadT /\ Journal \in Record
      /\ load[p].rec \in Record /\ load \in [Procs -> LoadT] /\ Ages /\ AgesLoad(p)
      /\ cached \in BOOLEAN
  BY JournalTypes, Typed, EntryFacts DEF EntryTypes, LoadT, Ages
<1>a. \A q \in Procs : op[q].pc \notin Exclusive
  <2>1. load[p].at # "none" \/ ArtifactFree
    BY DEF Load, AcquireStart, AcquireHash, AcquireFinish, Release
  <2> QED BY <2>1 DEF CacheInv, ExclusiveAlone, ArtifactFree
<1>b. /\ op' = op /\ (Attached' <=> Attached)
      /\ UNCHANGED <<tomb, bundle, receipt, source, ghosts, limits>>
  BY DEF Load, AcquireStart, AcquireHash, AcquireFinish, Release, Attached
<1>1. /\ load[p].at \in Verifying /\ UNCHANGED <<slots, top, cached>>
      /\ \A q \in Procs : q # p => load[q].at \notin Verifying
  BY DEF AcquireHash, Verifying, EntryInv, Ground, OneVerifies
<1>2. Hi' = Hi /\ Lo' = Lo
  BY <1>1, Rests
<1>3. PICK x : /\ load' = [load EXCEPT ![p] = x]
               /\ \/ x.at = "none"
                  \/ x.at \in {"read", "read then moved"} /\ x.rec = load[p].rec
                     /\ bundle = load[p].rec.ver
  <2>1. CASE bundle # load[p].rec.ver
    BY <2>1, LoadRecords DEF AcquireHash
  <2>2. CASE bundle = load[p].rec.ver
    <3> DEFINE c == IF load[p].at = "moved" THEN "read then moved" ELSE "read"
               y == [load[p] EXCEPT !.at = c]
    <3>1. c \in LoadSteps /\ c \in {"read", "read then moved"}
      BY StepNames
    <3>2. y.at = c /\ y.rec = load[p].rec
      BY <1>0, <3>1, LoadTypes
    <3>3. load' = [load EXCEPT ![p] = y]
      BY <2>2 DEF AcquireHash
    <3>4. y.at \in {"read", "read then moved"}
      BY <3>1, <3>2
    <3> HIDE DEF c, y
    <3> QED BY <2>2, <3>2, <3>3, <3>4
  <2> QED BY <2>1, <2>2
<1>4. load'[p] = x /\ (x.at \in Verifying => x.rec = load[p].rec)
  BY <1>0, <1>3, Steps
<1>5. GroundEntry' /\ GroundLoad(p)'
  BY <1>0, <1>b, <1>1, <1>2, <1>3, <1>4 DEF GroundEntry, GroundLoad, Decayed, Com
<1>6. AgesEntry' /\ AgesLoad(p)'
  BY <1>0, <1>b, <1>1, <1>2, <1>4 DEF Ages, AgesEntry, AgesLoad, NotNewer, Com
<1>7. ASSUME Attached' PROVE JournalSlots' /\ JournalLoad(p)'
  <2>1. JournalSlots /\ JournalLoad(p)
    BY <1>b, <1>7, EntryFacts
  <2>2. JournalSlots'
    BY <1>b, <1>1, <1>2, <2>1 DEF JournalSlots, Decayed, Com, Sound, Unrotted, OnlyVersion
  <2> QED BY <1>b, <1>1, <1>2, <1>4, <2>1, <2>2 DEF JournalLoad, OnlyVersion, Com, Unrotted
<1>8. ASSUME Attached', asked' = TRUE PROVE PinnedEntry' /\ PinnedLoad(p)'
  <2>1. PinnedEntry /\ PinnedLoad(p)
    BY <1>b, <1>8, EntryFacts
  <2> QED BY <1>b, <1>1, <1>2, <1>4, <2>1 DEF PinnedEntry, PinnedLoad, Com
<1>9. \A v \in Nat : v <= srcVer /\ Since(v) => EntrySince(v)' /\ LoadSince(v, p)'
  BY <1>b, <1>1, <1>2, <1>4 DEF Since, EntrySince, LoadSince, Com
<1> QED BY <1>a, <1>b, <1>1, <1>3, <1>5, <1>6, <1>7, <1>8, <1>9, LoaderKeeps

LEMMA AcquireFinishKeeps ==
    ASSUME CacheTypeOK, CacheInv, EntryInv, Vouched, NEW p \in Procs, AcquireFinish(p)
    PROVE  EntryInv'
<1> USE DEF durable, source, ghosts, limits
<1>0. /\ GroundEntry /\ GroundLoad(p) /\ load[p] \in LoadT /\ Journal \in Record
      /\ load[p].rec \in Record /\ load \in [Procs -> LoadT] /\ Ages /\ AgesLoad(p)
      /\ cached \in BOOLEAN
  BY JournalTypes, Typed, EntryFacts DEF EntryTypes, LoadT, Ages
<1>a. \A q \in Procs : op[q].pc \notin Exclusive
  <2>1. load[p].at # "none" \/ ArtifactFree
    BY DEF Load, AcquireStart, AcquireHash, AcquireFinish, Release
  <2> QED BY <2>1 DEF CacheInv, ExclusiveAlone, ArtifactFree
<1>b. /\ op' = op /\ (Attached' <=> Attached)
      /\ UNCHANGED <<tomb, bundle, receipt, source, ghosts, limits>>
  BY DEF Load, AcquireStart, AcquireHash, AcquireFinish, Release, Attached
<1>1. /\ load[p].at \in Verifying /\ Com(load[p].rec) /\ bundle \in Sized /\ tomb = "none"
      /\ \A q \in Procs : q # p => load[q].at \notin Verifying
  <2>1. load[p].at \in Verifying /\ load[p].at # "none"
    BY DEF AcquireFinish, Verifying
  <2> QED BY <1>0, <2>1 DEF EntryInv, Ground, OneVerifies, GroundLoad, CacheInv, LoadsBacked
<1>2. PICK x : /\ load' = [load EXCEPT ![p] = x] /\ x.at \in {"none", "leased", "tainted"}
               /\ \/ UNCHANGED <<slots, top, cached>>
                  \/ /\ load[p].at = "read" /\ cached' = TRUE
                     /\ WriteJournal(load[p].rec)
  <2>1. CASE load[p].at = "read"
    <3>1. PICK c \in {"leased", "tainted"} : load' = [load EXCEPT ![p] = Loading(c)]
      BY <2>1 DEF AcquireFinish, Grant
    <3> QED BY <2>1, <3>1, LoadRecords DEF AcquireFinish, Grant
  <2>2. CASE load[p].at # "read"
    BY <2>2, LoadRecords DEF AcquireFinish
  <2> QED BY <2>1, <2>2
<1>3. load'[p] = x /\ load'[p].at \notin Verifying /\ load'[p].at # "read"
  BY <1>0, <1>2 DEF Verifying
<1>4. CASE UNCHANGED <<slots, top, cached>>
  <2>1. Hi' = Hi /\ Lo' = Lo
    BY <1>4, Rests
  <2>2. GroundEntry' /\ GroundLoad(p)'
    BY <1>0, <1>b, <1>3, <2>1 DEF GroundEntry, GroundLoad, Decayed, Com
  <2>3. AgesEntry' /\ AgesLoad(p)'
    BY <1>0, <1>b, <1>3, <2>1 DEF Ages, AgesEntry, AgesLoad, NotNewer, Com
  <2>4. ASSUME Attached' PROVE JournalSlots' /\ JournalLoad(p)'
    <3>1. JournalSlots
      BY <1>b, <2>4, EntryFacts
    <3>2. JournalSlots'
      BY <1>b, <1>4, <2>1, <3>1 DEF JournalSlots, Decayed, Com, Sound, Unrotted, OnlyVersion
    <3> QED BY <1>3, <3>2 DEF JournalLoad
  <2>5. ASSUME Attached', asked' = TRUE PROVE PinnedEntry' /\ PinnedLoad(p)'
    <3>1. PinnedEntry
      BY <1>b, <2>5, EntryFacts
    <3> QED BY <1>b, <1>3, <2>1, <3>1 DEF PinnedEntry, PinnedLoad, Com
  <2>6. \A v \in Nat : v <= srcVer /\ Since(v) => EntrySince(v)' /\ LoadSince(v, p)'
    BY <1>b, <1>3, <2>1 DEF Since, EntrySince, LoadSince, Com
  <2> QED BY <1>a, <1>b, <1>1, <1>2, <2>2, <2>3, <2>4, <2>5, <2>6, LoaderKeeps
<1>5. CASE load[p].at = "read" /\ cached' = TRUE /\ WriteJournal(load[p].rec)
  <2> DEFINE r == load[p].rec
  <2>1. /\ Read = "valid" => Hi' = r /\ Lo' = Hi
        /\ Read # "valid" => \/ Hi' = r /\ Lo' \in {Hi, Lo} /\ ~Whole(Lo')
                             \/ Hi' \in {Hi, Lo} /\ Whole(Hi') /\ Lo' = r
    BY <1>0, <1>1, <1>5, Written DEF Whole, Com
  <2> HIDE DEF r
  <2>2. GroundEntry' /\ GroundLoad(p)'
    BY <1>0, <1>b, <1>1, <1>3, <2>1 DEF GroundEntry, GroundLoad, Decayed, Com, r
  <2>3. r.ver <= srcVer /\ (Com(receipt) => r.ver <= receipt.ver) /\ Com(r)
    BY <1>0, <1>1 DEF AgesLoad, r
  <2>4. AgesEntry' /\ AgesLoad(p)'
    BY <1>0, <1>b, <1>3, <2>1, <2>3 DEF Ages, AgesEntry, AgesLoad, NotNewer, Com
  <2>5. ASSUME Attached' PROVE JournalSlots' /\ JournalLoad(p)'
    <3>1. /\ JournalSlots /\ OnlyVersion(r.ver) /\ (Unrotted => Hi = r)
      BY <1>b, <1>1, <2>5, EntryFacts DEF JournalLoad, r
    <3>2. /\ Read # "valid" => ~Whole(Hi) /\ ~Whole(Lo)
      BY <1>0, <1>b, <1>1, <2>5, AttachedReads
    <3>3. Hi' = r /\ (Lo' = Hi \/ ~Whole(Lo')) /\ (Unrotted => Lo' = r)
      BY <2>1, <2>3, <3>1, <3>2 DEF Whole, Com
    <3>4. Sound => Unrotted
      BY DEF Sound, Unrotted
    <3>5. OnlyVersion(r.ver) /\ Com(Hi') => (Com(Lo') => Lo'.ver = r.ver)
      BY <3>1, <3>3 DEF OnlyVersion, Com, Whole
    <3>6. Decayed \/ (bundle = r.ver /\ (Com(receipt) => receipt.ver = bundle))
      BY <1>0, <1>1, <1>5, MatchedReceipt DEF GroundLoad, r
    <3>7. Decayed => ~Sound /\ bundle \notin Versions /\ tomb # "bad"
      BY SMTT(30), <1>1 DEF Decayed, Sound, Altered, Versions
    <3>8. JournalSlots'
      BY <1>b, <1>5, <2>3, <3>1, <3>3, <3>4, <3>5, <3>6, <3>7
      DEF JournalSlots, Decayed, Com, Sound, Unrotted, OnlyVersion
    <3> QED BY <1>3, <3>8 DEF JournalLoad
  <2>6. ASSUME Attached', asked' = TRUE PROVE PinnedEntry' /\ PinnedLoad(p)'
    <3>1. PinnedEntry /\ Read = "valid" /\ r.pin = TRUE
      BY <1>b, <1>1, <2>6, EntryFacts DEF PinnedLoad, r
    <3> QED BY <1>b, <1>1, <1>3, <2>1, <2>3, <3>1 DEF PinnedEntry, PinnedLoad, Com, Whole
  <2>7. \A v \in Nat : v <= srcVer /\ Since(v) => EntrySince(v)' /\ LoadSince(v, p)'
    BY <1>b, <1>1, <1>3, <2>1, <2>3 DEF Since, EntrySince, LoadSince, Com, r
  <2> QED BY <1>a, <1>b, <1>1, <1>2, <2>2, <2>4, <2>5, <2>6, <2>7, LoaderKeeps
<1> QED BY <1>2, <1>4, <1>5

LEMMA LoadKeeps ==
    ASSUME CacheTypeOK, CacheInv, EntryInv, Vouched, NEW p \in Procs, Load(p) PROVE EntryInv'
BY ReleaseKeeps, AcquireStartKeeps, AcquireHashKeeps, AcquireFinishKeeps DEF Load

LEMMA SetPinKeeps ==
    ASSUME CacheTypeOK, CacheInv, EntryInv, NEW p \in Procs, NEW pinned \in BOOLEAN,
           SetPin(p, pinned)
    PROVE  EntryInv'
<1> USE DEF source, limits
<1> DEFINE r == [Journal EXCEPT !.pin = pinned]
<1>0. GroundEntry /\ Ages /\ Journal \in Record
  BY JournalTypes, EntryFacts
<1>1. /\ op' = op /\ load' = load
      /\ UNCHANGED <<tomb, bundle, receipt, cached, source, condemned, limits>>
      /\ asked' = pinned /\ (Attached' <=> Attached)
      /\ Read = "valid" /\ WriteJournal(r)
  BY DEF SetPin, Attached
<1>2. \A q \in Procs : load[q].at \notin Verifying /\ op[q].pc \notin MetaSteps
  BY DEF SetPin, MetaHeld
<1>3. /\ r \in Record /\ r.st = Journal.st /\ r.ses = Journal.ses
      /\ r.ver = Journal.ver /\ r.pin = pinned
  BY SMTT(30), <1>0, RecordTypes
<1> HIDE DEF r
<1>4. Hi' = r /\ Lo' = Hi /\ Whole(r) /\ tomb = "none" /\ Journal \in {Hi, Lo}
  <2>1. Whole(Journal) /\ tomb = "none" /\ Journal \in {Hi, Lo}
    BY <1>1, Reads DEF ShapeValid, Whole
  <2> QED BY <1>1, <1>3, <2>1, Written DEF Whole
<1>5. Ground'
  <2>1. GroundEntry'
    BY <1>0, <1>1, <1>4 DEF GroundEntry, Com, Whole
  <2>2. OneVerifies' /\ \A q \in Procs : GroundLoad(q)' /\ GroundOp(q)'
    BY <1>1 DEF EntryInv, Ground, OneVerifies, GroundLoad, Decayed, GroundOp, Com
  <2> QED BY <2>1, <2>2 DEF Ground
<1>6. JournalInv'
  <2> SUFFICES ASSUME Attached'
               PROVE  JournalSlots' /\ \A q \in Procs : JournalOp(q)' /\ JournalLoad(q)'
    BY DEF JournalInv
  <2>1. /\ JournalSlots /\ Attached /\ (Com(r) => Com(Hi) /\ r.ver = Hi.ver)
        /\ Hi.st = "mat" => Journal = Hi
    <3>1. Com(Journal) => Journal = Hi
      BY <1>0, <1>1, AttachedReads
    <3>2. Hi.st = "mat" => Journal = Hi
      BY <1>0, <1>1, AttachedReads, Reads
    <3> QED BY <1>1, <1>3, <3>1, <3>2, EntryFacts DEF Com
  <2>2. JournalSlots'
    BY <1>1, <1>4, <2>1 DEF JournalSlots, Decayed, Com, Sound, Unrotted, OnlyVersion
  <2>3. ASSUME NEW q \in Procs PROVE JournalOp(q)'
    <3>1. JournalOp(q) /\ op'[q].pc \notin MetaSteps
      BY <1>1, <1>2, <2>1 DEF EntryInv, JournalInv
    <3>2. op[q].pc \in OwnerSteps /\ Unrotted => Hi'.st = "mat" /\ Hi'.ses = q
      BY <1>3, <1>4, <2>1, <3>1 DEF JournalOp
    <3>3. op[q].pc \in OwnerSteps /\ Sound => ~Com(Lo')
      BY <1>4, <3>1 DEF JournalOp, Sound, Unrotted, Com
    <3> QED BY <1>1, <3>1, <3>2, <3>3, Steps DEF JournalOp, Sound, Unrotted, Com
  <2>4. \A q \in Procs : JournalLoad(q)'
    BY <1>1, <1>2, <2>1 DEF EntryInv, JournalInv, JournalLoad
  <2> QED BY <2>2, <2>3, <2>4
<1>7. Pinned'
  <2> SUFFICES ASSUME Attached', asked' = TRUE
               PROVE  PinnedEntry' /\ \A q \in Procs : PinnedOp(q)' /\ PinnedLoad(q)'
    BY DEF Pinned
  <2>1. Com(r) => bundle \in Sized
    BY <1>0, <1>1, <1>3, AttachedReads DEF Com
  <2>2. PinnedEntry'
    BY <1>1, <1>3, <1>4, <2>1 DEF PinnedEntry, Com, Whole
  <2>3. \A q \in Procs : PinnedOp(q)' /\ PinnedLoad(q)'
    BY <1>1, <1>2, Steps DEF PinnedOp, PinnedLoad
  <2> QED BY <2>2, <2>3
<1>8. Com(r) => Com(Journal) /\ r.ver = Journal.ver
  BY <1>3 DEF Com
<1>9. Ages'
  <2>1. \A v \in Nat : NotNewer(v) => NotNewer(v)'
    BY <1>4, <1>8 DEF NotNewer
  <2>2. AgesEntry'
    BY <1>0, <1>1, <2>1, VersionNumbers DEF Ages, AgesEntry
  <2>3. ASSUME NEW q \in Procs PROVE AgesOp(q)' /\ AgesLoad(q)'
    BY <1>0, <1>1, <1>2, <2>1, VersionNumbers DEF Ages, AgesOp, AgesLoad
  <2> QED BY <2>2, <2>3 DEF Ages
<1>10. \A v \in Nat : Since(v) => Since(v)'
  BY <1>1, <1>4, <1>8 DEF Since, EntrySince, OpSince, LoadSince
<1>11. ASSUME NEW q \in Procs PROVE Scan(q)'
  <2>1. srcVer' \in Nat /\ srcVer <= srcVer'
    BY <1>1, SourceSteady
  <2> QED BY <1>1, <1>10, <2>1, ScanKept DEF EntryInv, Scans
<1> QED BY <1>5, <1>6, <1>7, <1>9, <1>11 DEF EntryInv, Scans

(* Processes that start or die, the source that comes and goes *)
LEMMA OutsideKeeps ==
    ASSUME CacheTypeOK, EntryInv, NEW p, p # NoSession,
           \/ p \in Procs /\ (Open(p) \/ Crash(p))
           \/ Detach \/ Attach \/ Rewrite \/ UNCHANGED vars
    PROVE  EntryInv'
<1> USE DEF durable, source, ghosts, limits, vars
<1>0. op \in [Procs -> OpT] /\ load \in [Procs -> LoadT] /\ srcVer \in Nat /\ (Attached => srcUp)
  BY Typed, VersionNumbers DEF EntryInv, Ground, GroundEntry
<1>1. UNCHANGED <<tomb, bundle, receipt, cached, ghosts, fault>>
  BY DEF Open, Crash, Detach, Attach, Rewrite
<1>2. Orphan(Hi, Hi', p) /\ Orphan(Lo, Lo', p) /\ (op'[p].pc \in Exclusive => Hi' = Hi)
  <2>1. CASE p \in Procs /\ Crash(p)
    <3>1. op'[p].pc = "idle"
      BY <1>0, <2>1, OpTypes DEF Crash
    <3> QED BY <2>1, <3>1, Orphaned, Steps
  <2>2. CASE ~(p \in Procs /\ Crash(p))
    <3>1. UNCHANGED <<slots, top>>
      BY <2>2 DEF Open, Detach, Attach, Rewrite
    <3>2. Hi' = Hi /\ Lo' = Lo
      BY <3>1, Rests
    <3> QED BY <3>2, Zenon DEF Orphan
  <2> QED BY <2>1, <2>2
<1>3. /\ \A q \in Procs : op'[q] = op[q] \/ op'[q].pc = "idle"
      /\ \A q \in Procs : load'[q].at # "none" => load'[q] = load[q]
  <2>1. CASE p \in Procs /\ Crash(p)
    BY <1>0, <2>1, OpTypes, LoadRecords DEF Crash
  <2>2. CASE ~(p \in Procs /\ Crash(p))
    BY <2>2 DEF Open, Detach, Attach, Rewrite
  <2> QED BY <2>1, <2>2
<1>4. srcVer' \in Nat /\ srcVer <= srcVer'
  BY SMTT(30), <1>0 DEF Open, Crash, Detach, Attach, Rewrite
<1>5. Attached' => Attached /\ srcUp'
  <2>1. budget \in [interruptions : 0..MaxInterruptions, detaches : 0..MaxDetaches]
    BY SourceTypes
  <2>2. CASE Detach
    <3>1. budget'.detaches = budget.detaches - 1 /\ budget.detaches \in 0..MaxDetaches
      BY <2>1, <2>2 DEF Detach
    <3> QED BY SMTT(30), <3>1, CacheAssumption DEF Attached
  <2>3. CASE ~Detach
    <3>1. budget'.detaches = budget.detaches
      BY <2>1, <2>3 DEF Open, Crash, Attach, Rewrite
    <3>2. srcUp => srcUp'
      BY <2>3 DEF Open, Crash, Attach, Rewrite
    <3> QED BY <1>0, <3>1, <3>2 DEF Attached
  <2> QED BY <2>2, <2>3
<1>6. \A q \in Procs : op'[q].pc \in Exclusive => op'[q] = op[q]
  BY <1>3, Steps
<1>7. /\ Ground' /\ JournalInv' /\ Pinned' /\ Ages'
      /\ \A v \in Nat : Since(v) => Since(v)'
  BY <1>1, <1>2, <1>3, <1>4, <1>5, <1>6, FrameKeeps
<1>8. ASSUME NEW q \in Procs PROVE Scan(q)'
  <2>1. op'[q] = op[q] \/ op'[q].pc \notin Scanning
    BY <1>3 DEF Scanning
  <2> QED BY <1>4, <1>5, <1>7, <2>1, ScanKept DEF EntryInv, Scans
<1> QED BY <1>7, <1>8 DEF EntryInv, Scans

(* Damage: none of it makes a record complete or moves anybody. *)
LEMMA DamagedAges ==
    ASSUME CacheTypeOK, EntryInv, op' = op, receipt' = receipt, srcVer' = srcVer,
           Attached' <=> Attached, Com(Hi') => Derived(Hi'), Derived(Lo'),
           \A q \in Procs : /\ load'[q].rec = load[q].rec
                            /\ load'[q].at \in Verifying <=> load[q].at \in Verifying
    PROVE  Ages' /\ Scans'
<1>1. srcVer \in Nat /\ srcVer <= srcVer
  BY SMTT(30), VersionNumbers
<1>2. Derived(Hi') /\ Derived(Lo') /\ (Com(receipt') <=> Com(receipt))
  BY DEF Derived, Com
<1>3. \A v \in Nat : NotNewer(v) => NotNewer(v)'
  BY <1>2 DEF NotNewer, Derived
<1>4. AgesEntry'
  BY <1>2, <1>3, VersionNumbers DEF EntryInv, Ages, AgesEntry
<1>5. ASSUME NEW q \in Procs PROVE AgesOp(q)'
  BY <1>3, VersionNumbers DEF EntryInv, Ages, AgesOp
<1>6. \A q \in Procs : AgesLoad(q)'
  BY <1>2 DEF EntryInv, Ages, AgesLoad
<1>7. \A v \in Nat : Since(v) => Since(v)'
  BY <1>2 DEF Since, EntrySince, OpSince, LoadSince, Derived
<1>8. ASSUME NEW q \in Procs PROVE Scan(q)'
  BY <1>1, <1>7, ScanKept DEF EntryInv, Scans
<1> QED BY <1>4, <1>5, <1>6, <1>8 DEF Ages, Scans

LEMMA AlterKeeps ==
    ASSUME CacheTypeOK, CacheInv, EntryInv, Alter PROVE EntryInv'
<1> USE DEF source, ghosts
<1>0. GroundEntry /\ load \in [Procs -> LoadT]
  BY Typed DEF EntryInv, Ground
<1>1. /\ op' = op /\ UNCHANGED <<slots, top, tomb, receipt, source, ghosts, budget>>
      /\ cached' = FALSE /\ bundle' = Altered /\ fault' = "alter" /\ fault = "none"
      /\ bundle \in Versions
  BY DEF Alter
<1>2. Hi' = Hi /\ Lo' = Lo /\ (Attached' <=> Attached)
  BY <1>1, Rests DEF Attached
<1>3. \A q \in Procs : /\ load'[q].rec = load[q].rec
                       /\ load'[q].at \in Verifying <=> load[q].at \in Verifying
                       /\ load'[q].at # "read"
  <2> TAKE q \in Procs
  <2> DEFINE c == CASE load[q].at = "verifying" -> "moved"
                    [] load[q].at = "read" -> "read then moved"
                    [] OTHER -> load[q].at
  <2>1. load'[q] = [load[q] EXCEPT !.at = c]
    BY DEF Alter
  <2>2. load[q] \in LoadT /\ load[q].at \in LoadSteps
    BY <1>0 DEF LoadT
  <2>3. /\ c \in LoadSteps /\ (c \in Verifying <=> load[q].at \in Verifying)
        /\ c # "read"
    BY <2>2, StepNames DEF Verifying
  <2> HIDE DEF c
  <2>4. load'[q].at = c /\ load'[q].rec = load[q].rec
    BY SMTT(30), <2>1, <2>2, <2>3, LoadTypes
  <2> QED BY <2>3, <2>4
<1>4. Altered # Absent /\ Altered \in Sized /\ Altered \notin Versions /\ Absent \notin Versions
  BY SMTT(30), CacheAssumption DEF Altered, Absent, Sized, Versions
<1>5. Ground'
  <2>1. GroundEntry'
    BY <1>0, <1>1, <1>2 DEF GroundEntry, Com
  <2>2. OneVerifies' /\ \A q \in Procs : GroundLoad(q)'
    BY <1>3 DEF EntryInv, Ground, OneVerifies, GroundLoad
  <2>3. ASSUME NEW q \in Procs PROVE GroundOp(q)'
    BY <1>1, <1>4 DEF EntryInv, Ground, GroundOp, Com
  <2> QED BY <2>1, <2>2, <2>3 DEF Ground
<1>6. JournalInv'
  <2>1. JournalSlots => JournalSlots'
    BY <1>1, <1>2, <1>4 DEF JournalSlots, Decayed, Com, Sound, Unrotted, OnlyVersion
  <2>2. ASSUME NEW q \in Procs, JournalOp(q) PROVE JournalOp(q)'
    BY <1>1, <1>2, <2>2 DEF JournalOp, Com, Sound, Unrotted, OnlyVersion, NoComplete
  <2>3. ASSUME NEW q \in Procs, JournalLoad(q) PROVE JournalLoad(q)'
    BY <1>1, <1>2, <1>3, <2>3 DEF JournalLoad, Com, Unrotted, OnlyVersion
  <2> QED BY <1>2, <2>1, <2>2, <2>3 DEF EntryInv, JournalInv
<1>7. Pinned'
  <2>1. PinnedEntry => PinnedEntry'
    BY <1>1, <1>2, <1>4 DEF PinnedEntry, Com, Whole
  <2>2. \A q \in Procs : PinnedOp(q) => PinnedOp(q)'
    BY <1>1, <1>2 DEF PinnedOp, Com
  <2>3. \A q \in Procs : PinnedLoad(q) => PinnedLoad(q)'
    BY <1>3 DEF PinnedLoad
  <2> QED BY <1>1, <1>2, <2>1, <2>2, <2>3 DEF EntryInv, Pinned
<1>8. Ages' /\ Scans'
  BY <1>1, <1>2, <1>3, DamagedAges DEF Derived, Com
<1> QED BY <1>5, <1>6, <1>7, <1>8 DEF EntryInv

LEMMA DecayKeeps ==
    ASSUME CacheTypeOK, CacheInv, EntryInv, Decay PROVE EntryInv'
<1> USE DEF source, ghosts
<1>0. GroundEntry
  BY DEF EntryInv, Ground
<1>1. /\ op' = op /\ load' = load
      /\ UNCHANGED <<slots, top, tomb, receipt, cached, source, ghosts, budget>>
      /\ bundle' = Altered /\ fault' = "decay" /\ fault = "none" /\ bundle \in Versions
  BY DEF Decay
<1>2. Hi' = Hi /\ Lo' = Lo /\ (Attached' <=> Attached)
  BY <1>1, Rests DEF Attached
<1>3. Altered # Absent /\ Altered \in Sized /\ Altered \notin Versions /\ Absent \notin Versions
  BY SMTT(30), CacheAssumption DEF Altered, Absent, Sized, Versions
<1>4. Ground'
  <2>1. GroundEntry'
    BY <1>0, <1>1, <1>2 DEF GroundEntry, Com
  <2>2. OneVerifies' /\ \A q \in Procs : GroundLoad(q)'
    BY <1>1 DEF EntryInv, Ground, OneVerifies, GroundLoad, Decayed, Com
  <2>3. ASSUME NEW q \in Procs PROVE GroundOp(q)'
    BY <1>1, <1>3 DEF EntryInv, Ground, GroundOp, Com
  <2> QED BY <2>1, <2>2, <2>3 DEF Ground
<1>5. JournalInv'
  <2>1. JournalSlots => JournalSlots'
    BY <1>0, <1>1, <1>2, <1>3 DEF GroundEntry, JournalSlots, Decayed, Com, Sound, Unrotted
  <2>2. ASSUME NEW q \in Procs, JournalOp(q) PROVE JournalOp(q)'
    BY <1>1, <1>2, <2>2 DEF JournalOp, Com, Sound, Unrotted, OnlyVersion, NoComplete
  <2>3. ASSUME NEW q \in Procs, JournalLoad(q) PROVE JournalLoad(q)'
    BY <1>1, <1>2, <2>3 DEF JournalLoad, Com, Unrotted, OnlyVersion
  <2> QED BY <1>2, <2>1, <2>2, <2>3 DEF EntryInv, JournalInv
<1>6. Pinned'
  BY <1>1, <1>2, <1>3 DEF EntryInv, Pinned, PinnedEntry, PinnedOp, PinnedLoad, Com, Whole
<1>7. Ages' /\ Scans'
  BY <1>1, <1>2, DamagedAges DEF Derived, Com
<1> QED BY <1>4, <1>5, <1>6, <1>7 DEF EntryInv

LEMMA RotTombKeeps ==
    ASSUME CacheTypeOK, CacheInv, EntryInv, RotTomb PROVE EntryInv'
<1> USE DEF source, ghosts
<1>0. GroundEntry /\ load \in [Procs -> LoadT]
  BY Typed DEF EntryInv, Ground
<1>1. /\ op' = op /\ load' = load
      /\ UNCHANGED <<slots, top, bundle, receipt, cached, source, ghosts, budget>>
      /\ tomb' = "bad" /\ fault' = "tomb" /\ fault = "none" /\ tomb # "none"
  BY DEF RotTomb, Sanctioned
<1>2. Hi' = Hi /\ Lo' = Lo /\ (Attached' <=> Attached)
  BY <1>1, Rests DEF Attached
<1>3. Ground'
  <2>1. GroundEntry'
    BY <1>0, <1>1, <1>2 DEF GroundEntry, Com
  <2>2. OneVerifies' /\ \A q \in Procs : GroundLoad(q)'
    BY <1>1 DEF EntryInv, Ground, OneVerifies, GroundLoad, Decayed, Com
  <2>3. ASSUME NEW q \in Procs PROVE GroundOp(q)'
    BY <1>1 DEF EntryInv, Ground, GroundOp, Com
  <2> QED BY <2>1, <2>2, <2>3 DEF Ground
<1>4. JournalInv'
  <2>1. JournalSlots => JournalSlots'
    BY <1>1, <1>2 DEF JournalSlots, Decayed, Com, Sound, Unrotted, OnlyVersion
  <2>2. ASSUME NEW q \in Procs, JournalOp(q) PROVE JournalOp(q)'
    BY <1>1, <1>2, <2>2 DEF JournalOp, Com, Sound, Unrotted, OnlyVersion, NoComplete
  <2>3. ASSUME NEW q \in Procs, JournalLoad(q) PROVE JournalLoad(q)'
    BY <1>1, <1>2, <2>3 DEF JournalLoad, Com, Unrotted, OnlyVersion
  <2> QED BY <1>2, <2>1, <2>2, <2>3 DEF EntryInv, JournalInv
<1>5. Pinned'
  BY <1>1, <1>2 DEF EntryInv, Pinned, PinnedEntry
<1>6. Ages' /\ Scans'
  BY <1>1, <1>2, DamagedAges DEF Derived, Com
<1> QED BY <1>3, <1>4, <1>5, <1>6 DEF EntryInv

LEMMA RotKeeps ==
    ASSUME CacheTypeOK, CacheInv, EntryInv, NEW i \in 0..1, Rot(i) PROVE EntryInv'
<1> USE DEF source, ghosts
<1>0. GroundEntry /\ load \in [Procs -> LoadT]
  BY Typed DEF EntryInv, Ground
<1>1. /\ op' = op /\ load' = load
      /\ UNCHANGED <<top, tomb, bundle, receipt, cached, source, condemned, budget>>
      /\ fault' = "rot" /\ fault = "none" /\ asked' = FALSE
      /\ slots' = [slots EXCEPT ![i] = Rotten]
  BY DEF Rot
<1>2. Rotten \in Record /\ ~Whole(Rotten) /\ ~Com(Rotten)
  BY RecordTypes DEF Rotten, NoRecord, Whole, Com
<1>3. PICK o \in {Hi, Lo} : \/ Hi' = o /\ Lo' = Rotten
                            \/ Hi' = Rotten /\ Lo' = o /\ ~Whole(o)
  BY <1>1, <1>2, SlotLost
<1>4. Attached' <=> Attached
  BY <1>1 DEF Attached
<1>5. /\ ~Com(Hi') \/ Hi' = o
      /\ ~Com(Lo')
  BY <1>2, <1>3 DEF Whole, Com
<1>6. \A v : OnlyVersion(v) => OnlyVersion(v)'
  BY <1>5 DEF OnlyVersion
<1>7. Ground'
  <2>1. GroundEntry'
    BY <1>0, <1>1, <1>4 DEF GroundEntry, Com
  <2>2. OneVerifies' /\ \A q \in Procs : GroundLoad(q)'
    BY <1>1 DEF EntryInv, Ground, OneVerifies, GroundLoad, Decayed, Com
  <2>3. ASSUME NEW q \in Procs PROVE GroundOp(q)'
    BY <1>1 DEF EntryInv, Ground, GroundOp, Com
  <2> QED BY <2>1, <2>2, <2>3 DEF Ground
<1>8. JournalInv'
  <2>1. JournalSlots => JournalSlots'
    BY <1>0, <1>1, <1>5, <1>6 DEF JournalSlots, Decayed, Sound, Unrotted, GroundEntry
  <2>2. ASSUME NEW q \in Procs, JournalOp(q) PROVE JournalOp(q)'
    <3>1. op[q].pc = "receipted" => NoComplete'
      <4>1. op[q].pc = "receipted" => ~Com(Hi) /\ ~Com(Lo)
        BY <1>1, <2>2 DEF JournalOp, OwnerSteps, Com, Sound, Unrotted
      <4> QED BY <1>5, <4>1 DEF NoComplete
    <3>2. op[q].pc # "resurrecting"
      BY <1>1, <2>2 DEF JournalOp, Sound
    <3> QED BY <1>1, <3>1, <3>2 DEF JournalOp, Sound, Unrotted
  <2>3. ASSUME NEW q \in Procs, JournalLoad(q) PROVE JournalLoad(q)'
    BY <1>1, <1>6, <2>3 DEF JournalLoad, Unrotted
  <2> QED BY <1>4, <2>1, <2>2, <2>3 DEF EntryInv, JournalInv
<1>9. Pinned'
  BY <1>1 DEF Pinned
<1>10. Ages' /\ Scans'
  BY <1>1, <1>4, <1>5, DamagedAges DEF Derived
<1> QED BY <1>7, <1>8, <1>9, <1>10 DEF EntryInv

LEMMA DamageKeeps ==
    ASSUME CacheTypeOK, CacheInv, EntryInv, Damage PROVE EntryInv'
BY AlterKeeps, DecayKeeps, RotTombKeeps, RotKeeps DEF Damage

-----------------------------------------------------------------------------
(* The theorems *)

LEMMA EntryInit == Init => EntryInv
<1> SUFFICES ASSUME Init PROVE EntryInv
  OBVIOUS
<1>1. CacheTypeOK /\ Ground
  BY TypeInit, GroundInit
<1>2. \A p \in Procs : op[p].pc = "idle" /\ load[p].at = "none"
  BY OpRecords, LoadRecords DEF Init
<1>3. ~Com(Hi) /\ ~Com(Lo) /\ ~Com(receipt)
  BY <1>1, JournalTypes DEF Init, Hi, Lo, NoRecord, Com
<1>4. JournalInv
  <2>1. JournalSlots
    BY <1>3 DEF JournalSlots, Decayed, OnlyVersion
  <2>2. \A p \in Procs : JournalOp(p) /\ JournalLoad(p)
    BY <1>2, Steps DEF JournalOp, JournalLoad
  <2> QED BY <2>1, <2>2 DEF JournalInv
<1>5. Pinned
  BY DEF Init, Pinned
<1>6. Ages
  <2>1. AgesEntry
    BY <1>3 DEF AgesEntry, NotNewer
  <2>2. \A p \in Procs : AgesOp(p) /\ AgesLoad(p)
    BY <1>2, Steps DEF AgesOp, AgesLoad
  <2> QED BY <2>1, <2>2 DEF Ages
<1>7. Scans
  BY <1>2 DEF Scans, Scan, Scanning
<1> QED BY <1>1, <1>4, <1>5, <1>6, <1>7 DEF EntryInv

LEMMA EntryStep == CacheTypeOK /\ CacheInv /\ EntryInv /\ Vouched /\ [Next]_vars => EntryInv'
<1> SUFFICES ASSUME CacheTypeOK, CacheInv, EntryInv, Vouched, [Next]_vars PROVE EntryInv'
  OBVIOUS
<1>0. Gone # NoSession /\ \A p \in Procs : p # NoSession
  BY CacheAssumption
<1>1. ASSUME NEW p \in Procs, Materialize(p) \/ Load(p) \/ Retain(p) \/ Remove(p) \/ Recover(p)
      PROVE  EntryInv'
  BY <1>1, MaterializeKeeps, LoadKeeps, RetainKeeps, RemoveKeeps, RecoverKeeps
<1>2. ASSUME NEW p \in Procs, Open(p) \/ Crash(p) PROVE EntryInv'
  BY <1>0, <1>2, OutsideKeeps
<1>3. ASSUME NEW p \in Procs, NEW pinned \in BOOLEAN, SetPin(p, pinned) PROVE EntryInv'
  BY <1>3, SetPinKeeps
<1>4. ASSUME Detach \/ Attach \/ Rewrite \/ UNCHANGED vars PROVE EntryInv'
  BY <1>0, <1>4, OutsideKeeps
<1>5. ASSUME Damage PROVE EntryInv'
  BY <1>5, DamageKeeps
<1> QED BY <1>1, <1>2, <1>3, <1>4, <1>5 DEF Next

(* A step that publishes no bytes and writes no receipt *)
LEMMA VouchedKept ==
    ASSUME Vouched, cached' = TRUE => cached = TRUE \/ bundle' \in Sized,
           receipt' = receipt \/ ~Com(receipt'), bundle' = bundle \/ bundle' = Altered,
           \A q \in Procs : op'[q] = op[q] \/ op'[q].pc \notin Carrying
    PROVE  Vouched'
<1>1. Altered \in Sized /\ Altered \notin Versions
  BY SMTT(30) DEF Altered, Sized, Versions
<1> QED BY <1>1 DEF Vouched

LEMMA VouchedMaterialize ==
    ASSUME CacheTypeOK, CacheInv, EntryInv, Vouched, NEW p \in Procs, Materialize(p)
    PROVE  Vouched'
<1> USE DEF durable, source, ghosts, limits
<1>0. /\ op \in [Procs -> OpT] /\ op[p] \in OpT /\ srcVer \in 0..MaxVersion /\ Journal \in Record
      /\ Ages /\ GroundOp(p)
  BY JournalTypes, Typed, SourceTypes, EntryFacts
<1>1. \A c \in OpSteps : At(c).pc = c /\ (c \notin Carrying => At(c).pc \notin Carrying)
  BY OpRecords
<1>2. /\ Idle.pc \notin Carrying
      /\ \A c \in {"reserving", "clearing for reserve", "reserved", "copying", "clearing",
                   "undoing"} : c \in OpSteps /\ c \notin Carrying
  BY OpTypes, StepNames DEF Carrying
<1>3. CASE Reserve(p) \/ ReserveRecord(p) \/ Prepare(p) \/ RecordComplete(p) \/ RollBack(p)
           \/ Abandon(p)
  <2>1. /\ receipt' = receipt /\ bundle' = bundle /\ (cached' = TRUE => cached = TRUE)
    BY <1>3 DEF Reserve, ReserveRecord, Prepare, RecordComplete, RollBack, Abandon
  <2>2. \/ op' = [op EXCEPT ![p] = Idle]
        \/ \E c \in {"reserving", "clearing for reserve", "reserved", "copying", "clearing",
                     "undoing"} : op' = [op EXCEPT ![p] = At(c)]
    BY <1>3 DEF Reserve, StartRemoval, ReserveRecord, Prepare, RecordComplete, RollBack, Abandon
  <2>3. \A q \in Procs : op'[q] = op[q] \/ op'[q].pc \notin Carrying
    BY <1>0, <1>1, <1>2, <2>2
  <2> QED BY <2>1, <2>3, VouchedKept
<1>4. CASE ClearBundle(p)
  <2>1. /\ receipt' = receipt /\ cached' = FALSE /\ bundle' \in {Absent, Partial}
        /\ op' = op \/ op' = [op EXCEPT ![p] = At("copying")]
    BY <1>4 DEF ClearBundle, UnlinkBundle
  <2>2. \A q \in Procs : op'[q] = op[q] \/ op'[q].pc \notin Carrying
    BY <1>0, <1>1, <1>2, <2>1
  <2>3. bundle' \notin Versions
    BY SMTT(30), <2>1 DEF Absent, Partial, Versions
  <2> QED BY <2>1, <2>2, <2>3 DEF Vouched
<1>5. CASE Copy(p)
  <2>1. UNCHANGED durable /\ op' = [op EXCEPT ![p] = [At("staged") EXCEPT !.ver = srcVer]]
    BY <1>5 DEF Copy
  <2>2. [At("staged") EXCEPT !.ver = srcVer].ver = srcVer
    <3>1. "staged" \in OpSteps
      BY StepNames
    <3> QED BY <1>0, <3>1, OpTypes
  <2>3. \A q \in Procs : op'[q] = op[q] \/ op'[q].ver = srcVer
    BY <1>0, <2>1, <2>2
  <2>4. Com(receipt) => receipt.ver <= srcVer
    BY <1>0 DEF Ages, AgesEntry
  <2> QED BY <2>1, <2>3, <2>4 DEF Vouched
<1>6. CASE Publish(p) \/ RecordReceipt(p)
  <2>1. /\ op[p].pc \in Carrying /\ op[p].ver \in Versions /\ op[p].ver <= op[p].ver
        /\ \A q \in Procs : q # p => op[q].pc \notin Carrying
    <3>1. op[p].pc \in Carrying /\ op[p].ver \in Nat
      BY <1>6, VersionNumbers DEF Publish, RecordReceipt, Carrying
    <3>2. op[p].ver <= op[p].ver
      BY SMTT(30), <3>1
    <3> QED BY <1>0, <3>1, <3>2, Steps DEF GroundOp, CacheInv, OneExclusive
  <2>2. PICK c \in OpSteps : op' = [op EXCEPT ![p] = [op[p] EXCEPT !.pc = c]]
    BY <1>6, StepNames DEF Publish, RecordReceipt
  <2>3. \A q \in Procs : op'[q].ver = op[q].ver /\ (q # p => op'[q].pc \notin Carrying)
    <3>1. [op[p] EXCEPT !.pc = c].ver = op[p].ver
      BY <1>0, OpTypes
    <3> QED BY <1>0, <2>1, <2>2, <3>1
  <2>4. /\ bundle' = op[p].ver /\ cached' = FALSE
        /\ receipt' = receipt \/ receipt'.ver = op[p].ver
    <3>1. op[p].ver \in 0..MaxVersion
      BY <1>0 DEF OpT
    <3>2. Completed(Journal, op[p].ver).ver = op[p].ver
      BY SMTT(30), <1>0, <3>1 DEF Completed, Record
    <3>3. RecordReceipt(p) => bundle' = op[p].ver
      BY DEF RecordReceipt
    <3> QED BY <1>6, <3>2, <3>3 DEF Publish, RecordReceipt
  <2>5. Com(receipt) => receipt.ver <= op[p].ver
    BY <2>1 DEF Vouched
  <2> QED BY <2>1, <2>3, <2>4, <2>5 DEF Vouched
<1> QED BY <1>3, <1>4, <1>5, <1>6 DEF Materialize

LEMMA VouchedOthers ==
    ASSUME CacheTypeOK, CacheInv, EntryInv, Vouched, NEW p \in Procs,
           Load(p) \/ Retain(p) \/ Remove(p) \/ Recover(p)
    PROVE  Vouched'
<1> USE DEF durable, source, ghosts, limits
<1>0. op \in [Procs -> OpT] /\ op[p] \in OpT /\ GroundEntry
  BY Typed, EntryFacts
<1>1. /\ Idle.pc \notin Carrying
      /\ \A c \in {"removing", "clearing for reserve", "reserving", "resurrecting"} :
            At(c).pc \notin Carrying
      /\ \A c \in Scanning : [op[p] EXCEPT !.pc = c].pc \notin Carrying
      /\ \A v, m : [pc |-> "scanned", ver |-> v, mark |-> m].pc \notin Carrying
  <2>1. Scanning \subseteq OpSteps
    BY StepNames DEF Scanning
  <2>2. \A c \in Scanning : [op[p] EXCEPT !.pc = c].pc = c
    BY <1>0, <2>1, OpTypes
  <2> QED BY <2>2, OpRecords DEF Carrying, Scanning
<1>2. CASE Load(p)
  <2>1. op' = op /\ bundle' = bundle /\ receipt' = receipt
    BY <1>2 DEF Load, AcquireStart, AcquireHash, AcquireFinish, Release
  <2>2. cached' = TRUE => cached = TRUE \/ bundle' \in Sized
    <3>1. AcquireFinish(p) => bundle \in Sized
      BY DEF AcquireFinish, CacheInv, LoadsBacked
    <3> QED BY <1>2, <2>1, <3>1 DEF Load, AcquireStart, AcquireHash, Release
  <2> QED BY <2>1, <2>2, VouchedKept
<1>3. CASE Retain(p)
  <2>1. bundle' = bundle /\ receipt' = receipt /\ cached' = cached
    BY <1>3 DEF Retain, EvictScan, EvictHash, EvictProve, EvictDecide, EvictRetain, Condemn
  <2>2. PICK x : op' = [op EXCEPT ![p] = x] /\ x.pc \notin Carrying
    BY <1>1, <1>3 DEF Retain, EvictScan, EvictHash, EvictProve, EvictDecide, EvictRetain,
                      Condemn, StartRemoval, Scanning
  <2> QED BY <1>0, <2>1, <2>2, VouchedKept
<1>4. CASE Remove(p)
  <2>1. CASE Unlink(p)
    <3>1. CASE UnlinkBundle
      <4>1. receipt' = receipt /\ op' = op /\ cached' = FALSE /\ bundle' \in {Absent, Partial}
        BY <2>1, <3>1 DEF Unlink, UnlinkBundle
      <4>2. bundle' \notin Versions
        BY SMTT(30), <4>1 DEF Absent, Partial, Versions
      <4> QED BY <4>1, <4>2 DEF Vouched
    <3>2. CASE ~UnlinkBundle
      <4>1. ~Com(NoRecord)
        BY DEF NoRecord, Com
      <4>2. op' = op /\ bundle' = bundle /\ cached' = cached /\ receipt' \in {receipt, NoRecord}
        BY <2>1, <3>2 DEF Unlink, UnlinkTomb, UnlinkReceipt, UnlinkSlot
      <4> QED BY <4>1, <4>2, VouchedKept
    <3> QED BY <3>1, <3>2
  <2>2. CASE ~Unlink(p)
    <3>1. bundle' = bundle /\ receipt' = receipt /\ cached' = cached
      BY <1>4, <2>2 DEF Remove, RemoveEntry, ReconcileRemovedSource, Condemn, RemovalDone,
                        RemovalFails
    <3>2. PICK x : op' = [op EXCEPT ![p] = x] /\ x.pc \notin Carrying
      BY <1>1, <1>4, <2>2 DEF Remove, RemoveEntry, ReconcileRemovedSource, Condemn,
                              StartRemoval, RemovalDone, RemovalFails
    <3> QED BY <1>0, <3>1, <3>2, VouchedKept
  <2> QED BY <2>1, <2>2
<1>5. CASE Recover(p)
  <2>1. bundle' = bundle /\ receipt' = receipt
    BY <1>5 DEF Recover, RecoverValid, RecoverEvicted, RecoverUnreadable, Resurrect
  <2>2. cached' = TRUE => cached = TRUE \/ bundle' \in Sized
    <3>1. CASE RecoverValid(p)
      BY <2>1, <3>1, ReadComplete DEF RecoverValid
    <3>2. CASE RecoverUnreadable(p)
      <4>1. Com(receipt) => receipt.ver \in Sized
        BY <1>0 DEF GroundEntry, Sized
      <4> QED BY <2>1, <3>2, <4>1 DEF RecoverUnreadable, Com
    <3> QED BY <1>5, <3>1, <3>2 DEF Recover, RecoverEvicted, Resurrect
  <2>3. op' = op \/ \E x : op' = [op EXCEPT ![p] = x] /\ x.pc \notin Carrying
    BY <1>1, <1>5 DEF Recover, RecoverValid, RecoverEvicted, RecoverUnreadable, Resurrect,
                      StartRemoval
  <2> QED BY <1>0, <2>1, <2>2, <2>3, VouchedKept
<1> QED BY <1>2, <1>3, <1>4, <1>5

(* Only the grant of a load hands bytes out. *)
LEMMA TaintedBy ==
    ASSUME CacheTypeOK, [Next]_vars, NEW p \in Procs,
           load'[p].at = "tainted", load[p].at # "tainted"
    PROVE  AcquireStart(p) \/ AcquireFinish(p)
<1> USE DEF durable, source, ghosts, limits
<1>0. load \in [Procs -> LoadT] /\ load'[p] # load[p] /\ NotLoading.at # "tainted"
  BY Typed, LoadRecords
<1>1. ASSUME NEW q \in Procs, Materialize(q) \/ Retain(q) \/ Remove(q) \/ Recover(q)
      PROVE  FALSE
  BY <1>0, <1>1 DEF Materialize, Reserve, ReserveRecord, Prepare, ClearBundle, Copy, Publish,
     RecordReceipt, RecordComplete, RollBack, Abandon, Retain, EvictScan, EvictHash, EvictProve,
     EvictDecide, EvictRetain, Condemn, Remove, RemoveEntry, ReconcileRemovedSource, Unlink,
     RemovalDone, RemovalFails, Recover, RecoverValid, RecoverEvicted, RecoverUnreadable,
     Resurrect
<1>2. ASSUME NEW q \in Procs, Load(q) PROVE AcquireStart(p) \/ AcquireFinish(p)
  <2>1. q = p
    BY <1>0, <1>2 DEF Load, AcquireStart, AcquireHash, AcquireFinish, Release, Grant
  <2>2. ~Release(p)
    BY <1>0 DEF Release
  <2>3. ~AcquireHash(p)
    <3>1. \A c \in {"read", "read then moved"} : [load[p] EXCEPT !.at = c].at # "tainted"
      BY <1>0, LoadTypes, StepNames
    <3> QED BY <1>0, <3>1 DEF AcquireHash
  <2> QED BY <1>2, <2>1, <2>2, <2>3 DEF Load
<1>3. ASSUME NEW q \in Procs, Open(q) \/ Crash(q) \/ \E pinned \in BOOLEAN : SetPin(q, pinned)
      PROVE  FALSE
  BY <1>0, <1>3 DEF Open, Crash, SetPin
<1>4. ~(Detach \/ Attach \/ Rewrite \/ Decay \/ RotTomb \/ (\E i \in 0..1 : Rot(i))
        \/ UNCHANGED vars)
  BY <1>0 DEF Detach, Attach, Rewrite, Decay, RotTomb, Rot, vars
<1>5. ~Alter
  <2>1. ASSUME Alter PROVE FALSE
    <3>1. PICK c \in LoadSteps : load'[p] = [load[p] EXCEPT !.at = c] /\ c # "tainted"
      <4>1. load[p].at \in LoadSteps
        BY <1>0 DEF LoadT
      <4> QED BY <2>1, <4>1, StepNames DEF Alter
    <3> QED BY <1>0, <3>1, LoadTypes
  <2> QED BY <2>1
<1> QED BY <1>1, <1>2, <1>3, <1>4, <1>5 DEF Next, Damage

LEMMA VouchedStep == CacheTypeOK /\ CacheInv /\ EntryInv /\ Vouched /\ [Next]_vars => Vouched'
<1> SUFFICES ASSUME CacheTypeOK, CacheInv, EntryInv, Vouched, [Next]_vars PROVE Vouched'
  OBVIOUS
<1> USE DEF durable, source, ghosts, limits
<1>1. ASSUME NEW p \in Procs, Open(p) \/ Crash(p) \/ \E pinned \in BOOLEAN : SetPin(p, pinned)
      PROVE  Vouched'
  <2>1. op \in [Procs -> OpT] /\ Idle.pc \notin Carrying
    BY Typed, OpTypes DEF Carrying
  <2>2. /\ receipt' = receipt /\ bundle' = bundle /\ cached' = cached
        /\ op' = op \/ op' = [op EXCEPT ![p] = Idle]
    BY <1>1 DEF Open, Crash, SetPin
  <2> QED BY <2>1, <2>2, VouchedKept
<1>2. CASE Detach \/ Attach \/ Rewrite \/ Damage \/ UNCHANGED vars
  <2>1. /\ receipt' = receipt /\ bundle' \in {bundle, Altered} /\ op' = op
        /\ cached' = cached \/ cached' = FALSE
    BY <1>2 DEF Detach, Attach, Rewrite, Damage, Alter, Decay, RotTomb, Rot, vars
  <2> QED BY <2>1, VouchedKept
<1> QED BY <1>1, <1>2, VouchedMaterialize, VouchedOthers DEF Next

LEMMA EntryHolds == Spec => [](CacheTypeOK /\ CacheInv /\ EntryInv)
<1>1. Init => Vouched
  <2> SUFFICES ASSUME Init PROVE Vouched
    OBVIOUS
  <2>1. ~Com(receipt) /\ cached = FALSE
    BY DEF Init, NoRecord, Com
  <2> QED BY <2>1 DEF Vouched
<1>2. EntryInv => CopiesAreVersions
  BY DEF EntryInv, Ground, GroundOp, Carrying, CopiesAreVersions
<1> QED BY TypeInit, TypeStep, InitHolds, StepHolds, EntryInit, EntryStep, <1>1, <1>2,
           VouchedStep, PTL DEF Spec

(* What is on disk is always one of the states the store's reader has a     *)
(* case for: a record names a session exactly while it is materializing     *)
(* (reservation_shape_is_valid), and the bundle is absent, partial or       *)
(* sized, whatever dies or rots between two durable writes.                 *)
THEOREM CacheTypeCorrect == Spec => []CacheTypeOK
BY EntryHolds, PTL

(* The load boundary hands a runtime bytes other than the recorded ones     *)
(* only if they decayed without a write after they were hashed, while the   *)
(* source stays attached: a content receipt that is trusted matches every   *)
(* complete record, and a hash that is trusted was taken over the bytes     *)
(* that are there, whatever is written, interrupted, recovered or evicted   *)
(* in between (validate_complete_metadata_with_check).                      *)
THEOREM LoadsServeRecordedBytes == Spec => ServedWhole
<1> DEFINE Served(p) == Attached /\ load'[p].at = "tainted" /\ load[p].at # "tainted" =>
                          /\ bundle = Altered /\ fault = "decay"
                          /\ cached \/ load[p].at = "read"
<1>1. CacheTypeOK /\ CacheInv /\ EntryInv /\ [Next]_vars => [\A p \in Procs : Served(p)]_vars
  <2> SUFFICES ASSUME CacheTypeOK, CacheInv, EntryInv, [Next]_vars, NEW p \in Procs, Attached,
                      load'[p].at = "tainted", load[p].at # "tainted"
               PROVE  Decayed /\ (cached \/ load[p].at = "read")
    BY DEF Decayed
  <2>1. AcquireStart(p) \/ AcquireFinish(p)
    BY TaintedBy
  <2>2. /\ load \in [Procs -> LoadT] /\ load[p].rec \in Record /\ Journal \in Record
        /\ GroundEntry /\ GroundLoad(p) /\ JournalSlots
    BY JournalTypes, Typed, EntryFacts DEF LoadT
  <2>3. CASE AcquireStart(p)
    <3>1. cached /\ Grant(p, Journal) /\ Read = "valid" /\ Com(Journal)
      <4>1. load' # [load EXCEPT ![p] = [at |-> "verifying", rec |-> Journal]]
        BY SMTT(30), <2>2
      <4> QED BY <2>3, <4>1 DEF AcquireStart, Com
    <3>2. bundle # Journal.ver
      BY <2>2, <3>1, LoadRecords DEF Grant
    <3>3. Journal = Hi
      BY <2>2, <3>1, AttachedReads
    <3> QED BY <2>2, <3>1, <3>2, <3>3 DEF JournalSlots, OnlyVersion
  <2>4. CASE AcquireFinish(p)
    <3>1. load[p].at = "read" /\ Grant(p, load[p].rec)
      BY <2>2, <2>4, LoadRecords DEF AcquireFinish
    <3>2. bundle # load[p].rec.ver
      BY <2>2, <3>1, LoadRecords DEF Grant
    <3> QED BY <2>2, <3>1, <3>2 DEF GroundLoad
  <2> QED BY <2>1, <2>3, <2>4
<1> QED BY EntryHolds, <1>1, PTL DEF Spec, ServedWhole

(* A session that materializes the entry keeps it to itself until its last  *)
(* write: no tombstone, no other reservation, nothing in the way of its     *)
(* rename (verify_ownership, publish_staged).                               *)
THEOREM OwnersUndisturbed == Spec => []OwnerUndisturbed
<1>1. EntryInv => OwnerUndisturbed
  <2> SUFFICES ASSUME EntryInv, NEW p \in Procs, op[p].pc \in OwnerSteps
               PROVE  /\ tomb = "none"
                      /\ Unrotted /\ Attached /\ op[p].pc # "receipted" =>
                           slots[Highest].st = "mat" /\ slots[Highest].ses = p
                      /\ op[p].pc \in {"copying", "staged"} => bundle = Absent
                      /\ op[p].pc = "renamed" => bundle \in {op[p].ver, Altered}
    BY DEF OwnerUndisturbed
  <2>1. GroundOp(p) /\ (Attached => JournalOp(p))
    BY DEF EntryInv, Ground, JournalInv
  <2> QED BY <2>1 DEF GroundOp, JournalOp, Hi
<1> QED BY EntryHolds, <1>1, PTL

(* A complete record that recovery or a load may read is backed by a        *)
(* complete receipt of the same bytes (record_complete_checked writes the   *)
(* receipt first), except after a sanctioned removal began or a slot rotted *)
(* or the source was away.                                                  *)
THEOREM ReceiptsBackCompleteRecords == Spec => []ReceiptBacksComplete
<1>1. CacheTypeOK /\ EntryInv => ReceiptBacksComplete
  <2> SUFFICES ASSUME CacheTypeOK, EntryInv, ~condemned, Unrotted, Attached,
                      Read = "valid", Journal.st = "com"
               PROVE  receipt.st = "com" /\ receipt.ver = Journal.ver
    BY DEF ReceiptBacksComplete
  <2>1. GroundEntry /\ JournalSlots
    BY DEF EntryInv, Ground, JournalInv
  <2>2. Journal = Hi /\ Com(Hi)
    BY <2>1, AttachedReads DEF Com
  <2> QED BY <2>1, <2>2 DEF JournalSlots, Com
<1> QED BY EntryHolds, <1>1, PTL

(* Automatic retention never tombstones an entry that an acknowledged pin   *)
(* request asked to keep, through re-reservation, interruption, recovery    *)
(* and loads that write the record back (evict_candidate, set_pinned).      *)
THEOREM PinsHonoured == Spec => []PinHonoured
<1>1. CacheTypeOK /\ EntryInv => PinHonoured
  <2>1. CacheTypeOK => asked \in BOOLEAN
    BY DEF CacheTypeOK
  <2> QED BY <2>1 DEF EntryInv, Pinned, PinnedEntry, PinHonoured
<1> QED BY EntryHolds, <1>1, PTL

(* Only the second phase of an eviction writes the automatic tombstone. *)
LEMMA AutoTombstone ==
    ASSUME [Next]_vars, tomb' = "auto", tomb # "auto"
    PROVE  \E p \in Procs : /\ op[p].pc = "proved" /\ Read = "valid" /\ Journal.st = "com"
                            /\ srcUp /\ srcVer = op[p].mark
<1> USE DEF vars, durable, source, ghosts, limits
<1>1. ASSUME NEW p \in Procs, Materialize(p) PROVE FALSE
  BY <1>1 DEF Materialize, Reserve, ReserveRecord, Prepare, ClearBundle, UnlinkBundle, Copy,
     Publish, RecordReceipt, RecordComplete, RollBack, Abandon
<1>2. ASSUME NEW p \in Procs, Load(p) PROVE FALSE
  BY <1>2 DEF Load, AcquireStart, AcquireHash, AcquireFinish, Release
<1>3. ASSUME NEW p \in Procs, Retain(p), ~EvictDecide(p) PROVE FALSE
  BY <1>3 DEF Retain, EvictScan, EvictHash, EvictProve, EvictRetain
<1>4. ASSUME NEW p \in Procs, Remove(p) PROVE FALSE
  BY <1>4 DEF Remove, RemoveEntry, ReconcileRemovedSource, Condemn, Unlink, UnlinkBundle,
     UnlinkTomb, UnlinkReceipt, UnlinkSlot, RemovalDone, RemovalFails
<1>5. ASSUME NEW p \in Procs, Recover(p) PROVE FALSE
  BY <1>5 DEF Recover, RecoverValid, RecoverEvicted, RecoverUnreadable, Resurrect
<1>6. ASSUME NEW p \in Procs, Open(p) \/ Crash(p) PROVE FALSE
  BY <1>6 DEF Open, Crash
<1>7. ASSUME NEW p \in Procs, NEW pinned \in BOOLEAN, SetPin(p, pinned) PROVE FALSE
  BY <1>7 DEF SetPin
<1>8. ASSUME Detach \/ Attach \/ Rewrite \/ Damage PROVE FALSE
  BY <1>8 DEF Detach, Attach, Rewrite, Damage, Alter, Decay, RotTomb, Rot
<1>9. PICK p \in Procs : EvictDecide(p)
  BY <1>1, <1>2, <1>3, <1>4, <1>5, <1>6, <1>7, <1>8 DEF Next, Retain
<1> QED BY <1>9 DEF EvictDecide

(* Automatic retention sanctions the removal of a bundle only while the     *)
(* attached source holds the very version the record names: the stat        *)
(* identity taken before the hash still stands, and no later copy, load or  *)
(* recovery can have put an older record in its place (evict_candidate).    *)
THEOREM SoleCopiesKept == Spec => SoleCopyKept
<1>1. CacheTypeOK /\ CacheInv /\ EntryInv /\ [Next]_vars =>
        [tomb' = "auto" /\ tomb # "auto" => srcUp /\ (Attached => srcVer = Journal.ver)]_vars
  <2> SUFFICES ASSUME CacheTypeOK, EntryInv, [Next]_vars, tomb' = "auto", tomb # "auto"
               PROVE  srcUp /\ (Attached => srcVer = Journal.ver)
    OBVIOUS
  <2>1. PICK p \in Procs : /\ op[p].pc = "proved" /\ Read = "valid" /\ Journal.st = "com"
                           /\ srcUp /\ srcVer = op[p].mark
    BY AutoTombstone
  <2>2. ASSUME Attached PROVE srcVer = Journal.ver
    <3>1. Scan(p) /\ op[p].pc \in Scanning /\ GroundEntry /\ AgesEntry
      BY <2>1 DEF EntryInv, Scans, Scanning, Ground, Ages
    <3>2. op[p].ver = srcVer /\ Since(op[p].ver)
      BY <2>1, <2>2, <3>1 DEF Scan
    <3>3. Journal = Hi /\ Com(Hi)
      BY <2>1, <2>2, <3>1, AttachedReads DEF Com
    <3>4. srcVer <= Hi.ver /\ Hi.ver <= srcVer
      BY <3>1, <3>2, <3>3 DEF Since, EntrySince, AgesEntry, NotNewer
    <3> QED BY SMTT(30), <3>3, <3>4, VersionNumbers
  <2> QED BY <2>1, <2>2
<1> QED BY EntryHolds, <1>1, PTL DEF Spec, SoleCopyKept
==============================================================================
