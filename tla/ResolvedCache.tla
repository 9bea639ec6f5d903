--------------------------- MODULE ResolvedCache ---------------------------
(***************************************************************************)
(* One entry of the resolved-model cache (sceneworks-core/resolved_cache):  *)
(* a bundle copied from an external source library, its two-slot journal,   *)
(* its receipts and its eviction tombstone, shared by several processes     *)
(* through file locks.  A process materializes, loads, evicts, removes or   *)
(* recovers the entry; it may die between any two durable writes, the       *)
(* source may be detached, re-attached or rewritten, and bytes may change   *)
(* under a write or rot without one.                                        *)
(*                                                                         *)
(* A process runs one maintenance operation (`op`) beside one load          *)
(* (`load`).  A critical section under the metadata lock is one action      *)
(* unless it makes several durable changes; then `MetaHeld` excludes the    *)
(* others until it ends.  A dead session's id is never used again, so a     *)
(* record it owned is renamed to `Gone` when it dies.                       *)
(***************************************************************************)
EXTENDS Integers

CONSTANTS Procs,       \* the processes that open the store (API, workers)
          Gone,        \* the session id of a process that has died
          NoSession,   \* a record without an owner
          MaxVersion,  \* bound: versions the source library takes
          MaxInterruptions, \* bound: process deaths and removals that fail half way
          MaxDetaches, \* bound: times the source is detached
          Faults       \* kinds of byte damage, of which one may happen, once

ASSUME CacheAssumption ==
    /\ Gone \notin Procs /\ NoSession \notin Procs /\ Gone # NoSession
    /\ MaxVersion \in Nat \ {0}
    /\ MaxInterruptions \in Nat /\ MaxDetaches \in Nat
    /\ Faults \subseteq {"alter", "decay", "rot", "tomb"}

VARIABLES
    up,       \* processes with a live session lock
    op,       \* the maintenance operation each process is in
    load,     \* the load each process is in
    slots,    \* metadata.0.json and metadata.1.json
    top,      \* the slot written with the higher generation
    tomb,     \* the eviction tombstone
    bundle,   \* the bundle directory: Absent, Partial, or its content
    receipt,  \* the complete receipt
    cached,   \* an unretracted content receipt matches the bundle's stat identity
    srcUp,    \* the source library is attached
    srcVer,   \* the version of the source files (content and stat identity)
    asked,    \* ghost: a pin request was acknowledged and binds since
    condemned,\* ghost: a removal was sanctioned and nothing reserved since
    fault,    \* the byte damage that has happened
    budget    \* interruptions and detaches still to come

durable == <<slots, top, tomb, bundle, receipt, cached>>
source == <<srcUp, srcVer>>
ghosts == <<asked, condemned>>
limits == <<fault, budget>>
vars == <<up, op, load, durable, source, ghosts, limits>>

---------------------------------------------------------------------------
(* The entry on disk *)

Absent == -2
Partial == -1
Altered == -3    \* right paths and sizes, other bytes
Versions == 1..MaxVersion
Sized == {Altered} \cup Versions

NoRecord == [st |-> "none", ses |-> NoSession, pin |-> FALSE, ver |-> 0]
Rotten == [NoRecord EXCEPT !.st = "rotten"]
Materializing(p, pin) == [st |-> "mat", ses |-> p, pin |-> pin, ver |-> 0]
(* Mutated: an interrupted record keeps its owner. *)
InterruptedStillOwned(r) == [r EXCEPT !.st = "int"]

Interrupted(r) == [r EXCEPT !.st = "int", !.ses = NoSession]
Completed(r, v) == [r EXCEPT !.st = "com", !.ses = NoSession, !.ver = v]

(* Only a materializing record names a session (reservation_shape_is_valid). *)
Record == {r \in [st : {"none", "rotten", "mat", "int", "com"},
                  ses : Procs \cup {Gone, NoSession}, pin : BOOLEAN, ver : 0..MaxVersion] :
               r.st = "mat" <=> r.ses # NoSession}

Intact(i) == slots[i].st \in {"mat", "int", "com"}

(* validate_metadata_shape_with, paths and sizes only: a complete record    *)
(* is rooted at the bundle, any other at the source library.                *)
ShapeValid(r) ==
    \/ r.st = "com" /\ bundle \in Sized
    \/ r.st \in {"mat", "int"} /\ srcUp

(* highest_generation counts intact envelopes, whatever their shape. *)
Highest == IF Intact(top) THEN top ELSE 1 - top

(* read_metadata_unlocked *)
ReadSlot == IF ShapeValid(slots[Highest]) THEN Highest ELSE 1 - Highest
Sanctioned == {"auto", "manual", "source"}
(* Mutated: the journal is read before the tombstone. *)
ReadJournalFirst ==
    CASE ShapeValid(slots[ReadSlot]) -> "valid"
      [] tomb \in Sanctioned -> "evicted"
      [] tomb = "bad" -> "error"
      [] \E i \in 0..1 : slots[i].st # "none" -> "corrupt"
      [] OTHER -> "missing"

Read ==
    CASE tomb \in Sanctioned -> "evicted"
      [] tomb = "bad" -> "error"
      [] tomb = "none" /\ ShapeValid(slots[ReadSlot]) -> "valid"
      [] tomb = "none" /\ ~ShapeValid(slots[ReadSlot])
            /\ \E i \in 0..1 : slots[i].st # "none" -> "corrupt"
      [] OTHER -> "missing"
Journal == slots[ReadSlot]
HadInvalidSlot == \E i \in 0..1 : slots[i].st # "none" /\ ~ShapeValid(slots[i])

(* write_metadata_unlocked: past the highest generation when the journal    *)
(* reads valid, generation 1 (slot 1) otherwise.                            *)
WriteJournal(r) ==
    IF Read = "valid"
    THEN /\ slots' = [slots EXCEPT ![1 - Highest] = r]
         /\ top' = 1 - Highest
    ELSE /\ slots' = [slots EXCEPT ![1] = r]
         /\ top' = IF Intact(0) THEN 0 ELSE 1

EntryEmpty ==
    /\ \A i \in 0..1 : slots[i] = NoRecord
    /\ tomb = "none" /\ bundle = Absent /\ receipt = NoRecord

---------------------------------------------------------------------------
(* Locks *)

Idle == [pc |-> "idle", ver |-> 0, mark |-> 0]
At(pc) == [Idle EXCEPT !.pc = pc]

(* Operations inside which the metadata lock is held, and those inside      *)
(* which the artifact lock is held exclusively.                             *)
MetaSteps == {"reserving", "clearing", "receipted", "undoing", "removing",
              "clearing for reserve", "resurrecting"}
OwnerSteps == {"reserved", "clearing", "copying", "staged", "renamed",
               "receipted", "undoing"}
Exclusive == MetaSteps \cup OwnerSteps
Scanning == {"scanned", "hashed", "proved"}
OpSteps == {"idle"} \cup Exclusive \cup Scanning

Verifying == {"verifying", "moved", "read", "read then moved"}
LoadSteps == {"none", "leased", "tainted"} \cup Verifying
Loading(step) == [at |-> step, rec |-> NoRecord]
NotLoading == Loading("none")

MetaHeld ==
    \/ \E p \in Procs : load[p].at \in Verifying
    \/ \E p \in Procs : op[p].pc \in MetaSteps
ArtifactFree == \A p \in Procs : op[p].pc \notin Exclusive
(* Mutated: leases do not hold the artifact lock. *)
LockFreeOfReservations == ArtifactFree
(* Mutated: reservations do not hold the artifact lock. *)
LockFreeOfLeases == \A p \in Procs : load[p] = NotLoading
LockFree == ArtifactFree /\ \A p \in Procs : load[p] = NotLoading

(* An idle process takes both locks for a maintenance operation. *)
Enter(p) == p \in up /\ op[p] = Idle /\ LockFree /\ ~MetaHeld

---------------------------------------------------------------------------
(* Removal: remove_managed_tree unlinks the entry's files in directory      *)
(* order, which is no order the program chooses.                            *)

StartRemoval(p, next) ==
    op' = [op EXCEPT ![p] = At(IF next = "reserve" THEN "clearing for reserve"
                               ELSE "removing")]

Condemn(p, cause) ==
    /\ tomb' = cause
    /\ condemned' = TRUE
    /\ asked' = (asked /\ cause = "auto")
    /\ StartRemoval(p, "idle")
    /\ UNCHANGED <<up, load, slots, top, bundle, receipt, cached, source, limits>>

UnlinkBundle ==
    /\ bundle # Absent
    /\ bundle' = IF bundle = Partial THEN Absent ELSE Partial
    /\ cached' = FALSE
    /\ UNCHANGED <<slots, top, tomb, receipt>>
UnlinkSlot(i) ==
    /\ slots[i] # NoRecord
    /\ slots' = [slots EXCEPT ![i] = NoRecord]
    /\ UNCHANGED <<top, tomb, bundle, receipt, cached>>
UnlinkTomb ==
    /\ tomb # "none"
    /\ tomb' = "none"
    /\ UNCHANGED <<slots, top, bundle, receipt, cached>>
UnlinkReceipt ==
    /\ receipt # NoRecord
    /\ receipt' = NoRecord
    /\ UNCHANGED <<slots, top, tomb, bundle, cached>>
Unlink(p) ==
    /\ op[p].pc \in {"removing", "clearing for reserve"}
    /\ \/ UnlinkBundle \/ UnlinkTomb \/ UnlinkReceipt
       \/ \E i \in 0..1 : UnlinkSlot(i)
    /\ UNCHANGED <<up, op, load, source, ghosts, limits>>

RemovalDone(p) ==
    /\ op[p].pc \in {"removing", "clearing for reserve"}
    /\ EntryEmpty
    /\ op' = [op EXCEPT ![p] = IF op[p].pc = "removing" THEN Idle ELSE At("reserving")]
    /\ UNCHANGED <<up, load, durable, source, ghosts, limits>>

RemovalFails(p) ==
    /\ op[p].pc \in {"removing", "clearing for reserve"}
    /\ budget.interruptions > 0
    /\ budget' = [budget EXCEPT !.interruptions = @ - 1]
    /\ op' = [op EXCEPT ![p] = Idle]
    /\ UNCHANGED <<up, load, durable, source, ghosts, fault>>

---------------------------------------------------------------------------
(* Materialization: reserve, prepare, copy, publish, record *)

Live(r) == r.st = "mat" /\ r.ses \in Procs
Stale(r) == r.st = "mat" /\ r.ses = Gone

(* reserve_inner refuses when the journal cannot be read, is already        *)
(* complete, or belongs to a live session; it settles a dead session's      *)
(* record first and finishes a pending removal first.                       *)
Reserve(p) ==
    /\ Enter(p) /\ srcUp
    /\ \/ /\ Read = "missing" \/ (Read = "valid" /\ Journal.st = "int")
          /\ op' = [op EXCEPT ![p] = At("reserving")]
          /\ UNCHANGED durable
       \/ /\ Read = "valid" /\ Stale(Journal)
          /\ WriteJournal(Interrupted(Journal))
          /\ op' = [op EXCEPT ![p] = At("reserving")]
          /\ UNCHANGED <<tomb, bundle, receipt, cached>>
       \/ /\ Read = "evicted"
          /\ StartRemoval(p, "reserve")
          /\ UNCHANGED durable
    /\ UNCHANGED <<up, load, source, ghosts, limits>>

(* Mutated: a new reservation starts unpinned. *)
CarriedPinDropped == FALSE
CarriedPin == Read = "valid" /\ Journal.pin

(* The second half writes the Materializing record, whose shape needs the   *)
(* source; without it the call fails and releases the lock.                 *)
ReserveRecord(p) ==
    /\ op[p].pc = "reserving"
    /\ cached' = FALSE
    /\ IF srcUp
       THEN /\ WriteJournal(Materializing(p, CarriedPin))
            /\ op' = [op EXCEPT ![p] = At("reserved")]
            /\ condemned' = FALSE
       ELSE /\ op' = [op EXCEPT ![p] = Idle]
            /\ UNCHANGED <<slots, top, condemned>>
    /\ UNCHANGED <<up, load, tomb, bundle, receipt, source, asked, limits>>

(* verify_ownership on the record the journal reads as *)
Owns(p) == Read = "valid" /\ Journal.st = "mat" /\ Journal.ses = p

(* prepare_for_materialization clears a bundle an earlier attempt left. *)
Prepare(p) ==
    /\ op[p].pc = "reserved" /\ ~MetaHeld /\ Owns(p)
    /\ op' = [op EXCEPT ![p] = At(IF bundle = Absent THEN "copying" ELSE "clearing")]
    /\ UNCHANGED <<up, load, durable, source, ghosts, limits>>

ClearBundle(p) ==
    /\ op[p].pc \in {"clearing", "undoing"}
    /\ UnlinkBundle
    /\ op' = IF op[p].pc = "clearing" /\ bundle = Partial
             THEN [op EXCEPT ![p] = At("copying")] ELSE op
    /\ UNCHANGED <<up, load, source, ghosts, limits>>

(* copy_bundle hashes what it copies, refusing a file that moves under it. *)
Copy(p) ==
    /\ op[p].pc = "copying" /\ srcUp
    /\ op' = [op EXCEPT ![p] = [At("staged") EXCEPT !.ver = srcVer]]
    /\ UNCHANGED <<up, load, durable, source, ghosts, limits>>

(* publish_staged checks ownership under the metadata lock, then renames. *)
Publish(p) ==
    /\ op[p].pc = "staged" /\ ~MetaHeld /\ Owns(p) /\ bundle = Absent
    /\ bundle' = op[p].ver
    /\ cached' = FALSE
    /\ op' = [op EXCEPT ![p].pc = "renamed"]
    /\ UNCHANGED <<up, load, slots, top, tomb, receipt, source, ghosts, limits>>

(* Mutated: the journal is written before the complete receipt. *)
RecordReceiptLast(p) ==
    /\ op[p].pc = "renamed" /\ ~MetaHeld /\ Owns(p) /\ bundle = op[p].ver
    /\ WriteJournal(Completed(Journal, op[p].ver))
    /\ cached' = FALSE
    /\ op' = [op EXCEPT ![p].pc = "receipted"]
    /\ UNCHANGED <<up, load, tomb, bundle, receipt, source, ghosts, limits>>

(* record_complete_checked: the complete receipt, then the journal. *)
RecordReceipt(p) ==
    /\ op[p].pc = "renamed" /\ ~MetaHeld /\ Owns(p) /\ bundle = op[p].ver
    /\ receipt' = Completed(Journal, op[p].ver)
    /\ cached' = FALSE
    /\ op' = [op EXCEPT ![p].pc = "receipted"]
    /\ UNCHANGED <<up, load, slots, top, tomb, bundle, source, ghosts, limits>>

RecordComplete(p) ==
    /\ op[p].pc = "receipted"
    /\ WriteJournal(receipt)
    /\ op' = [op EXCEPT ![p] = Idle]
    /\ UNCHANGED <<up, load, tomb, bundle, receipt, cached, source, ghosts, limits>>

(* A failed completion check, a cancel, or a directory that does not sync   *)
(* rolls back the bundle that was renamed.                                  *)
RollBack(p) ==
    /\ op[p].pc = "renamed" /\ ~MetaHeld /\ Owns(p)
    /\ op' = [op EXCEPT ![p] = At("undoing")]
    /\ UNCHANGED <<up, load, durable, source, ghosts, limits>>

(* Every other error, and the end of a roll back: mark_interrupted, or      *)
(* Drop, records the interruption only when it can still read itself as     *)
(* the owner.  The artifact lock is released either way.                    *)
Abandon(p) ==
    /\ \/ op[p].pc \in {"reserved", "copying", "staged", "renamed"} /\ ~MetaHeld
       \/ op[p].pc = "undoing" /\ bundle = Absent
    /\ IF Owns(p)
       THEN WriteJournal(Interrupted(Journal)) ELSE UNCHANGED <<slots, top>>
    /\ op' = [op EXCEPT ![p] = Idle]
    /\ UNCHANGED <<up, load, tomb, bundle, receipt, cached, source, ghosts, limits>>

---------------------------------------------------------------------------
(* Loads: acquire_complete *)

(* The record read at the start is what is hashed against and what the      *)
(* usage stamp writes back.                                                 *)
Grant(p, r) ==
    /\ load' = [load EXCEPT ![p] = Loading(IF bundle = r.ver THEN "leased" ELSE "tainted")]
    /\ WriteJournal(r)

(* The load boundary trusts an unexpired content receipt that matches the   *)
(* bundle's stat identity; otherwise it retracts it and re-hashes.          *)
AcquireStart(p) ==
    /\ p \in up /\ load[p].at = "none" /\ ArtifactFree /\ ~MetaHeld
    /\ Read = "valid" /\ Journal.st = "com"
    /\ \/ /\ cached
          /\ Grant(p, Journal)
          /\ UNCHANGED cached
       \/ /\ cached' = FALSE
          /\ load' = [load EXCEPT ![p] = [at |-> "verifying", rec |-> Journal]]
          /\ UNCHANGED <<slots, top>>
    /\ UNCHANGED <<up, op, tomb, bundle, receipt, source, ghosts, limits>>

AcquireHash(p) ==
    /\ load[p].at \in {"verifying", "moved"}
    /\ load' = [load EXCEPT ![p] =
                   IF bundle # load[p].rec.ver THEN NotLoading
                   ELSE [load[p] EXCEPT !.at = IF load[p].at = "moved"
                                               THEN "read then moved" ELSE "read"]]
    /\ UNCHANGED <<up, op, durable, source, ghosts, limits>>

(* Mutated: the stat identity is not compared after the hash. *)
AcquireFinishUnguarded(p) ==
    /\ load[p].at \in {"read", "read then moved"}
    /\ cached' = TRUE /\ Grant(p, load[p].rec)
    /\ UNCHANGED <<up, op, tomb, bundle, receipt, source, ghosts, limits>>

(* The stat identity before and after the hash must agree. *)
AcquireFinish(p) ==
    /\ load[p].at \in {"read", "read then moved"}
    /\ IF load[p].at = "read"
       THEN cached' = TRUE /\ Grant(p, load[p].rec)
       ELSE /\ load' = [load EXCEPT ![p] = NotLoading]
            /\ UNCHANGED <<slots, top, cached>>
    /\ UNCHANGED <<up, op, tomb, bundle, receipt, source, ghosts, limits>>

Release(p) ==
    /\ load[p].at \in {"leased", "tainted"}
    /\ load' = [load EXCEPT ![p] = NotLoading]
    /\ UNCHANGED <<up, op, durable, source, ghosts, limits>>

---------------------------------------------------------------------------
(* Retention: scan_entry, then evict_candidate in two phases *)

(* Phase one reads the entry and stats the source, holding no lock after. *)
EvictScan(p) ==
    /\ p \in up /\ op[p] = Idle /\ ~MetaHeld
    /\ \/ /\ Read = "valid" /\ Journal.st = "com" /\ ~Journal.pin
          /\ LockFree /\ srcUp
          /\ op' = [op EXCEPT ![p] =
                       [pc |-> "scanned", ver |-> Journal.ver, mark |-> srcVer]]
       \/ /\ Read = "evicted" /\ LockFree
          /\ StartRemoval(p, "idle")
    /\ UNCHANGED <<up, load, durable, source, ghosts, limits>>

(* The source is hashed against the recorded closure ... *)
EvictHash(p) ==
    /\ op[p].pc = "scanned" /\ srcUp /\ srcVer = op[p].ver
    /\ op' = [op EXCEPT ![p].pc = "hashed"]
    /\ UNCHANGED <<up, load, durable, source, ghosts, limits>>

(* Mutated: the stat identity is taken after the hash only. *)
EvictProveAfterOnly(p) ==
    /\ op[p].pc = "hashed" /\ srcUp
    /\ op' = [op EXCEPT ![p] = [@ EXCEPT !.pc = "proved", !.mark = srcVer]]
    /\ UNCHANGED <<up, load, durable, source, ghosts, limits>>

(* ... and must have the stat identity it had before the hash. *)
EvictProve(p) ==
    /\ op[p].pc = "hashed" /\ srcUp /\ srcVer = op[p].mark
    /\ op' = [op EXCEPT ![p].pc = "proved"]
    /\ UNCHANGED <<up, load, durable, source, ghosts, limits>>

(* Phase two re-verifies under both locks.  Times have whole-second         *)
(* resolution, so "used since the scan" may not be seen: the model decides  *)
(* without it.                                                              *)
EvictDecide(p) ==
    /\ op[p].pc = "proved" /\ LockFree /\ ~MetaHeld
    /\ \/ /\ Read = "valid" /\ Journal.st = "com" /\ ~Journal.pin
          /\ srcUp /\ srcVer = op[p].mark
          /\ Condemn(p, "auto")
       \/ /\ Read = "evicted"
          /\ StartRemoval(p, "idle")
          /\ UNCHANGED <<up, load, durable, source, ghosts, limits>>

(* Anything else, a fresher use included, retains the entry. *)
EvictRetain(p) ==
    /\ op[p].pc \in Scanning
    /\ op' = [op EXCEPT ![p] = Idle]
    /\ UNCHANGED <<up, load, durable, source, ghosts, limits>>

---------------------------------------------------------------------------
(* Manual removal, reconciliation and pins *)

RemoveEntry(p) ==
    /\ Enter(p) /\ ~EntryEmpty
    /\ \/ /\ \/ Read = "valid" /\ ~Live(Journal) /\ ~Journal.pin
             \/ Read \in {"missing", "corrupt"}
          /\ Condemn(p, "manual")
       \/ /\ Read = "evicted"
          /\ StartRemoval(p, "idle")
          /\ UNCHANGED <<up, load, durable, source, ghosts, limits>>

ReconcileRemovedSource(p) ==
    /\ Enter(p)
    /\ Read = "valid" /\ ~Live(Journal)
    /\ Condemn(p, "source")

SetPin(p, pinned) ==
    /\ p \in up /\ ~MetaHeld
    /\ Read = "valid"
    /\ WriteJournal([Journal EXCEPT !.pin = pinned])
    /\ asked' = pinned
    /\ UNCHANGED <<up, op, load, tomb, bundle, receipt, cached, source, condemned, limits>>

---------------------------------------------------------------------------
(* Recovery, which a worker runs when it starts *)

(* A journal read from its older slot is re-pinned once its bytes are       *)
(* proven, by an unexpired content receipt or a hash; a pass that fails     *)
(* leaves no content receipt.  A dead session's reservation becomes         *)
(* Interrupted.                                                             *)
RecoverValid(p) ==
    /\ Enter(p) /\ Read = "valid"
    /\ HadInvalidSlot \/ Stale(Journal)
    /\ \E redeemed \in {cached, FALSE} :
         LET proven == redeemed \/ bundle = Journal.ver
             repin == HadInvalidSlot /\ (Journal.st = "com" => proven)
             r == IF repin THEN [Journal EXCEPT !.pin = TRUE] ELSE Journal
         IN /\ IF repin \/ Stale(Journal)
               THEN WriteJournal(IF Stale(r) THEN Interrupted(r) ELSE r)
               ELSE UNCHANGED <<slots, top>>
            /\ cached' = IF HadInvalidSlot /\ Journal.st = "com" THEN proven ELSE cached
    /\ UNCHANGED <<up, op, load, tomb, bundle, receipt, source, ghosts, limits>>

RecoverEvicted(p) ==
    /\ Enter(p) /\ Read = "evicted"
    /\ StartRemoval(p, "idle")
    /\ UNCHANGED <<up, load, durable, source, ghosts, limits>>

(* An unreadable journal or tombstone: an intact complete receipt over      *)
(* proven bytes resurrects the entry, dropping the tombstone first.         *)
RecoverUnreadable(p) ==
    /\ Enter(p) /\ Read \in {"corrupt", "error"} /\ receipt.st = "com"
    /\ \/ /\ cached \/ bundle = receipt.ver
          /\ tomb' = "none" /\ cached' = TRUE
          /\ op' = [op EXCEPT ![p] = At("resurrecting")]
       \/ /\ bundle # receipt.ver
          /\ cached' = FALSE
          /\ UNCHANGED <<tomb, op>>
    /\ UNCHANGED <<up, load, slots, top, bundle, receipt, source, ghosts, limits>>

Resurrect(p) ==
    /\ op[p].pc = "resurrecting"
    /\ WriteJournal([receipt EXCEPT !.pin = TRUE])
    /\ op' = [op EXCEPT ![p] = Idle]
    /\ UNCHANGED <<up, load, tomb, bundle, receipt, cached, source, ghosts, limits>>

---------------------------------------------------------------------------
(* The environment: processes, the source library and the disk *)

Open(p) ==
    /\ p \notin up
    /\ up' = up \cup {p}
    /\ UNCHANGED <<op, load, durable, source, ghosts, limits>>

(* A death releases the process's locks and orphans what it owned. *)
Crash(p) ==
    /\ p \in up /\ budget.interruptions > 0
    /\ budget' = [budget EXCEPT !.interruptions = @ - 1]
    /\ up' = up \ {p}
    /\ op' = [op EXCEPT ![p] = Idle]
    /\ load' = [load EXCEPT ![p] = NotLoading]
    /\ slots' = [i \in 0..1 |-> IF slots[i].ses = p
                                THEN [slots[i] EXCEPT !.ses = Gone] ELSE slots[i]]
    /\ UNCHANGED <<top, tomb, bundle, receipt, cached, source, ghosts, fault>>

Detach ==
    /\ srcUp /\ budget.detaches > 0
    /\ srcUp' = FALSE
    /\ budget' = [budget EXCEPT !.detaches = @ - 1]
    /\ UNCHANGED <<up, op, load, durable, srcVer, ghosts, fault>>
Attach ==
    /\ ~srcUp
    /\ srcUp' = TRUE
    /\ UNCHANGED <<up, op, load, durable, srcVer, ghosts, limits>>
Rewrite ==
    /\ srcUp /\ srcVer < MaxVersion
    /\ srcVer' = srcVer + 1
    /\ UNCHANGED <<up, op, load, durable, srcUp, ghosts, limits>>

(* A write changes bundle bytes in place, keeping their paths and sizes:    *)
(* the stat identity moves, and no content receipt matches it any more.     *)
Alter ==
    /\ "alter" \in Faults /\ fault = "none" /\ bundle \in Versions
    /\ fault' = "alter"
    /\ bundle' = Altered
    /\ cached' = FALSE
    /\ load' = [p \in Procs |->
                  [load[p] EXCEPT !.at = CASE @ = "verifying" -> "moved"
                                           [] @ = "read" -> "read then moved"
                                           [] OTHER -> @]]
    /\ UNCHANGED <<up, op, slots, top, tomb, receipt, source, ghosts, budget>>

(* Bundle bytes change without a write (a decaying sector, a failing        *)
(* cable): the stat identity stays, and so does a content receipt.          *)
Decay ==
    /\ "decay" \in Faults /\ fault = "none" /\ bundle \in Versions
    /\ fault' = "decay"
    /\ bundle' = Altered
    /\ UNCHANGED <<up, op, load, slots, top, tomb, receipt, cached, source, ghosts, budget>>

(* A journal slot stops decoding; the pin it carried is lost with it. *)
Rot(i) ==
    /\ "rot" \in Faults /\ fault = "none" /\ Intact(i)
    /\ fault' = "rot"
    /\ slots' = [slots EXCEPT ![i] = Rotten]
    /\ asked' = FALSE
    /\ UNCHANGED <<up, op, load, top, tomb, bundle, receipt, cached, source, condemned, budget>>

RotTomb ==
    /\ "tomb" \in Faults /\ fault = "none" /\ tomb \in Sanctioned
    /\ fault' = "tomb"
    /\ tomb' = "bad"
    /\ UNCHANGED <<up, op, load, slots, top, bundle, receipt, cached, source, ghosts, budget>>

---------------------------------------------------------------------------
Init ==
    /\ up = Procs
    /\ op = [p \in Procs |-> Idle]
    /\ load = [p \in Procs |-> NotLoading]
    /\ slots = [i \in 0..1 |-> NoRecord] /\ top = 1
    /\ tomb = "none" /\ bundle = Absent /\ receipt = NoRecord /\ cached = FALSE
    /\ srcUp = TRUE /\ srcVer = 1
    /\ asked = FALSE /\ condemned = FALSE
    /\ fault = "none"
    /\ budget = [interruptions |-> MaxInterruptions, detaches |-> MaxDetaches]

Materialize(p) ==
    \/ Reserve(p) \/ ReserveRecord(p) \/ Prepare(p) \/ ClearBundle(p) \/ Copy(p)
    \/ Publish(p) \/ RecordReceipt(p) \/ RecordComplete(p) \/ RollBack(p) \/ Abandon(p)
Load(p) == AcquireStart(p) \/ AcquireHash(p) \/ AcquireFinish(p) \/ Release(p)
Retain(p) ==
    EvictScan(p) \/ EvictHash(p) \/ EvictProve(p) \/ EvictDecide(p) \/ EvictRetain(p)
Remove(p) ==
    \/ RemoveEntry(p) \/ ReconcileRemovedSource(p)
    \/ Unlink(p) \/ RemovalDone(p) \/ RemovalFails(p)
Recover(p) ==
    RecoverValid(p) \/ RecoverEvicted(p) \/ RecoverUnreadable(p) \/ Resurrect(p)
Damage == Alter \/ Decay \/ RotTomb \/ \E i \in 0..1 : Rot(i)

Next ==
    \/ \E p \in Procs :
         \/ Materialize(p) \/ Load(p) \/ Retain(p) \/ Remove(p) \/ Recover(p)
         \/ Open(p) \/ Crash(p)
         \/ \E pinned \in BOOLEAN : SetPin(p, pinned)
    \/ Detach \/ Attach \/ Rewrite \/ Damage

Spec == Init /\ [][Next]_vars

(* Operations run to their end, a worker that dies is started again, and an *)
(* idle worker's retention checkpoint comes round (retention enabled).      *)
InProgress(p) ==
    \/ ReserveRecord(p) \/ Prepare(p) \/ ClearBundle(p) \/ Copy(p) \/ Publish(p)
    \/ RecordReceipt(p) \/ RecordComplete(p) \/ RollBack(p) \/ Abandon(p)
    \/ EvictHash(p) \/ EvictProve(p) \/ EvictDecide(p) \/ EvictRetain(p)
    \/ Unlink(p) \/ RemovalDone(p) \/ Resurrect(p)
FairSpec ==
    /\ Spec
    /\ \A p \in Procs :
         /\ WF_vars(InProgress(p) \/ EvictScan(p) \/ Open(p))
         /\ WF_vars(AcquireHash(p) \/ AcquireFinish(p) \/ Release(p))

---------------------------------------------------------------------------
(* Type correctness of the entry's durable state and of the operations on it. *)
CacheTypeOK ==
    /\ up \subseteq Procs
    /\ op \in [Procs -> [pc : OpSteps, ver : 0..MaxVersion, mark : 0..MaxVersion]]
    /\ load \in [Procs -> [at : LoadSteps, rec : Record]]
    /\ slots \in [0..1 -> Record] /\ top \in 0..1
    /\ tomb \in {"none", "bad"} \cup Sanctioned
    /\ bundle \in {Absent, Partial} \cup Sized
    /\ receipt \in Record /\ cached \in BOOLEAN
    /\ srcUp \in BOOLEAN /\ srcVer \in Versions
    /\ asked \in BOOLEAN /\ condemned \in BOOLEAN
    /\ fault \in {"none"} \cup Faults
    /\ budget \in [interruptions : 0..MaxInterruptions, detaches : 0..MaxDetaches]

(* The source library has not been detached so far: a reservation's record  *)
(* has been readable all along.                                             *)
Attached == budget.detaches = MaxDetaches

(* The load boundary hands a runtime other bytes than the ones the entry    *)
(* was recorded with in one case only: they decayed without a write after   *)
(* they were hashed, by the pass whose unexpired content receipt is         *)
(* redeemed or by this load's own pass.  A bundle that is rewritten before, *)
(* during or after a pass is never handed out, nor is one that decayed and  *)
(* whose receipt is gone (validate_complete_metadata_with_check), while the *)
(* source stays attached.                                                   *)
ServedWhole ==
    [][\A p \in Procs :
          Attached /\ load'[p].at = "tainted" /\ load[p].at # "tainted" =>
              /\ bundle = Altered /\ fault = "decay"
              /\ cached \/ load[p].at = "read"]_vars

(* While a lease is out, no eviction, removal, reservation or recovery      *)
(* takes the bundle away or sanctions its removal.                          *)
LeaseProtected ==
    \A p \in Procs : load[p].at \in Verifying \cup {"leased"} =>
        bundle \in Sized /\ tomb = "none"

(* No journal slot has rotted so far. *)
Unrotted == fault # "rot"

(* A session that is materializing the entry keeps it to itself: no other   *)
(* operation tombstones it, takes the reservation over, or puts a bundle    *)
(* where its publication will rename (the journal is its own as long as the *)
(* slots are intact and the source is attached).                            *)
OwnerUndisturbed ==
    \A p \in Procs : op[p].pc \in OwnerSteps =>
        /\ tomb = "none"
        /\ Unrotted /\ Attached /\ op[p].pc # "receipted" =>
             slots[Highest].st = "mat" /\ slots[Highest].ses = p
        /\ op[p].pc \in {"copying", "staged"} => bundle = Absent
        /\ op[p].pc = "renamed" => bundle \in {op[p].ver, Altered}

(* Automatic retention never sanctions the removal of an entry whose last   *)
(* acknowledged pin request asked to keep it, across re-materialization,    *)
(* interruption and recovery, while the source library stays attached.      *)
PinHonoured == tomb = "auto" /\ Attached => ~asked

(* A complete journal record is always backed by a complete receipt of the  *)
(* same bytes, so that recovery can rebuild the entry if the journal rots;  *)
(* what an interrupted removal leaves behind, and what comes to light when  *)
(* a detached source hides the newer record, are excepted.                  *)
ReceiptBacksComplete ==
    ~condemned /\ Unrotted /\ Attached /\ Read = "valid" /\ Journal.st = "com" =>
        receipt.st = "com" /\ receipt.ver = Journal.ver

(* Automatic retention tombstones an entry only when the attached source    *)
(* holds exactly the bytes the entry records, as of the stat re-check under *)
(* the locks: the bundle is never the sole complete copy                    *)
(* (verify_source_complete, revalidate_source_snapshot).  After a detach    *)
(* the record may not be the scanned one, and the source is only present.   *)
SoleCopyKept ==
    [][tomb' = "auto" /\ tomb # "auto" =>
          srcUp /\ (Attached => srcVer = Journal.ver)]_vars

(* A sanctioned removal is not left pending for ever: the tombstone goes,   *)
(* whoever wrote it, whether or not its process dies or its removal fails.  *)
PendingEvictionFinishes == tomb \in Sanctioned ~> tomb \notin Sanctioned
=============================================================================
