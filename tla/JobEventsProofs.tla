--------------------------- MODULE JobEventsProofs ---------------------------
(***************************************************************************)
(* Proofs about JobEvents, for every buffer size and any number of progress *)
(* updates, other publications, broken streams and API restarts: what the   *)
(* browser shows of a job never goes back, the effects of its end run       *)
(* exactly once, and a job it has heard was cleared stays off its list.     *)
(***************************************************************************)
EXTENDS JobEvents, TLAPS

Phases == {"absent", "active", "terminal"}
RowT == [phase : Phases, rev : Nat]
Message == [event : {"job.updated", "jobs.cleared", "other"}, row : RowT]
Envelope == [rev : Int, body : Message]

ClientT ==
    [view : RowT, tomb : Int, applied : Int, snapRev : Int, known : Phases,
     ran : SUBSET Int, again : SUBSET Int]

HubShaped(h) ==
    /\ h = [rev |-> h.rev, open |-> h.open, buffer |-> h.buffer]
    /\ h.rev \in Int
    /\ h.buffer \in Seq(Envelope)

ConnShaped(c) ==
    /\ c = [pc |-> c.pc, changed |-> c.changed, active |-> c.active,
            barrier |-> c.barrier, recent |-> c.recent, named |-> c.named,
            gone |-> c.gone]
    /\ c.barrier \in Int

Shapes ==
    /\ settling = [turn |-> settling.turn, accepted |-> settling.accepted]
    /\ pubs \subseteq Message
    /\ HubShaped(hub)
    /\ ConnShaped(conn)
    /\ client \in ClientT

\* Every version of the row that is stored, on its way or on display.
Versions ==
    {row, client.view, conn.active, conn.recent, conn.named, settling.accepted}
    \cup {m.row : m \in pubs}
    \cup {hub.buffer[i].body.row : i \in 1 .. Len(hub.buffer)}

\* No version is ahead of the store, and every live version is older than every
\* terminal one.
Ordered ==
    /\ \A a \in Versions : /\ a \in RowT
                           /\ a.rev <= row.rev
                           /\ Terminal(a) => Terminal(row)
    /\ \A a, b \in Versions : Active(a) /\ Terminal(b) => a.rev < b.rev
    /\ ~Present(row) => row.rev = 0

\* The revision on record covers all the revisions whose effects have run, and
\* none has run twice.
Covered(c) ==
    /\ \A n \in c.ran : n <= c.applied
    /\ c.again = {}

\* It covers the row on display too if that is terminal, and there is none
\* otherwise.
Noted(c) ==
    /\ Covered(c)
    /\ Terminal(c.view) => c.view.rev <= c.applied
    /\ ~Terminal(c.view) => c.applied = None

EventsInv == Shapes /\ Ordered /\ Noted(client)

\* What a step of the browser may do to the row on display.
Moves(c, d) ==
    /\ d \in ClientT
    /\ Noted(d)
    /\ Present(c.view) /\ Present(d.view) => c.view.rev <= d.view.rev
    /\ Active(c.view) /\ Terminal(d.view) => d.view.rev \in d.ran

USE DEF Phases, Present, Active, Terminal

-----------------------------------------------------------------------------
(* The browser's handlers *)

LEMMA MaxOfTwo ==
    ASSUME NEW a \in Int, NEW b \in Int
    PROVE  /\ Max({a, b}) \in Int
           /\ a <= Max({a, b}) /\ b <= Max({a, b})
           /\ Max({a, b}) \in {a, b}
<1>1. \E m \in {a, b} : \A n \in {a, b} : n <= m
  <2>1. CASE a <= b
    <3> WITNESS b \in {a, b}
    <3> QED BY <2>1
  <2>2. CASE b <= a
    <3> WITNESS a \in {a, b}
    <3> QED BY <2>2
  <2> QED BY <2>1, <2>2
<1> QED BY <1>1 DEF Max

LEMMA NoRowType == NoRow \in RowT /\ ~Present(NoRow)
  BY DEF NoRow, RowT

\* Two versions of a row of which the browser may show one or the other.
Comparable(a, b) ==
    /\ a \in RowT /\ b \in RowT
    /\ Active(a) /\ Terminal(b) => a.rev < b.rev
    /\ Active(b) /\ Terminal(a) => b.rev < a.rev

LEMMA Fields ==
    ASSUME NEW c \in ClientT
    PROVE  /\ c.view \in RowT /\ c.view.rev \in Nat /\ c.view.phase \in Phases
           /\ c.tomb \in Int /\ c.applied \in Int /\ c.snapRev \in Int
           /\ c.known \in Phases /\ c.ran \in SUBSET Int /\ c.again \in SUBSET Int
  BY DEF ClientT, RowT

\* A row that leaves the display takes the record of its revisions with it.
LEMMA Removed ==
    ASSUME NEW c \in ClientT
    PROVE  /\ Shown(c, NoRow) \in ClientT
           /\ Noted(Shown(c, NoRow))
           /\ Shown(c, NoRow).view = NoRow
           /\ Shown(c, NoRow).tomb = c.tomb
           /\ Shown(c, NoRow).applied = None
           /\ Shown(c, NoRow).ran = {}
<1> DEFINE d == Shown(c, NoRow)
<1>1. d = [c EXCEPT !.view = NoRow, !.applied = None, !.ran = {}, !.again = {}]
  BY NoRowType DEF Shown
<1>2. /\ d.view = NoRow /\ d.applied = None /\ d.ran = {} /\ d.again = {}
      /\ d.tomb = c.tomb
  BY <1>1 DEF ClientT
<1>3. None \in Int
  BY DEF None
<1>4. d \in ClientT
  BY ZenonT(30), <1>1, <1>3, NoRowType DEF ClientT
<1> HIDE DEF d
<1>5. Noted(d)
  BY <1>2, NoRowType DEF Noted, Covered
<1> QED BY <1>2, <1>4, <1>5 DEF d

LEMMA Displayed ==
    ASSUME NEW c \in ClientT, NEW r \in RowT, Present(r)
    PROVE  /\ Shown(c, r) = [c EXCEPT !.view = r]
           /\ Shown(c, r) \in ClientT
           /\ Shown(c, r).view = r
           /\ Shown(c, r).tomb = c.tomb /\ Shown(c, r).applied = c.applied
           /\ Shown(c, r).ran = c.ran /\ Shown(c, r).again = c.again
  BY DEF Shown, ClientT

\* A terminal row that is newer than the revision on record.
LEMMA ApplyNews ==
    ASSUME NEW c \in ClientT, Covered(c), NEW r \in RowT, Terminal(r),
           c.applied < r.rev, c.tomb = None, Accepts(c.view, r)
    PROVE  /\ ApplyJobUpdate(c, r) \in ClientT
           /\ Noted(ApplyJobUpdate(c, r))
           /\ ApplyJobUpdate(c, r).view \in {r, NoRow}
           /\ Present(ApplyJobUpdate(c, r).view) => r.rev \in ApplyJobUpdate(c, r).ran
<1> DEFINE noted == [c EXCEPT !.applied = Max({@, r.rev})]
           run == RunEffects(noted, r)
           d == ApplyJobUpdate(c, r)
<1>0. r.rev \in Int
  BY DEF RowT
<1>1. Max({c.applied, r.rev}) = r.rev
  <2>1. c.applied \in Int
    BY Fields
  <2>2. /\ Max({c.applied, r.rev}) \in {c.applied, r.rev}
        /\ r.rev <= Max({c.applied, r.rev})
    BY <1>0, <2>1, MaxOfTwo
  <2> QED BY <1>0, <2>1, <2>2
<1>2. noted = [c EXCEPT !.applied = r.rev]
  BY <1>1 DEF ClientT
<1>3. /\ noted \in ClientT /\ noted.applied = r.rev /\ noted.ran = c.ran
      /\ noted.again = {} /\ noted.view = c.view
  BY <1>0, <1>2 DEF ClientT, Covered
<1>4. d = Shown(run, Cap(r))
  BY DEF ApplyJobUpdate
<1> HIDE DEF noted, d
<1>5. noted.ran \cap {r.rev} = {}
  BY <1>0, <1>3, Fields DEF Covered
<1>6. run = [noted EXCEPT !.ran = c.ran \cup {r.rev}, !.again = {}]
  BY ZenonT(30), <1>3, <1>5 DEF RunEffects, ClientT
<1>7. /\ run \in ClientT /\ run.applied = r.rev /\ run.ran = c.ran \cup {r.rev}
      /\ run.again = {}
  <2>1. c.ran \cup {r.rev} \in SUBSET Int
    BY <1>0, Fields
  <2> QED BY ZenonT(30), <2>1, <1>3, <1>6 DEF ClientT
<1> HIDE DEF run
<1>8. CASE crowded
  <2>1. d = Shown(run, NoRow)
    BY <1>4, <1>8 DEF Cap
  <2> QED BY <2>1, <1>7, Removed, NoRowType DEF d
<1>9. CASE ~crowded
  <2>1. d = Shown(run, r)
    BY <1>4, <1>9 DEF Cap
  <2>2. /\ d \in ClientT /\ d.view = r /\ d.applied = r.rev /\ d.again = {}
        /\ d.ran = c.ran \cup {r.rev}
    BY <2>1, <1>7, Displayed
  <2>3. Covered(d)
    BY <2>2, <1>0, Fields DEF Covered
  <2> QED BY <2>2, <2>3, <1>0 DEF Noted, d
<1> QED BY <1>8, <1>9

LEMMA ApplyMoves ==
    ASSUME NEW c \in ClientT, Noted(c), NEW r, Comparable(c.view, r)
    PROVE  /\ Moves(c, ApplyJobUpdate(c, r))
           /\ ApplyJobUpdate(c, r).view \in {c.view, r, NoRow}
<1> DEFINE d == ApplyJobUpdate(c, r)
<1>0. /\ r \in RowT /\ r.rev \in Nat /\ r.phase \in Phases
      /\ c.view \in RowT /\ c.view.rev \in Nat /\ c.view.phase \in Phases
      /\ c.applied \in Int
  BY Fields DEF Comparable, RowT
<1>1. CASE c.tomb # None \/ ~Accepts(c.view, r)
  <2>1. d = c
    BY <1>1 DEF ApplyJobUpdate
  <2> HIDE DEF d
  <2>2. Moves(c, d)
    BY <2>1, <1>0 DEF Moves
  <2> QED BY <2>1, <2>2 DEF d
<1>2. CASE c.tomb = None /\ Accepts(c.view, r) /\ Terminal(r) /\ c.applied < r.rev
  <2>1. /\ d \in ClientT /\ Noted(d) /\ d.view \in {r, NoRow}
        /\ Present(d.view) => r.rev \in d.ran
    BY <1>0, <1>2, ApplyNews DEF Noted
  <2> HIDE DEF d
  <2>2. Present(c.view) => c.view.rev <= r.rev
    BY <1>2 DEF Accepts
  <2>3. Moves(c, d)
    BY <2>1, <2>2, NoRowType DEF Moves
  <2> QED BY <2>1, <2>3 DEF d
<1>3. CASE c.tomb = None /\ Accepts(c.view, r) /\ Terminal(r) /\ ~(c.applied < r.rev)
  <2>1. ~Active(c.view)
    BY <1>0, <1>3 DEF Noted, None
  <2>2. Max({c.applied, r.rev}) = c.applied
    <3>1. r.rev \in Int
      BY <1>0
    <3>2. /\ Max({c.applied, r.rev}) \in {c.applied, r.rev}
          /\ c.applied <= Max({c.applied, r.rev})
      BY ZenonT(30), <1>0, <3>1, MaxOfTwo
    <3> QED BY <1>0, <1>3, <3>2
  <2>3. [c EXCEPT !.applied = Max({@, r.rev})] = c
    BY <2>2 DEF ClientT
  <2>4. d = Shown(c, Cap(r))
    BY <1>3, <2>3 DEF ApplyJobUpdate
  <2> HIDE DEF d
  <2>5. CASE crowded
    <3>1. d = Shown(c, NoRow)
      BY <1>3, <2>4, <2>5 DEF Cap
    <3>2. Moves(c, d)
      BY <3>1, Removed, NoRowType DEF Moves
    <3> QED BY <3>1, <3>2, Removed DEF d
  <2>6. CASE ~crowded
    <3>1. d = Shown(c, r)
      BY <2>4, <2>6 DEF Cap
    <3>2. /\ d \in ClientT /\ d.view = r /\ d.applied = c.applied
          /\ d.ran = c.ran /\ d.again = c.again
      BY <3>1, <1>0, <1>3, Displayed
    <3>3. Noted(d)
      BY <3>2, <1>0, <1>3 DEF Noted, Covered
    <3>4. Moves(c, d)
      BY <3>2, <3>3, <2>1, <1>3 DEF Moves, Accepts
    <3> QED BY <3>2, <3>4 DEF d
  <2> QED BY <2>5, <2>6
<1>4. CASE c.tomb = None /\ Accepts(c.view, r) /\ Active(r)
  <2>1. d = Shown(c, r)
    BY <1>4 DEF ApplyJobUpdate, Cap
  <2> HIDE DEF d
  <2>2. /\ d \in ClientT /\ d.view = r /\ d.applied = c.applied
        /\ d.ran = c.ran /\ d.again = c.again
    BY <2>1, <1>0, <1>4, Displayed
  <2>3. ~Terminal(c.view)
    BY <1>0, <1>4 DEF Comparable, Accepts
  <2>4. Noted(d)
    BY <2>2, <2>3, <1>0, <1>4 DEF Noted, Covered
  <2>5. Moves(c, d)
    BY <2>2, <2>4, <1>4 DEF Moves, Accepts
  <2> QED BY <2>2, <2>5 DEF d
<1>5. CASE c.tomb = None /\ Accepts(c.view, r) /\ ~Present(r)
  <2>1. d = Shown(c, NoRow)
    BY ZenonT(30), <1>5, NoRowType DEF ApplyJobUpdate, Cap, Shown
  <2> HIDE DEF d
  <2>2. Moves(c, d) /\ d.view = NoRow
    BY <2>1, Removed, NoRowType DEF Moves
  <2> QED BY <2>2 DEF d
<1> QED BY <1>0, <1>1, <1>2, <1>3, <1>4, <1>5

\* Rows that age on display change nothing else.
LEMMA AgedMoves ==
    ASSUME NEW c \in ClientT, NEW d, Moves(c, d)
    PROVE  Moves(c, Aged(c, d)) /\ Aged(c, d).view = d.view
<1> DEFINE e == Aged(c, d)
<1>0. d \in ClientT /\ Noted(d)
  BY DEF Moves
<1>1. CASE Terminal(d.view) /\ ~Active(c.view)
  <2>1. e = [d EXCEPT !.ran = @ \cup {d.view.rev}]
    BY <1>1 DEF Aged
  <2>2. d.ran \cup {d.view.rev} \in SUBSET Int
    BY <1>0, Fields
  <2> HIDE DEF e
  <2>3. /\ e \in ClientT /\ e.view = d.view /\ e.applied = d.applied
        /\ e.ran = d.ran \cup {d.view.rev} /\ e.again = d.again
    BY <2>1, <2>2, <1>0 DEF ClientT
  <2>4. Noted(e)
    BY <2>3, <1>0, <1>1 DEF Noted, Covered
  <2>5. Moves(c, e)
    BY <2>3, <2>4, <1>1 DEF Moves
  <2> QED BY <2>3, <2>5 DEF e
<1>2. CASE ~(Terminal(d.view) /\ ~Active(c.view))
  <2>1. e = d
    BY <1>2 DEF Aged
  <2> HIDE DEF e
  <2> QED BY <2>1 DEF e
<1> QED BY <1>1, <1>2

\* A snapshot of a job that has no tombstone.
LEMMA SnapshotMoves ==
    ASSUME NEW c \in ClientT, Noted(c), c.tomb = None, NEW snap, Comparable(c.view, snap)
    PROVE  /\ Moves(c, ShowSnapshot(c, snap))
           /\ ShowSnapshot(c, snap).view \in {c.view, snap, NoRow}
<1> DEFINE missed == Active(c.view) /\ Terminal(snap) /\ Accepts(c.view, snap)
           seeded == Seed(c, snap, missed)
           shown == Shown(seeded, Cap(Reconcile(c.view, snap)))
<1>0. /\ snap \in RowT /\ snap.rev \in Nat /\ snap.phase \in Phases
      /\ c.view \in RowT /\ c.view.rev \in Nat /\ c.view.phase \in Phases
      /\ c.applied \in Int
  BY Fields DEF Comparable, RowT
<1>1. CASE missed
  <2>1. seeded = c /\ Reconcile(c.view, snap) = snap
    BY <1>1 DEF Seed, Reconcile
  <2>2. shown = Shown(c, Cap(snap))
    BY <2>1
  <2>3. ShowSnapshot(c, snap) = Aged(c, ApplyJobUpdate(shown, snap))
    BY <1>1 DEF ShowSnapshot
  <2>4. c.applied = None
    BY <1>1 DEF Noted
  <2> HIDE DEF shown, seeded
  <2>7. /\ shown \in ClientT /\ Covered(shown) /\ shown.tomb = None
        /\ shown.applied = None /\ shown.view \in {snap, NoRow}
    <3>1. CASE crowded
      <4>1. shown = Shown(c, NoRow)
        BY <1>1, <2>2, <3>1 DEF Cap
      <4> QED BY <4>1, Removed DEF Noted
    <3>2. CASE ~crowded
      <4>1. shown = Shown(c, snap)
        BY <2>2, <3>2 DEF Cap
      <4>2. Present(snap)
        BY <1>1
      <4>3. /\ shown \in ClientT /\ shown.tomb = None /\ shown.view = snap
            /\ shown.applied = None /\ shown.ran = c.ran /\ shown.again = c.again
        BY <4>1, <4>2, <2>4, <1>0, Displayed
      <4>4. Covered(shown)
        BY <4>3, <2>4 DEF Noted, Covered
      <4> QED BY <4>3, <4>4
    <3> QED BY <3>1, <3>2
  <2>8. Accepts(shown.view, snap)
    BY <2>7, <1>0, NoRowType DEF Accepts
  <2>9. shown.applied < snap.rev
    BY <2>7, <1>0 DEF None
  <2> DEFINE d == ApplyJobUpdate(shown, snap)
  <2>10. /\ d \in ClientT /\ Noted(d) /\ d.view \in {snap, NoRow}
         /\ Present(d.view) => snap.rev \in d.ran
    BY <2>7, <2>8, <2>9, <1>0, <1>1, ApplyNews
  <2> HIDE DEF d
  <2>11. Moves(c, d)
    BY <2>10, <1>1, NoRowType DEF Moves, Accepts
  <2> QED BY <2>3, <2>10, <2>11, AgedMoves DEF d
<1>2. CASE ~missed /\ Terminal(snap)
  <2>1. ~Active(c.view)
    BY <1>2, <1>0 DEF Comparable, Accepts
  <2>2. seeded = [c EXCEPT !.applied = Max({@, snap.rev})]
    BY <1>2 DEF Seed
  <2>3. /\ Max({c.applied, snap.rev}) \in Int
        /\ c.applied <= Max({c.applied, snap.rev})
        /\ snap.rev <= Max({c.applied, snap.rev})
    <3>1. snap.rev \in Int
      BY <1>0
    <3> QED BY ZenonT(30), <1>0, <3>1, MaxOfTwo
  <2>4. /\ seeded \in ClientT /\ seeded.view = c.view /\ seeded.tomb = None
        /\ seeded.applied = Max({c.applied, snap.rev})
        /\ seeded.ran = c.ran /\ seeded.again = c.again
    BY <2>2, <2>3 DEF ClientT
  <2>5. ShowSnapshot(c, snap) = Aged(c, shown)
    BY <1>2 DEF ShowSnapshot
  <2>6. /\ Reconcile(c.view, snap) \in {c.view, snap}
        /\ Terminal(Reconcile(c.view, snap))
        /\ Present(c.view) => c.view.rev <= Reconcile(c.view, snap).rev
        /\ Reconcile(c.view, snap) \in RowT
    BY <1>0, <1>2, <2>1 DEF Reconcile, Accepts
  <2> HIDE DEF seeded
  <2>7. CASE crowded
    <3>1. shown = Shown(seeded, NoRow)
      BY <2>6, <2>7 DEF Cap
    <3> HIDE DEF shown
    <3>2. Moves(c, shown) /\ shown.view = NoRow
      BY <3>1, <2>4, Removed, NoRowType DEF Moves
    <3> QED BY <3>2, <2>5, AgedMoves
  <2>8. CASE ~crowded
    <3> DEFINE r == Reconcile(c.view, snap)
    <3>1. shown = Shown(seeded, r)
      BY <2>8 DEF Cap
    <3> HIDE DEF shown, r
    <3>2. r \in {c.view, snap} /\ Terminal(r) /\ r \in RowT
          /\ (Present(c.view) => c.view.rev <= r.rev)
      BY <2>6 DEF r
    <3>3. /\ shown \in ClientT /\ shown.view = r /\ shown.again = c.again
          /\ shown.applied = Max({c.applied, snap.rev}) /\ shown.ran = c.ran
      BY <3>1, <3>2, <2>4, Displayed
    <3>4. r.rev <= Max({c.applied, snap.rev})
      BY <3>2, <2>3, <1>0 DEF Noted
    <3>5. Covered(shown)
      BY <3>3, <2>3, <1>0, Fields DEF Noted, Covered
    <3>6. Moves(c, shown)
      BY <3>2, <3>3, <3>4, <3>5, <2>1 DEF Moves, Noted
    <3> QED BY <3>2, <3>3, <3>6, <2>5, AgedMoves
  <2> QED BY <2>7, <2>8
<1>3. CASE ~Terminal(snap)
  <2>1. seeded = c
    BY <1>3 DEF Seed
  <2>2. ShowSnapshot(c, snap) = Aged(c, shown)
    BY <1>3 DEF ShowSnapshot
  <2> DEFINE r == Cap(Reconcile(c.view, snap))
  <2>3. /\ r \in {c.view, snap, NoRow} /\ r \in RowT
        /\ Present(c.view) /\ Present(r) => c.view.rev <= r.rev
        /\ Terminal(r) <=> Terminal(c.view) /\ Present(r)
    BY <1>0, <1>3, NoRowType DEF Reconcile, Accepts, Cap, Comparable
  <2>4. shown = Shown(c, r)
    BY <2>1
  <2> HIDE DEF shown, r, seeded
  <2>5. CASE Present(r)
    <3>1. /\ shown \in ClientT /\ shown.view = r /\ shown.again = c.again
          /\ shown.applied = c.applied /\ shown.ran = c.ran
      BY <2>3, <2>4, <2>5, Displayed
    <3>2. Terminal(r) => r = c.view
      BY <2>3, <1>3, NoRowType
    <3>3. Noted(shown)
      BY <3>1, <3>2, <2>3, <2>5 DEF Noted, Covered
    <3>4. Moves(c, shown)
      BY <3>1, <3>3, <2>3, <2>5 DEF Moves
    <3> QED BY <3>1, <3>4, <2>2, <2>3, AgedMoves
  <2>6. CASE ~Present(r)
    <3>1. shown = Shown(c, NoRow)
      BY <2>4, <2>6, NoRowType DEF Shown
    <3>2. Moves(c, shown) /\ shown.view = NoRow
      BY <3>1, Removed, NoRowType DEF Moves
    <3> QED BY <3>2, <2>2, AgedMoves
  <2> QED BY <2>5, <2>6
<1> QED BY <1>1, <1>2, <1>3

LEMMA MovesNowhere ==
    ASSUME NEW c \in ClientT, Noted(c)
    PROVE  Moves(c, c)
  BY Fields DEF Moves

LEMMA MovesAway ==
    ASSUME NEW c \in ClientT, NEW d \in ClientT
    PROVE  Moves(c, Shown(d, NoRow)) /\ Shown(d, NoRow).view = NoRow
  BY Removed, NoRowType DEF Moves

LEMMA HandleSnapshotMoves ==
    ASSUME NEW c \in ClientT, Noted(c), conn.barrier \in Int, Comparable(c.view, Snapshot)
    PROVE  /\ Moves(c, HandleJobsSnapshot(c))
           /\ HandleJobsSnapshot(c).view \in {c.view, Snapshot, NoRow}
<1> DEFINE barred == [c EXCEPT !.snapRev = Max({@, conn.barrier}), !.tomb = TombAfter(c)]
           d == HandleJobsSnapshot(c)
<1>1. Max({c.snapRev, conn.barrier}) \in Int
  BY ZenonT(30), Fields, MaxOfTwo
<1>2. TombAfter(c) \in Int
  BY Fields DEF TombAfter, None
<1>3. /\ barred \in ClientT /\ barred.view = c.view /\ barred.applied = c.applied
      /\ barred.ran = c.ran /\ barred.again = c.again
  BY ZenonT(30), <1>1, <1>2 DEF ClientT
<1>4. d = IF barred.tomb # None THEN Shown(barred, NoRow) ELSE ShowSnapshot(barred, Snapshot)
  BY DEF HandleJobsSnapshot
<1> HIDE DEF barred, d
<1>5. CASE barred.tomb # None
  BY <1>3, <1>4, <1>5, MovesAway DEF d
<1>6. CASE barred.tomb = None
  <2>1. Noted(barred) /\ Comparable(barred.view, Snapshot)
    BY <1>3 DEF Noted, Covered
  <2>2. d = ShowSnapshot(barred, Snapshot)
    BY <1>4, <1>6
  <2>3. Moves(barred, d) /\ d.view \in {barred.view, Snapshot, NoRow}
    BY <2>1, <2>2, <1>3, <1>6, SnapshotMoves
  <2>4. Moves(c, d)
    BY <2>3, <1>3 DEF Moves
  <2> QED BY <2>3, <2>4, <1>3 DEF d
<1> QED BY <1>5, <1>6

-----------------------------------------------------------------------------
(* Every step *)

\* The row in the store only goes forward, and a new terminal row is a new
\* revision.
Advances ==
    /\ row' \in RowT
    /\ row.rev <= row'.rev
    /\ Terminal(row) => Terminal(row')
    /\ row' # row => Present(row') /\ (Terminal(row') => row.rev < row'.rev)

\* No version comes from anywhere but the store.
Carried == \A a \in Versions' : a \in Versions \/ a = NoRow \/ a = row'

Keeps == Shapes' /\ Advances /\ Carried /\ Moves(client, client')

LEMMA KeepsInv ==
    ASSUME EventsInv, Keeps
    PROVE  EventsInv'
<1>1. Noted(client)'
  BY DEF Keeps, Moves
<1>2. row \in RowT /\ row.rev \in Nat /\ row' \in RowT /\ row'.rev \in Nat
  BY DEF EventsInv, Ordered, Versions, Keeps, Advances, RowT
<1>3. ASSUME NEW a \in Versions'
      PROVE  a \in RowT /\ a.rev <= row'.rev /\ (Terminal(a) => Terminal(row'))
  <2>1. CASE a \in Versions
    <3>1. a \in RowT /\ a.rev \in Nat /\ a.rev <= row.rev /\ (Terminal(a) => Terminal(row))
      BY <2>1 DEF EventsInv, Ordered, RowT
    <3> QED BY <3>1, <1>2 DEF Keeps, Advances
  <2>2. CASE a = NoRow
    BY <2>2, <1>2 DEF NoRow, RowT
  <2>3. CASE a = row'
    BY <2>3, <1>2
  <2> QED BY <2>1, <2>2, <2>3 DEF Keeps, Carried
<1>4. ASSUME NEW a \in Versions', NEW b \in Versions', Active(a), Terminal(b)
      PROVE  a.rev < b.rev
  <2>1. a # NoRow /\ b # NoRow
    BY <1>4 DEF NoRow
  <2>2. CASE a \in Versions /\ b \in Versions
    BY <2>2, <1>4 DEF EventsInv, Ordered
  <2>3. CASE a \in Versions /\ b \notin Versions
    <3>1. b = row' /\ row' # row
      BY ZenonT(30), <2>1, <2>3 DEF Keeps, Carried, Versions
    <3>2. a.rev \in Nat /\ a.rev <= row.rev
      BY <2>3 DEF EventsInv, Ordered, RowT
    <3> QED BY <3>1, <3>2, <1>2, <1>4 DEF Keeps, Advances
  <2>4. CASE a \notin Versions
    <3>1. a = row'
      BY <2>1, <2>4 DEF Keeps, Carried
    <3>2. Terminal(row')
      BY <1>3, <1>4
    <3> QED BY <3>1, <3>2, <1>4
  <2> QED BY <2>2, <2>3, <2>4
<1>5. ~Present(row') => row'.rev = 0
  BY DEF Keeps, Advances, EventsInv, Ordered
<1> QED BY <1>1, <1>3, <1>4, <1>5 DEF EventsInv, Ordered, Keeps

\* The parts of Keeps, one per variable.
Known(r) == r \in Versions \/ r = NoRow \/ r = row'

SettlingKept ==
    /\ settling' = [turn |-> settling'.turn, accepted |-> settling'.accepted]
    /\ Known(settling'.accepted)
PubsKept == pubs' \subseteq Message /\ \A m \in pubs' : Known(m.row)
HubKept ==
    /\ HubShaped(hub')
    /\ \A i \in 1 .. Len(hub'.buffer) : Known(hub'.buffer[i].body.row)
ConnKept ==
    /\ ConnShaped(conn')
    /\ Known(conn'.active) /\ Known(conn'.recent) /\ Known(conn'.named)
ClientKept == Moves(client, client') /\ Known(client'.view)

LEMMA Parts ==
    ASSUME Advances, SettlingKept, PubsKept, HubKept, ConnKept, ClientKept
    PROVE  Keeps
<1>1. Shapes'
  BY ZenonT(30) DEF SettlingKept, PubsKept, HubKept, ConnKept, ClientKept, Moves, Shapes
<1>2. Carried
  BY ZenonT(30) DEF SettlingKept, PubsKept, HubKept, ConnKept, ClientKept, Known, Carried, Versions
<1> QED BY <1>1, <1>2 DEF Keeps, ClientKept

LEMMA Unmoved ==
    ASSUME EventsInv
    PROVE  /\ UNCHANGED settling => SettlingKept
           /\ UNCHANGED pubs => PubsKept
           /\ UNCHANGED hub => HubKept
           /\ UNCHANGED conn => ConnKept
           /\ UNCHANGED client => ClientKept
           /\ UNCHANGED row => Advances
<1>1. UNCHANGED settling => SettlingKept
  BY DEF EventsInv, Shapes, SettlingKept, Known, Versions
<1>2. UNCHANGED pubs => PubsKept
  BY DEF EventsInv, Shapes, PubsKept, Known, Versions
<1>3. UNCHANGED hub => HubKept
  BY DEF EventsInv, Shapes, HubKept, Known, Versions
<1>4. UNCHANGED conn => ConnKept
  BY DEF EventsInv, Shapes, ConnKept, Known, Versions
<1>5. UNCHANGED client => ClientKept
  <2> SUFFICES ASSUME UNCHANGED client PROVE ClientKept
    OBVIOUS
  <2>1. Moves(client, client)
    BY MovesNowhere DEF EventsInv, Shapes
  <2>2. client.view \in Versions
    BY DEF Versions
  <2> QED BY <2>1, <2>2 DEF ClientKept, Known
<1>6. UNCHANGED row => Advances
  BY DEF EventsInv, Ordered, Versions, Advances, RowT
<1> QED BY <1>1, <1>2, <1>3, <1>4, <1>5, <1>6

LEMMA RowFacts ==
    ASSUME EventsInv
    PROVE  /\ row \in RowT /\ row.rev \in Nat /\ row.phase \in Phases
           /\ \A phase \in Phases : Bumped(phase) \in RowT
  BY DEF EventsInv, Ordered, Versions, RowT, Bumped

\* One committed update.
LEMMA BumpAdvances ==
    ASSUME EventsInv, NEW phase \in {"active", "terminal"}, row' = Bumped(phase),
           Terminal(row) => phase = "terminal"
    PROVE  Advances
  BY RowFacts DEF Bumped, Advances

LEMMA TouchedKept ==
    ASSUME EventsInv, conn' = Touched
    PROVE  ConnKept
<1>1. CASE conn' = conn
  BY <1>1, Unmoved
<1>2. CASE conn' = [conn EXCEPT !.changed = TRUE]
  <2>1. ConnShaped(conn)
    BY DEF EventsInv, Shapes
  <2>2. ConnShaped(conn') /\ conn'.active = conn.active /\ conn'.recent = conn.recent
        /\ conn'.named = conn.named
    BY ZenonT(30), <1>2, <2>1 DEF ConnShaped
  <2> QED BY <2>2 DEF ConnKept, Known, Versions
<1> QED BY <1>1, <1>2 DEF Touched

LEMMA ClosedKept ==
    ASSUME conn' = Closed \/ \E pc \in {"opening", "live"} : conn' = [Closed EXCEPT !.pc = pc]
    PROVE  ConnKept
  BY DEF Closed, ConnKept, ConnShaped, Known

\* What is published is a version of the row, or none.
LEMMA AddedKept ==
    ASSUME EventsInv, NEW m \in Message, Known(m.row), pubs' = pubs \cup {m}
    PROVE  PubsKept
  BY DEF EventsInv, Shapes, PubsKept, Known, Versions

LEMMA MessageTypes ==
    ASSUME NEW r \in RowT
    PROVE  /\ JobUpdated(r) \in Message /\ JobUpdated(r).row = r
           /\ JobsCleared \in Message /\ JobsCleared.row = NoRow
           /\ Other \in Message /\ Other.row = NoRow
  BY NoRowType DEF JobUpdated, JobsCleared, Other, Message

LEMMA BufferTypes ==
    ASSUME NEW S, NEW s \in Seq(S)
    PROVE  /\ \A e \in S : Append(s, e) \in Seq(S)
           /\ s # <<>> => Tail(s) \in Seq(S) /\ Head(s) \in S
           /\ <<>> \in Seq(S)
  OBVIOUS

LEMMA SentKept ==
    ASSUME EventsInv, NEW m \in Message, Known(m.row), hub' = Sent(m)
    PROVE  HubKept
<1>1. hub.rev \in Int /\ hub.buffer \in Seq(Envelope)
  BY DEF EventsInv, Shapes, HubShaped
<1>2. [rev |-> hub.rev + 1, body |-> m] \in Envelope
  BY <1>1 DEF Envelope
<1>3. /\ hub' = [rev |-> hub'.rev, open |-> hub'.open, buffer |-> hub'.buffer]
      /\ hub'.rev = hub.rev + 1
      /\ hub'.buffer \in {hub.buffer, Append(hub.buffer, [rev |-> hub.rev + 1, body |-> m])}
  BY DEF Sent
<1>4. HubShaped(hub')
  <2>1. hub'.buffer \in Seq(Envelope)
    <3> DEFINE e == [rev |-> hub.rev + 1, body |-> m]
    <3>1. Append(hub.buffer, e) \in Seq(Envelope)
      <4>1. e \in Envelope
        BY <1>2
      <4> HIDE DEF e
      <4> QED BY <1>1, <4>1, BufferTypes, Zenon
    <3> QED BY <1>1, <1>3, <3>1, Zenon
  <2>2. hub'.rev \in Int
    BY <1>1, <1>3
  <2> QED BY <2>1, <2>2, <1>3, Zenon DEF HubShaped
<1>5. ASSUME NEW i \in 1 .. Len(hub'.buffer)
      PROVE  Known(hub'.buffer[i].body.row)
  <2>1. hub'.buffer[i].body = m
        \/ (i \in 1 .. Len(hub.buffer) /\ hub'.buffer[i] = hub.buffer[i])
    BY <1>1, <1>2, <1>3
  <2> QED BY ZenonT(30), <2>1 DEF Known, Versions
<1> QED BY <1>4, <1>5 DEF HubKept

LEMMA StoreKeeps ==
    ASSUME EventsInv,
           \/ CreateJob \/ AcceptTerminal \/ EffectsFail \/ ClearJobs \/ AnswerTerminal
           \/ Heartbeat \/ EffectsDeferred
           \/ \E phase \in {"active", "terminal"} : UpdateJob(phase) \/ UpdateUnpublished(phase)
           \/ \E who \in {"request", "loop"} : SettleEffects(who)
    PROVE  Keeps
<1>0. /\ UNCHANGED <<hub, client>>
      /\ HubKept /\ ClientKept
  <2>1. UNCHANGED <<hub, client>>
    BY DEF CreateJob, AcceptTerminal, EffectsFail, ClearJobs, AnswerTerminal, UpdateJob,
           UpdateUnpublished, SettleEffects, Heartbeat, EffectsDeferred, CommitAnnounced, Commit
  <2> QED BY <2>1, Unmoved
<1>1. CASE CreateJob
  <2> DEFINE r == [phase |-> "active", rev |-> 0]
  <2>1. r \in RowT /\ row' = r /\ conn' = Touched /\ UNCHANGED settling
        /\ pubs' = pubs \cup {JobUpdated(r)} /\ ~Present(row)
    BY <1>1 DEF CreateJob, CommitAnnounced, Commit, RowT
  <2>2. Advances
    BY <2>1, RowFacts DEF Advances, EventsInv, Ordered
  <2>3. PubsKept
    BY <2>1, MessageTypes, AddedKept DEF Known
  <2> QED BY <1>0, <2>1, <2>2, <2>3, Unmoved, TouchedKept, Parts
<1>2. CASE \E phase \in {"active", "terminal"} : UpdateJob(phase)
  <2>1. PICK phase \in {"active", "terminal"} : UpdateJob(phase)
    BY <1>2
  <2>2. /\ row' = Bumped(phase) /\ Active(row) /\ conn' = Touched /\ UNCHANGED settling
        /\ pubs' = pubs \cup {JobUpdated(Bumped(phase))} /\ Bumped(phase) \in RowT
    BY <2>1, RowFacts DEF UpdateJob, CommitAnnounced, Commit
  <2>3. Advances
    BY <2>2, BumpAdvances
  <2>4. PubsKept
    BY <2>2, MessageTypes, AddedKept DEF Known
  <2> QED BY <1>0, <2>2, <2>3, <2>4, Unmoved, TouchedKept, Parts
<1>3. CASE AcceptTerminal
  <2>1. /\ row' = Bumped("terminal") /\ conn' = Touched /\ UNCHANGED pubs
        /\ settling' = [turn |-> "request", accepted |-> row']
    BY <1>3 DEF AcceptTerminal, CommitAnnounced, Commit
  <2>2. Advances
    BY <2>1, BumpAdvances
  <2>3. SettlingKept
    BY <2>1 DEF SettlingKept, Known
  <2> QED BY <1>0, <2>1, <2>2, <2>3, Unmoved, TouchedKept, Parts
<1>4. CASE \E who \in {"request", "loop"} : SettleEffects(who)
  <2>1. PICK who \in {"request", "loop"} : SettleEffects(who)
    BY <1>4
  <2>2. /\ row' = Bumped("terminal") /\ conn' = Touched
        /\ pubs' = pubs \cup {JobUpdated(row')} /\ row' \in RowT
        /\ \E turn \in {"answer", "nobody"} : settling' = [turn |-> turn, accepted |-> NoRow]
    BY <2>1, RowFacts DEF SettleEffects, CommitAnnounced, Commit, Settled
  <2>3. Advances
    BY <2>2, BumpAdvances
  <2>4. PubsKept
    BY <2>2, MessageTypes, AddedKept DEF Known
  <2>5. SettlingKept
    BY <2>2 DEF SettlingKept, Known
  <2> QED BY <1>0, <2>2, <2>3, <2>4, <2>5, TouchedKept, Parts
<1>5. CASE AnswerTerminal \/ EffectsFail
  <2>1. PICK r \in {row, settling.accepted} :
           /\ pubs' = pubs \cup {JobUpdated(r)}
           /\ \E turn \in {"loop", "nobody"} : settling' = [turn |-> turn, accepted |-> NoRow]
           /\ UNCHANGED <<row, conn>>
    BY <1>5 DEF AnswerTerminal, EffectsFail, Settled
  <2>2. r \in RowT /\ r \in Versions
    BY <2>1 DEF EventsInv, Ordered, Versions
  <2>3. PubsKept
    BY <2>1, <2>2, MessageTypes, AddedKept DEF Known
  <2>4. SettlingKept
    BY <2>1 DEF SettlingKept, Known
  <2> QED BY <1>0, <2>1, <2>3, <2>4, Unmoved, Parts
<1>6. CASE ClearJobs
  <2>1. /\ row' = Bumped("terminal") /\ UNCHANGED <<settling, conn>>
        /\ pubs' = pubs \cup {JobsCleared}
    BY <1>6 DEF ClearJobs
  <2>2. Advances
    BY <2>1, BumpAdvances
  <2>3. PubsKept
    BY <2>1, NoRowType, MessageTypes, AddedKept DEF Known
  <2> QED BY <1>0, <2>1, <2>2, <2>3, Unmoved, Parts
<1>7. CASE Heartbeat
  <2>1. /\ row' = Bumped(row.phase) /\ Present(row) /\ conn' = Touched
        /\ UNCHANGED <<settling, pubs>>
    BY <1>7 DEF Heartbeat, Commit
  <2>2. /\ row.phase \in {"active", "terminal"}
        /\ Terminal(row) => row.phase = "terminal"
    BY <2>1, RowFacts DEF Present, Terminal, RowT
  <2>3. Advances
    BY <2>1, <2>2, BumpAdvances
  <2> QED BY <1>0, <2>1, <2>3, Unmoved, TouchedKept, Parts
<1>8. CASE EffectsDeferred
  <2>1. row' = Bumped("terminal") /\ UNCHANGED <<settling, pubs, conn>>
    BY <1>8 DEF EffectsDeferred
  <2>2. Advances
    BY <2>1, BumpAdvances
  <2> QED BY <1>0, <2>1, <2>2, Unmoved, Parts
<1>9. CASE \E phase \in {"active", "terminal"} : UpdateUnpublished(phase)
  <2>1. PICK phase \in {"active", "terminal"} :
           /\ row' = Bumped(phase) /\ Active(row) /\ conn' = Touched
           /\ UNCHANGED <<settling, pubs>>
    BY <1>9 DEF UpdateUnpublished, Commit
  <2>2. Advances
    BY <2>1, BumpAdvances
  <2> QED BY <1>0, <2>1, <2>2, Unmoved, TouchedKept, Parts
<1> QED BY <1>1, <1>2, <1>3, <1>4, <1>5, <1>6, <1>7, <1>8, <1>9

LEMMA HubKeeps ==
    ASSUME EventsInv, PublishOther \/ \E m \in pubs : Publish(m)
    PROVE  Keeps
<1>1. CASE PublishOther
  <2>1. hub' = Sent(Other) /\ UNCHANGED <<row, settling, pubs, conn, client>>
    BY <1>1 DEF PublishOther, storeVars
  <2>2. Other \in Message /\ Known(Other.row)
    BY NoRowType, MessageTypes DEF Known
  <2>3. HubKept
    BY <2>1, <2>2, SentKept
  <2> QED BY <2>1, <2>3, Unmoved, Parts
<1>2. CASE \E m \in pubs : Publish(m)
  <2>1. PICK m \in pubs : Publish(m)
    BY <1>2
  <2>2. /\ hub' = Sent(m) /\ pubs' = pubs \ {m}
        /\ UNCHANGED <<row, settling, conn, client>>
    BY <2>1 DEF Publish
  <2>3. m \in Message /\ Known(m.row)
    BY DEF EventsInv, Shapes, Known, Versions
  <2>4. HubKept
    BY <2>2, <2>3, SentKept
  <2>5. PubsKept
    BY <2>2 DEF PubsKept, Known, Versions, EventsInv, Shapes
  <2> QED BY <2>2, <2>4, <2>5, Unmoved, Parts
<1> QED BY <1>1, <1>2

\* A buffer that is emptied, or shortened by its head.
LEMMA BufferKept ==
    ASSUME EventsInv,
           NEW q, q = <<>> \/ (hub.buffer # <<>> /\ q = Tail(hub.buffer)),
           NEW n \in Int, NEW b, hub' = [rev |-> n, open |-> b, buffer |-> q]
    PROVE  HubKept
<1>1. hub.buffer \in Seq(Envelope)
  BY DEF EventsInv, Shapes, HubShaped
<1>2. hub'.rev = n /\ hub'.buffer = q /\ q \in Seq(Envelope)
  <2>1. q \in Seq(Envelope)
    BY <1>1, BufferTypes, Zenon
  <2> QED BY <2>1
<1>3. HubShaped(hub')
  BY <1>2 DEF HubShaped
<1>4. ASSUME NEW i \in 1 .. Len(q)
      PROVE  Known(q[i].body.row)
  <2> DEFINE s == hub.buffer
  <2>0. s \in Seq(Envelope) /\ (q = <<>> \/ (s # <<>> /\ q = Tail(s)))
    BY <1>1
  <2> HIDE DEF s
  <2>1. i + 1 \in 1 .. Len(s) /\ q[i] = s[i + 1]
    <3>1. CASE q = <<>>
      BY <3>1
    <3>2. CASE s # <<>> /\ q = Tail(s)
      BY <2>0, <3>2
    <3> QED BY <2>0, <3>1, <3>2
  <2> QED BY <2>1 DEF s, Known, Versions
<1> QED BY <1>2, <1>3, <1>4 DEF HubKept

LEMMA RequestKeeps ==
    ASSUME EventsInv,
           \/ Subscribe \/ ReadBarrier \/ ListRecent \/ ListNamed \/ ListCleared
           \/ StreamEnds \/ StreamError
    PROVE  Keeps
<1>0. UNCHANGED <<row, settling, pubs, client>>
  BY ZenonT(30) DEF Subscribe, ReadBarrier, ListRecent, ListNamed, ListCleared, StreamEnds,
         StreamError, storeVars
<1>1. /\ ConnShaped(conn) /\ hub.rev \in Int
      /\ hub = [rev |-> hub.rev, open |-> hub.open, buffer |-> hub.buffer]
  BY DEF EventsInv, Shapes, HubShaped
<1>2. /\ conn.active \in Versions /\ conn.recent \in Versions /\ conn.named \in Versions
      /\ row \in Versions
  BY DEF Versions
<1>3. CASE Subscribe
  <2>1. PICK r \in {row, NoRow} :
           conn' = [conn EXCEPT !.pc = "subscribed", !.active = r]
    BY ZenonT(30), <1>3 DEF Subscribe
  <2>2. ConnKept
    BY ZenonT(30), <1>1, <1>2, <2>1 DEF ConnKept, ConnShaped, Known
  <2>3. hub' = [rev |-> hub.rev, open |-> TRUE, buffer |-> <<>>]
    BY ZenonT(30), <1>1, <1>3 DEF Subscribe
  <2>4. HubKept
    BY <1>1, <2>3, BufferKept
  <2> QED BY <1>0, <2>2, <2>4, Unmoved, Parts
<1>4. CASE ReadBarrier
  <2>1. ConnKept
    BY ZenonT(30), <1>1, <1>2, <1>4 DEF ReadBarrier, ConnKept, ConnShaped, Known
  <2> QED BY <1>0, <1>4, <2>1, Unmoved, Parts DEF ReadBarrier
<1>5. CASE ListRecent
  <2>1. PICK r \in {row, NoRow} :
           conn' = [conn EXCEPT !.pc = "listed", !.changed = FALSE, !.recent = r]
    BY ZenonT(30), <1>5 DEF ListRecent, Listed
  <2>2. ConnKept
    BY ZenonT(30), <1>1, <1>2, <2>1 DEF ConnKept, ConnShaped, Known
  <2> QED BY ZenonT(30), <1>0, <1>5, <2>2, Unmoved, Parts DEF ListRecent
<1>6. CASE ListNamed
  <2>1. PICK r \in {row, NoRow} : conn' = [conn EXCEPT !.pc = "named", !.named = r]
    BY ZenonT(30), <1>6 DEF ListNamed, Listed
  <2>2. ConnKept
    BY ZenonT(30), <1>1, <1>2, <2>1 DEF ConnKept, ConnShaped, Known
  <2> QED BY <1>0, <1>6, <2>2, Unmoved, Parts DEF ListNamed
<1>7. CASE ListCleared
  <2> DEFINE g == cleared /\ client.known # "absent"
  <2>1. conn' = [conn EXCEPT !.pc = "ready", !.gone = g]
    BY <1>7 DEF ListCleared
  <2> HIDE DEF g
  <2>2. ConnKept
    BY ZenonT(30), <1>1, <1>2, <2>1 DEF ConnKept, ConnShaped, Known
  <2> QED BY <1>0, <1>7, <2>2, Unmoved, Parts DEF ListCleared
<1>8. CASE StreamEnds
  BY <1>0, <1>8, ClosedKept, Unmoved, Parts DEF StreamEnds
<1>9. CASE StreamError
  <2>1. hub' = [rev |-> hub.rev, open |-> FALSE, buffer |-> <<>>]
    BY ZenonT(30), <1>1, <1>9 DEF StreamError
  <2>2. HubKept
    BY <1>1, <2>1, BufferKept
  <2> QED BY <1>0, <1>9, <2>2, ClosedKept, Unmoved, Parts DEF StreamError
<1> QED BY ZenonT(30), <1>3, <1>4, <1>5, <1>6, <1>7, <1>8, <1>9

LEMMA VersionsComparable ==
    ASSUME EventsInv, NEW a, NEW b, a \in Versions \/ a = NoRow, b \in Versions \/ b = NoRow
    PROVE  Comparable(a, b)
  BY NoRowType DEF EventsInv, Ordered, Comparable

LEMMA BrowserKeeps ==
    ASSUME EventsInv, Connect \/ DeliverSnapshot \/ Deliver \/ CrowdOut
    PROVE  Keeps
<1>0. /\ client \in ClientT /\ Noted(client) /\ client.view \in Versions
      /\ UNCHANGED <<row, settling, pubs>>
  BY DEF EventsInv, Shapes, Versions, Connect, DeliverSnapshot, Deliver, CrowdOut, storeVars
<1>1. CASE Connect
  <2>1. PICK known \in Phases : client' = [client EXCEPT !.known = known, !.snapRev = 0]
    <3>1. client.view.phase \in Phases
      BY <1>0, Fields
    <3> QED BY ZenonT(30), <1>1, <3>1 DEF Connect
  <2>2. /\ client' \in ClientT /\ client'.view = client.view /\ client'.ran = client.ran
        /\ client'.applied = client.applied /\ client'.again = client.again
    <3>1. known \in Phases /\ 0 \in Int
      BY <2>1
    <3>2. [client EXCEPT !.known = known, !.snapRev = 0] \in ClientT
      BY ZenonT(30), <1>0, <3>1 DEF ClientT
    <3> QED BY <1>0, <2>1, <3>2 DEF ClientT
  <2>3. Noted(client')
    BY <1>0, <2>2 DEF Noted, Covered
  <2>4. ClientKept
    BY <1>0, <2>2, <2>3, Fields DEF ClientKept, Moves, Known
  <2> QED BY <1>0, <1>1, <2>4, ClosedKept, Unmoved, Parts DEF Connect
<1>2. CASE DeliverSnapshot
  <2>1. Snapshot \in {conn.recent, conn.active, conn.named}
    BY DEF Snapshot
  <2>2. Snapshot \in Versions
    BY <2>1 DEF Versions
  <2>3. conn.barrier \in Int /\ Comparable(client.view, Snapshot)
    BY <1>0, <2>2, VersionsComparable DEF EventsInv, Shapes, ConnShaped
  <2>4. client' = HandleJobsSnapshot(client)
    BY <1>2 DEF DeliverSnapshot
  <2>5. ClientKept
    BY <1>0, <2>2, <2>3, <2>4, HandleSnapshotMoves DEF ClientKept, Known
  <2> QED BY <1>0, <1>2, <2>5, ClosedKept, Unmoved, Parts DEF DeliverSnapshot
<1>3. CASE Deliver
  <2>1. /\ hub.buffer \in Seq(Envelope) /\ hub.buffer # <<>> /\ hub.rev \in Int
        /\ hub = [rev |-> hub.rev, open |-> hub.open, buffer |-> hub.buffer]
    BY <1>3 DEF EventsInv, Shapes, HubShaped, Deliver
  <2>2. hub' = [rev |-> hub.rev, open |-> hub.open, buffer |-> Tail(hub.buffer)]
    BY ZenonT(30), <1>3, <2>1 DEF Deliver
  <2>3. HubKept
    BY <2>1, <2>2, BufferKept
  <2> DEFINE e == Head(hub.buffer)
  <2>4. e \in Envelope
    BY <2>1, BufferTypes, Zenon
  <2>5. e.rev \in Int /\ e.body.row \in RowT
    BY <2>4 DEF Envelope, Message
  <2>6. e.body.row \in Versions
    <3>1. 1 \in 1 .. Len(hub.buffer) /\ e = hub.buffer[1]
      BY <2>1
    <3> QED BY <3>1 DEF Versions
  <2>7. \/ client' = client
        \/ client' = ApplyJobUpdate(client, e.body.row)
        \/ client' = Shown([client EXCEPT !.tomb = e.rev], NoRow)
        \/ client' = Shown([client EXCEPT !.tomb = None], NoRow)
    BY <1>3 DEF Deliver, HandleJobUpdated, HandleJobsCleared
  <2> HIDE DEF e
  <2>8. ClientKept
    <3>1. CASE client' = client
      BY <3>1, Unmoved
    <3>2. CASE client' = ApplyJobUpdate(client, e.body.row)
      <4>1. Comparable(client.view, e.body.row)
        BY <1>0, <2>6, VersionsComparable
      <4> QED BY <1>0, <2>6, <3>2, <4>1, ApplyMoves DEF ClientKept, Known
    <3>3. ASSUME NEW n \in Int, client' = Shown([client EXCEPT !.tomb = n], NoRow)
          PROVE  ClientKept
      <4>1. [client EXCEPT !.tomb = n] \in ClientT
        BY <1>0 DEF ClientT
      <4> QED BY <1>0, <3>3, <4>1, MovesAway DEF ClientKept, Known
    <3>4. None \in Int
      BY DEF None
    <3> QED BY <2>5, <2>7, <3>1, <3>2, <3>3, <3>4
  <2> QED BY <1>0, <1>3, <2>3, <2>8, Unmoved, Parts DEF Deliver
<1>4. CASE CrowdOut
  <2>1. CASE client' = client
    BY <1>0, <1>4, <2>1, Unmoved, Parts DEF CrowdOut
  <2>2. CASE client' = Shown(client, NoRow)
    <3>1. ClientKept
      BY <1>0, <2>2, MovesAway DEF ClientKept, Known
    <3> QED BY <1>0, <1>4, <3>1, Unmoved, Parts DEF CrowdOut
  <2> QED BY <1>4, <2>1, <2>2 DEF CrowdOut
<1> QED BY <1>1, <1>2, <1>3, <1>4

LEMMA RestartKeeps ==
    ASSUME EventsInv, NEW r, ApiRestart(r), r = row \/ (Active(row) /\ r = Bumped("terminal"))
    PROVE  Keeps
<1>1. Advances
  <2>1. row' = r
    BY DEF ApiRestart
  <2>2. CASE r = row
    BY <2>1, <2>2, Unmoved
  <2>3. CASE Active(row) /\ r = Bumped("terminal")
    BY <2>1, <2>3, BumpAdvances
  <2> QED BY <2>2, <2>3
<1>2. SettlingKept
  BY DEF ApiRestart, Settled, SettlingKept, Known
<1>3. PubsKept
  BY DEF ApiRestart, PubsKept
<1>4. HubKept
  BY BufferKept DEF ApiRestart
<1>5. ConnKept
  BY ClosedKept DEF ApiRestart
<1>6. ClientKept
  BY Unmoved DEF ApiRestart
<1> QED BY <1>1, <1>2, <1>3, <1>4, <1>5, <1>6, Parts

LEMMA StepKeeps ==
    ASSUME EventsInv, [Next]_vars
    PROVE  Keeps
<1>1. CASE Environment
  BY <1>1, StoreKeeps, HubKeeps, BrowserKeeps, RequestKeeps, RestartKeeps DEF Environment
<1>2. CASE Progress
  BY <1>2, StoreKeeps, HubKeeps, BrowserKeeps, RequestKeeps DEF Progress
<1>3. CASE UNCHANGED vars
  BY <1>3, Unmoved, Parts DEF vars
<1> QED BY <1>1, <1>2, <1>3 DEF Next

LEMMA InitInv == Init => EventsInv
<1> SUFFICES ASSUME Init PROVE EventsInv
  OBVIOUS
<1>1. Versions = {NoRow}
  <2>1. /\ row = NoRow /\ client.view = NoRow /\ settling.accepted = NoRow
        /\ conn.active = NoRow /\ conn.recent = NoRow /\ conn.named = NoRow
    BY DEF Init, Closed
  <2>2. pubs = {} /\ Len(hub.buffer) = 0
    BY DEF Init
  <2>3. {m.row : m \in pubs} = {} /\ 1 .. Len(hub.buffer) = {}
    BY <2>2
  <2>4. {hub.buffer[i].body.row : i \in 1 .. Len(hub.buffer)} = {}
    BY <2>3, Zenon
  <2> QED BY ZenonT(30), <2>1, <2>3, <2>4 DEF Versions
<1>2. Shapes
  <2>1. client \in ClientT
    BY NoRowType, SMTT(60) DEF Init, ClientT, None
  <2>2. hub.buffer \in Seq(Envelope)
    BY DEF Init
  <2>3. HubShaped(hub)
    BY <2>2 DEF Init, HubShaped
  <2> QED BY <2>1, <2>3, SMTT(60) DEF Init, Shapes, ConnShaped, Closed
<1>3. Ordered
  BY <1>1, NoRowType DEF Init, Ordered, NoRow
<1>4. Noted(client)
  BY NoRowType, SMTT(60) DEF Init, Noted, Covered
<1> QED BY <1>2, <1>3, <1>4 DEF EventsInv

-----------------------------------------------------------------------------
(* The clears the browser has to hear of *)

\* The clear of the job is on its way, as an event later than revision n, to a
\* browser whose stream is not about to end.
Ahead(p, h, n) ==
    \/ JobsCleared \in p
    \/ h.open = FALSE
    \/ \E i \in 1 .. Len(h.buffer) : h.buffer[i].body = JobsCleared /\ n < h.buffer[i].rev

\* The store has cleared a job that went with the ticket.
Reported == cleared = TRUE /\ client.known # "absent"

\* The revisions an open stream compares do not run ahead of the hub.
RevisionsInv ==
    /\ hub.rev \in Nat /\ conn.barrier \in Nat /\ client.snapRev \in Nat
    /\ conn.pc \in {"opening", "subscribed", "barred", "listed", "named", "ready"}
       => client.snapRev = 0
    /\ conn.pc \in {"barred", "listed", "named", "ready"} => conn.barrier <= hub.rev
    /\ conn.pc = "live" => client.snapRev <= hub.rev

\* A tombstone keeps the row off the list; once the cleared ids are read, the
\* snapshot names the cleared job or the clear comes after its barrier; once the
\* snapshot is in, there is a tombstone or the clear comes after it.
ClearsInv ==
    /\ RevisionsInv
    /\ client.tomb # None => ~Present(client.view)
    /\ conn.pc = "ready" /\ Reported => conn.gone = TRUE \/ Ahead(pubs, hub, conn.barrier)
    /\ conn.pc = "live" /\ Reported => client.tomb # None \/ Ahead(pubs, hub, client.snapRev)

\* Publishing passes the clear on, with a later revision, or drops the stream.
LEMMA AheadOfPublished ==
    ASSUME EventsInv, NEW m \in Message, NEW p, NEW n \in Nat, n <= hub.rev,
           Ahead(pubs, hub, n), pubs \ {m} \subseteq p
    PROVE  Ahead(p, Sent(m), n)
<1> DEFINE h == Sent(m)
           e == [rev |-> hub.rev + 1, body |-> m]
<1>0. hub.rev \in Int /\ hub.buffer \in Seq(Envelope)
  BY DEF EventsInv, Shapes, HubShaped
<1>1. \/ h.open = FALSE
      \/ h.buffer = Append(hub.buffer, e) /\ hub.open # FALSE
  BY ZenonT(30) DEF Sent
<1> HIDE DEF h
<1>2. CASE h.open = FALSE
  BY <1>2 DEF Ahead, h
<1>3. CASE h.buffer = Append(hub.buffer, e) /\ hub.open # FALSE
  <2>1. /\ Len(h.buffer) = Len(hub.buffer) + 1 /\ Len(hub.buffer) \in Nat
        /\ h.buffer[Len(hub.buffer) + 1] = e
        /\ \A i \in 1 .. Len(hub.buffer) : h.buffer[i] = hub.buffer[i]
    <3>1. e \in Envelope
      BY <1>0 DEF Envelope
    <3> HIDE DEF e
    <3> QED BY <1>0, <1>3, <3>1
  <2>2. CASE JobsCleared \in pubs /\ m # JobsCleared
    BY <2>2 DEF Ahead
  <2>3. CASE m = JobsCleared
    <3>1. /\ Len(hub.buffer) + 1 \in 1 .. Len(h.buffer)
          /\ h.buffer[Len(hub.buffer) + 1].body = JobsCleared
          /\ n < h.buffer[Len(hub.buffer) + 1].rev
      BY <1>0, <2>1, <2>3
    <3> QED BY <3>1 DEF Ahead, h
  <2>4. CASE \E i \in 1 .. Len(hub.buffer) :
                hub.buffer[i].body = JobsCleared /\ n < hub.buffer[i].rev
    <3>1. PICK i \in 1 .. Len(hub.buffer) :
             hub.buffer[i].body = JobsCleared /\ n < hub.buffer[i].rev
      BY <2>4
    <3>2. i \in 1 .. Len(h.buffer) /\ h.buffer[i] = hub.buffer[i]
      BY <2>1
    <3> QED BY ZenonT(30), <3>1, <3>2 DEF Ahead, h
  <2> QED BY ZenonT(30), <1>3, <2>2, <2>3, <2>4 DEF Ahead
<1> QED BY ZenonT(30), <1>1, <1>2, <1>3

\* Reading one event leaves the clear ahead, unless it was that event.
LEMMA AheadOfDelivered ==
    ASSUME EventsInv, NEW n \in Nat, Ahead(pubs, hub, n), hub.buffer # <<>>,
           NEW h, h.open = hub.open, h.buffer = Tail(hub.buffer)
    PROVE  \/ Ahead(pubs, h, n)
           \/ Head(hub.buffer).body = JobsCleared /\ n < Head(hub.buffer).rev
<1> DEFINE s == hub.buffer
<1>0. s \in Seq(Envelope) /\ s # <<>>
  BY DEF EventsInv, Shapes, HubShaped
<1> SUFFICES ASSUME NEW i \in 1 .. Len(s), s[i].body = JobsCleared, n < s[i].rev
             PROVE  \/ Ahead(pubs, h, n)
                    \/ Head(s).body = JobsCleared /\ n < Head(s).rev
  BY DEF Ahead
<1> HIDE DEF s
<1>1. CASE i = 1
  BY <1>0, <1>1
<1>2. CASE i # 1
  <2>1. i - 1 \in 1 .. Len(Tail(s)) /\ Tail(s)[i - 1] = s[i]
    BY <1>0, <1>2
  <2>2. h.buffer = Tail(s)
    BY DEF s
  <2> QED BY ZenonT(30), <2>1, <2>2 DEF Ahead
<1> QED BY <1>1, <1>2

\* Handlers commit, and what they have to publish only grows.
LEMMA StoreClears ==
    ASSUME ClearsInv, UNCHANGED <<hub, client>>, pubs \subseteq pubs',
           conn'.pc = conn.pc, conn'.barrier = conn.barrier, conn'.gone = conn.gone,
           UNCHANGED cleared \/ JobsCleared \in pubs'
    PROVE  ClearsInv'
<1>1. RevisionsInv'
  BY DEF ClearsInv, RevisionsInv
<1>2. \A n : Ahead(pubs, hub, n) => Ahead(pubs', hub, n)
  BY DEF Ahead
<1>3. JobsCleared \in pubs' => \A n : Ahead(pubs', hub, n)
  BY DEF Ahead
<1>4. Ahead(pubs, hub, conn.barrier)' = Ahead(pubs', hub, conn.barrier)
  OBVIOUS
<1>5. Ahead(pubs, hub, client.snapRev)' = Ahead(pubs', hub, client.snapRev)
  OBVIOUS
<1> QED BY <1>1, <1>2, <1>3, <1>4, <1>5 DEF ClearsInv, Reported

\* No stream is open or being opened.
LEMMA ClosedClears ==
    ASSUME ClearsInv, UNCHANGED client, hub'.rev \in Nat, conn' = Closed
    PROVE  ClearsInv'
  BY DEF ClearsInv, RevisionsInv, Closed

LEMMA HubClears ==
    ASSUME EventsInv, ClearsInv, PublishOther \/ \E m \in pubs : Publish(m)
    PROVE  ClearsInv'
<1>1. PICK m \in Message :
         hub' = Sent(m) /\ pubs \ {m} \subseteq pubs' /\ UNCHANGED <<cleared, conn, client>>
  <2>1. CASE PublishOther
    BY <2>1, NoRowType, MessageTypes DEF PublishOther, storeVars
  <2>2. CASE \E m \in pubs : Publish(m)
    BY <2>2 DEF Publish, EventsInv, Shapes
  <2> QED BY <2>1, <2>2
<1>2. hub.rev \in Nat /\ hub'.rev = hub.rev + 1
  BY <1>1 DEF Sent, ClearsInv, RevisionsInv
<1>3. RevisionsInv'
  BY <1>1, <1>2 DEF ClearsInv, RevisionsInv
<1>4. \A n \in Nat : n <= hub.rev /\ Ahead(pubs, hub, n) => Ahead(pubs', hub', n)
  BY <1>1, AheadOfPublished
<1>5. /\ conn.pc = "ready" => conn.barrier \in Nat /\ conn.barrier <= hub.rev
      /\ conn.pc = "live" => client.snapRev \in Nat /\ client.snapRev <= hub.rev
  BY DEF ClearsInv, RevisionsInv
<1>6. /\ conn' = conn /\ client' = client /\ cleared' = cleared
  BY <1>1
<1>7. /\ (conn.pc = "ready" /\ Reported => conn.gone = TRUE \/ Ahead(pubs, hub, conn.barrier))'
      /\ (conn.pc = "live" /\ Reported
             => client.tomb # None \/ Ahead(pubs, hub, client.snapRev))'
  BY <1>4, <1>5, <1>6 DEF ClearsInv, Reported
<1> QED BY <1>3, <1>6, <1>7 DEF ClearsInv

LEMMA RequestClears ==
    ASSUME EventsInv, ClearsInv,
           \/ Subscribe \/ ReadBarrier \/ ListRecent \/ ListNamed \/ ListCleared
           \/ StreamEnds \/ StreamError
    PROVE  ClearsInv'
<1>0. /\ UNCHANGED <<cleared, pubs, client>> /\ hub'.rev = hub.rev
      /\ hub.rev \in Nat /\ ConnShaped(conn)
  <2>1. HubShaped(hub)
    BY DEF EventsInv, Shapes
  <2> QED BY ZenonT(30), <2>1 DEF Subscribe, ReadBarrier, ListRecent, ListNamed, ListCleared, StreamEnds,
             StreamError, storeVars, ClearsInv, RevisionsInv, EventsInv, Shapes, HubShaped
<1>1. CASE StreamEnds \/ StreamError
  BY <1>0, <1>1, ClosedClears DEF StreamEnds, StreamError
<1>2. CASE ReadBarrier
  <2>1. /\ conn.pc = "subscribed" /\ conn'.pc = "barred" /\ conn'.barrier = hub.rev
        /\ conn'.gone = conn.gone
    BY <1>0, <1>2 DEF ReadBarrier, ConnShaped
  <2> QED BY <1>0, <2>1 DEF ClearsInv, RevisionsInv
<1>3. CASE Subscribe \/ ListRecent \/ ListNamed
  <2>1. /\ \/ conn.pc = "opening" /\ conn'.pc = "subscribed"
           \/ conn.pc = "barred" /\ conn'.pc = "listed"
           \/ conn.pc = "listed" /\ conn'.pc = "named"
        /\ conn'.barrier = conn.barrier /\ conn'.gone = conn.gone
    BY ZenonT(30), <1>0, <1>3 DEF Subscribe, ListRecent, ListNamed, ConnShaped
  <2> QED BY ZenonT(30), <1>0, <2>1 DEF ClearsInv, RevisionsInv
<1>4. CASE ListCleared
  <2> DEFINE g == cleared /\ client.known # "absent"
  <2>1. conn' = [conn EXCEPT !.pc = "ready", !.gone = g] /\ conn.pc = "named"
    BY <1>4 DEF ListCleared
  <2>2. Reported => g = TRUE
    BY DEF Reported
  <2> HIDE DEF g
  <2>3. conn'.pc = "ready" /\ conn'.barrier = conn.barrier /\ conn'.gone = g
    BY <1>0, <2>1 DEF ConnShaped
  <2>4. RevisionsInv'
    BY <1>0, <2>1, <2>2, <2>3 DEF ClearsInv, RevisionsInv
  <2>5. Reported' = Reported
    BY <1>0 DEF Reported
  <2> QED BY <1>0, <2>2, <2>3, <2>4, <2>5 DEF ClearsInv
<1> QED BY ZenonT(30), <1>1, <1>2, <1>3, <1>4

\* What the browser's handlers leave alone.
Steady(c, d) ==
    /\ d = [view |-> d.view, tomb |-> d.tomb, applied |-> d.applied, snapRev |-> d.snapRev,
            known |-> d.known, ran |-> d.ran, again |-> d.again]
    /\ d.tomb = c.tomb /\ d.known = c.known /\ d.snapRev = c.snapRev

LEMMA Reflexive ==
    ASSUME NEW c \in ClientT
    PROVE  Steady(c, c)
  BY DEF ClientT, Steady

LEMMA ShownSteady ==
    ASSUME NEW c, NEW d, Steady(c, d), NEW r
    PROVE  Steady(c, Shown(d, r))
  BY ZenonT(30) DEF Shown, Steady

LEMMA ApplySteady ==
    ASSUME NEW c, NEW d, Steady(c, d), NEW r
    PROVE  Steady(c, ApplyJobUpdate(d, r)) /\ (d.tomb # None => ApplyJobUpdate(d, r) = d)
<1> DEFINE noted == IF Terminal(r) THEN [d EXCEPT !.applied = Max({@, r.rev})] ELSE d
           run == IF Terminal(r) /\ d.applied < r.rev THEN RunEffects(noted, r) ELSE noted
<1>1. Steady(c, noted)
  BY DEF Steady
<1>2. ApplyJobUpdate(d, r) = IF d.tomb # None \/ ~Accepts(d.view, r) THEN d
                             ELSE Shown(run, Cap(r))
  BY DEF ApplyJobUpdate
<1> HIDE DEF noted
<1>3. Steady(c, run)
  BY ZenonT(30), <1>1 DEF Steady, RunEffects
<1> HIDE DEF run
<1>4. Steady(c, Shown(run, Cap(r)))
  BY <1>3, ShownSteady
<1> QED BY <1>2, <1>4

LEMMA SnapshotSteady ==
    ASSUME NEW c \in ClientT, NEW snap
    PROVE  Steady(c, ShowSnapshot(c, snap))
<1> DEFINE missed == Active(c.view) /\ Terminal(snap) /\ Accepts(c.view, snap)
           seeded == Seed(c, snap, missed)
           shown == Shown(seeded, Cap(Reconcile(c.view, snap)))
           d == IF missed THEN ApplyJobUpdate(shown, snap) ELSE shown
<1>1. ShowSnapshot(c, snap) = Aged(c, d)
  BY DEF ShowSnapshot
<1>2. Steady(c, seeded)
  BY Reflexive DEF Steady, Seed
<1> HIDE DEF seeded, missed
<1>3. Steady(c, shown)
  BY <1>2, ShownSteady
<1> HIDE DEF shown
<1>4. Steady(c, d)
  BY <1>3, ApplySteady
<1> HIDE DEF d
<1>5. Steady(c, Aged(c, d))
  BY <1>4 DEF Aged, Steady
<1> QED BY <1>1, <1>5

LEMMA BrowserClears ==
    ASSUME EventsInv, ClearsInv, Connect \/ DeliverSnapshot \/ Deliver \/ CrowdOut
    PROVE  ClearsInv'
<1>0. /\ client \in ClientT /\ Noted(client) /\ UNCHANGED <<cleared, pubs>> /\ RevisionsInv
      /\ None \notin Nat
  BY DEF EventsInv, Shapes, Connect, DeliverSnapshot, Deliver, CrowdOut, storeVars, ClearsInv,
         None
<1>1. CASE Connect
  <2>1. /\ conn' = [Closed EXCEPT !.pc = "opening"] /\ hub' = hub
        /\ client'.snapRev = 0 /\ client'.tomb = client.tomb /\ client'.view = client.view
    BY <1>0, <1>1 DEF Connect, ClientT
  <2>2. conn'.pc = "opening" /\ conn'.barrier = 0 /\ conn'.gone = FALSE
    BY <2>1 DEF Closed
  <2>3. RevisionsInv'
    BY <1>0, <2>1, <2>2 DEF RevisionsInv
  <2>4. client'.tomb # None => ~Present(client'.view)
    BY <2>1 DEF ClearsInv
  <2> QED BY <2>2, <2>3, <2>4 DEF ClearsInv
<1>2. CASE DeliverSnapshot
  <2> DEFINE n == Max({client.snapRev, conn.barrier})
             barred == [client EXCEPT !.snapRev = n, !.tomb = TombAfter(client)]
  <2>1. /\ conn.pc = "ready" /\ conn' = [Closed EXCEPT !.pc = "live"] /\ hub' = hub
        /\ client' = IF barred.tomb # None THEN Shown(barred, NoRow)
                     ELSE ShowSnapshot(barred, Snapshot)
    BY <1>2 DEF DeliverSnapshot, HandleJobsSnapshot
  <2>2. conn'.pc = "live" /\ conn'.barrier = 0 /\ conn'.gone = FALSE
    BY <2>1 DEF Closed
  <2>3. n = conn.barrier /\ n \in Nat /\ n <= hub.rev
    <3>1. client.snapRev = 0 /\ conn.barrier \in Nat /\ conn.barrier <= hub.rev
      BY <1>0, <2>1 DEF RevisionsInv
    <3>2. n \in {client.snapRev, conn.barrier} /\ conn.barrier <= n
      BY <3>1, MaxOfTwo
    <3> QED BY <3>1, <3>2
  <2> HIDE DEF n
  <2>4. /\ TombAfter(client) \in Int
        /\ conn.gone = TRUE => TombAfter(client) # None
    BY <1>0, Fields DEF TombAfter, ClearedLater, RevisionsInv, None
  <2>5. /\ barred \in ClientT /\ barred.view = client.view /\ barred.known = client.known
        /\ barred.snapRev = n /\ barred.tomb = TombAfter(client)
    <3> DEFINE t == TombAfter(client)
    <3>1. n \in Int /\ t \in Int
      BY <2>3, <2>4
    <3> HIDE DEF t
    <3>2. barred = [client EXCEPT !.snapRev = n, !.tomb = t]
      BY DEF t
    <3> HIDE DEF barred
    <3>3. barred.tomb = t
      BY <1>0, <3>2 DEF ClientT
    <3> QED BY ZenonT(30), <1>0, <3>1, <3>2, <3>3 DEF ClientT, t
  <2> HIDE DEF barred
  <2>6. /\ client'.tomb = barred.tomb /\ client'.known = client.known /\ client'.snapRev = n
        /\ client'.tomb # None => ~Present(client'.view)
    <3>1. CASE barred.tomb # None
      <4>1. client' = Shown(barred, NoRow)
        BY <2>1, <3>1
      <4>2. Steady(barred, client') /\ client'.view = NoRow
        BY <2>5, <4>1, Reflexive, ShownSteady, Removed
      <4> QED BY <2>5, <4>2, NoRowType DEF Steady
    <3>2. CASE barred.tomb = None
      <4>1. Steady(barred, client')
        BY <2>1, <2>5, <3>2, SnapshotSteady
      <4> QED BY <2>5, <3>2, <4>1 DEF Steady
    <3> QED BY <3>1, <3>2
  <2>7. Reported' => Reported
    BY <1>0, <2>6 DEF Reported
  <2>8. Reported' => client'.tomb # None \/ Ahead(pubs', hub', client'.snapRev)
    BY <1>0, <2>1, <2>3, <2>4, <2>5, <2>6, <2>7 DEF ClearsInv
  <2>9. RevisionsInv'
    BY <1>0, <2>1, <2>2, <2>3, <2>6 DEF RevisionsInv
  <2> QED BY <2>2, <2>6, <2>8, <2>9 DEF ClearsInv
<1>3. CASE Deliver
  <2> DEFINE e == Head(hub.buffer)
  <2>1. /\ conn.pc = "live" /\ hub.buffer # <<>> /\ conn' = conn
        /\ hub'.rev = hub.rev /\ hub'.open = hub.open /\ hub'.buffer = Tail(hub.buffer)
    BY <1>3 DEF Deliver, EventsInv, Shapes, HubShaped
  <2>2. e \in Envelope
    <3>1. hub.buffer \in Seq(Envelope)
      BY DEF EventsInv, Shapes, HubShaped
    <3> QED BY <2>1, <3>1, BufferTypes, Zenon
  <2>3. e.rev \in Int /\ e.body.row \in RowT
    BY <2>2 DEF Envelope, Message
  <2>4. client' = CASE e.body.event = "job.updated" ->
                         HandleJobUpdated(client, e.rev, e.body.row)
                    [] e.body.event = "jobs.cleared" -> HandleJobsCleared(client, e.rev)
                    [] OTHER -> client
    BY <1>3 DEF Deliver
  <2>5. Ahead(pubs, hub, client.snapRev)
        => \/ Ahead(pubs, hub', client.snapRev)
           \/ e.body = JobsCleared /\ client.snapRev < e.rev
    BY <1>0, <2>1, AheadOfDelivered DEF RevisionsInv
  <2>6. client.snapRev \in Nat /\ client.snapRev <= hub.rev
    BY <1>0, <2>1 DEF RevisionsInv
  <2> HIDE DEF e
  <2>7. RevisionsInv' /\ (Reported' => Reported)
        /\ (client'.tomb # None => ~Present(client'.view))
        /\ client'.snapRev = client.snapRev
        /\ (Reported' /\ ~Ahead(pubs, hub', client.snapRev) => client'.tomb # None)
    <3>1. CASE e.body.event = "jobs.cleared" /\ client.snapRev < e.rev
      <4> DEFINE t == IF Present(client.view) \/ client.known # "absent" \/ client.tomb # None
                      THEN e.rev ELSE None
                 c == [client EXCEPT !.tomb = t]
      <4>1. client' = Shown(c, NoRow)
        BY <2>3, <2>4, <2>6, <3>1 DEF HandleJobsCleared
      <4>2. t \in Int /\ (client.known # "absent" => t # None)
        BY <2>3, <2>6, <3>1 DEF None
      <4> HIDE DEF t
      <4>3. c \in ClientT /\ c.tomb = t /\ c.known = client.known /\ c.snapRev = client.snapRev
        BY <1>0, <4>2 DEF ClientT
      <4> HIDE DEF c
      <4>4. /\ client'.tomb = t /\ client'.known = client.known
            /\ client'.snapRev = client.snapRev /\ client'.view = NoRow
        BY <4>1, <4>3, Reflexive, ShownSteady, Removed DEF Steady
      <4> QED BY <1>0, <2>1, <4>2, <4>4, NoRowType DEF RevisionsInv, Reported
    <3>2. CASE ~(e.body.event = "jobs.cleared" /\ client.snapRev < e.rev)
      <4>1. client' = client \/ client' = ApplyJobUpdate(client, e.body.row)
        BY <2>3, <2>4, <2>6, <3>2 DEF HandleJobUpdated, HandleJobsCleared
      <4>2. /\ client'.tomb = client.tomb /\ client'.known = client.known
            /\ client'.snapRev = client.snapRev
            /\ client'.tomb # None => client' = client
        BY <1>0, <4>1, Reflexive, ApplySteady DEF Steady
      <4>3. ~(e.body = JobsCleared /\ client.snapRev < e.rev)
        BY <3>2 DEF JobsCleared
      <4>4. Reported' => Reported
        BY <1>0, <4>2 DEF Reported
      <4>5. RevisionsInv'
        BY <1>0, <2>1, <4>2 DEF RevisionsInv
      <4>6. Reported => client.tomb # None \/ Ahead(pubs, hub, client.snapRev)
        BY <2>1 DEF ClearsInv
      <4>7. client.tomb # None => ~Present(client.view)
        BY DEF ClearsInv
      <4> QED BY <2>5, <4>2, <4>3, <4>4, <4>5, <4>6, <4>7
    <3> QED BY <3>1, <3>2
  <2>8. /\ conn'.pc = "live" /\ pubs' = pubs
        /\ Ahead(pubs, hub', client.snapRev) => Ahead(pubs', hub', client'.snapRev)
    BY <1>0, <2>1, <2>7
  <2> QED BY <2>7, <2>8 DEF ClearsInv
<1>4. CASE CrowdOut
  <2>1. hub' = hub /\ conn' = conn /\ client' \in {client, Shown(client, NoRow)}
    BY <1>4 DEF CrowdOut
  <2>2. /\ client'.tomb = client.tomb /\ client'.known = client.known
        /\ client'.snapRev = client.snapRev
        /\ client'.view \in {client.view, NoRow}
    BY <1>0, <2>1, Reflexive, ShownSteady, Removed DEF Steady
  <2>3. RevisionsInv'
    BY <1>0, <2>1, <2>2 DEF RevisionsInv
  <2> QED BY <1>0, <2>1, <2>2, <2>3, NoRowType DEF ClearsInv, Reported
<1> QED BY <1>1, <1>2, <1>3, <1>4

LEMMA StepClears ==
    ASSUME EventsInv, ClearsInv, [Next]_vars
    PROVE  ClearsInv'
<1>1. CASE \/ CreateJob \/ AcceptTerminal \/ EffectsFail \/ ClearJobs \/ AnswerTerminal
           \/ Heartbeat \/ EffectsDeferred
           \/ \E phase \in {"active", "terminal"} : UpdateJob(phase) \/ UpdateUnpublished(phase)
           \/ \E who \in {"request", "loop"} : SettleEffects(who)
           \/ UNCHANGED vars
  <2>1. /\ UNCHANGED <<hub, client>> /\ pubs \subseteq pubs'
        /\ conn' \in {conn, Touched}
        /\ UNCHANGED cleared \/ JobsCleared \in pubs'
    BY <1>1 DEF CreateJob, AcceptTerminal, EffectsFail, ClearJobs, AnswerTerminal, UpdateJob,
                UpdateUnpublished, SettleEffects, Heartbeat, EffectsDeferred, CommitAnnounced, Commit, vars
  <2>2. conn'.pc = conn.pc /\ conn'.barrier = conn.barrier /\ conn'.gone = conn.gone
    BY <2>1 DEF Touched, EventsInv, Shapes, ConnShaped
  <2> QED BY <2>1, <2>2, StoreClears
<1>2. CASE PublishOther \/ \E m \in pubs : Publish(m)
  BY <1>2, HubClears
<1>3. CASE \/ Subscribe \/ ReadBarrier \/ ListRecent \/ ListNamed \/ ListCleared
           \/ StreamEnds \/ StreamError
  BY <1>3, RequestClears
<1>4. CASE Connect \/ DeliverSnapshot \/ Deliver \/ CrowdOut
  BY <1>4, BrowserClears
<1>5. CASE \E r : ApiRestart(r)
  <2>1. UNCHANGED client /\ hub'.rev = 0 /\ conn' = Closed
    BY <1>5 DEF ApiRestart
  <2> QED BY <2>1, ClosedClears
<1>6. \/ CreateJob \/ AcceptTerminal \/ EffectsFail \/ ClearJobs \/ AnswerTerminal
      \/ Heartbeat \/ EffectsDeferred
      \/ \E phase \in {"active", "terminal"} : UpdateJob(phase) \/ UpdateUnpublished(phase)
      \/ \E who \in {"request", "loop"} : SettleEffects(who)
      \/ UNCHANGED vars
      \/ PublishOther \/ \E m \in pubs : Publish(m)
      \/ Subscribe \/ ReadBarrier \/ ListRecent \/ ListNamed \/ ListCleared
      \/ StreamEnds \/ StreamError
      \/ Connect \/ DeliverSnapshot \/ Deliver \/ CrowdOut
      \/ \E r : ApiRestart(r)
  BY DEF Next, Environment, Progress
<1> QED BY <1>1, <1>2, <1>3, <1>4, <1>5, <1>6

-----------------------------------------------------------------------------
(* Theorems *)

LEMMA Invariance == Spec => []EventsInv
<1>1. EventsInv /\ [Next]_vars => EventsInv'
  BY StepKeeps, KeepsInv
<1> QED BY <1>1, InitInv, PTL DEF Spec

\* While a row stays on display the effects of a terminal revision of it run at
\* most once (appliedTerminalRevisionByJob), however often the row is published
\* and however often the browser reconnects.
THEOREM EffectsRunOnce == Spec => []EffectsOnce
<1>1. EventsInv => EffectsOnce
  BY DEF EventsInv, Noted, Covered, EffectsOnce
<1> QED BY <1>1, Invariance, PTL

\* A row on display is never replaced by an older one (acceptsJobUpdate,
\* reconcileAuthoritativeJobs).
THEOREM DisplayNeverRegresses == Spec => NeverRegresses
<1>1. EventsInv /\ [Next]_vars
      => [Present(client.view) /\ Present(client'.view)
             => client.view.rev <= client'.view.rev]_vars
  BY StepKeeps DEF Keeps, Moves
<1> QED BY <1>1, Invariance, PTL DEF Spec, NeverRegresses

\* A live row that turns terminal on display runs its effects in that step, by an
\* update or by the snapshot of a reconnect (missedTerminalTransitions).
THEOREM TransitionsRun == Spec => TransitionRuns
<1>1. EventsInv /\ [Next]_vars
      => [Active(client.view) /\ Terminal(client'.view)
             => client'.view.rev \in client'.ran]_vars
  BY StepKeeps DEF Keeps, Moves
<1> QED BY <1>1, Invariance, PTL DEF Spec, TransitionRuns

LEMMA InitClears == Init => ClearsInv
<1> SUFFICES ASSUME Init PROVE ClearsInv
  OBVIOUS
<1>1. /\ hub.rev = 0 /\ conn.pc = "closed" /\ conn.barrier = 0 /\ conn.gone = FALSE
      /\ client.snapRev = 0 /\ client.tomb = None
  BY DEF Init, Closed
<1>2. RevisionsInv
  BY <1>1 DEF RevisionsInv
<1> QED BY <1>1, <1>2 DEF ClearsInv

\* A job the browser named when it connected and that the store has cleared is
\* off its list once the snapshot is in, unless the clear is still on its way or
\* the stream is about to end (clearedJobRevisionById, cleared_job_ids_by_ids):
\* no reordering of publications and snapshots brings it back.
THEOREM KnownClearsKept == Spec => []KnownClearsHold
<1>1. Init => ClearsInv
  BY InitClears
<1>2. EventsInv /\ ClearsInv /\ [Next]_vars => ClearsInv'
  BY StepClears
<1>3. EventsInv /\ ClearsInv => KnownClearsHold
  <2> SUFFICES ASSUME EventsInv, ClearsInv, cleared, client.known # "absent",
                      conn.pc = "live", Present(client.view), hub.open
               PROVE  ClearComing
    BY DEF KnownClearsHold
  <2>1. Ahead(pubs, hub, client.snapRev)
    BY DEF ClearsInv, Reported
  <2>2. DOMAIN hub.buffer = 1 .. Len(hub.buffer)
    BY DEF EventsInv, Shapes, HubShaped
  <2>3. \A i \in 1 .. Len(hub.buffer) :
           client.snapRev < hub.buffer[i].rev => hub.buffer[i].rev > client.snapRev
    OBVIOUS
  <2> QED BY <2>1, <2>2, <2>3 DEF Ahead, ClearComing
<1> QED BY <1>1, <1>2, <1>3, Invariance, PTL DEF Spec
=============================================================================
