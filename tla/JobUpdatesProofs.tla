-------------------------- MODULE JobUpdatesProofs ---------------------------
(***************************************************************************)
(* No update that is published is lost between a browser's snapshot and    *)
(* the events after it (NoUpdateLost), for every buffer size and any       *)
(* number of updates, published or not, other publications, broken streams *)
(* and API restarts.                                                       *)
(*                                                                         *)
(* Upheld(r, n, ...) says that a browser which shows row r and hears the   *)
(* events after revision n gets what it is owed: the row as the snapshot   *)
(* began and the commits that are published since.  The inductive          *)
(* invariant UpdatesInv follows a connection from its subscription on: the *)
(* summary is current or the row has changed since and will be read again  *)
(* (SummaryInv); then the snapshot is upheld from its barrier on           *)
(* (SnapshotInv); then the display is (DisplayInv).  CrowdInv is for the   *)
(* job that is left out of a full list: it is over for good.               *)
(***************************************************************************)
EXTENDS JobEventsProofs

\* Tells, when revision o is owed.
Says(r, o) == Present(r) /\ (Active(r) => o <= r.rev)

Bodies(h) == {h.buffer[i].body : i \in 1 .. Len(h.buffer)}

\* Row r is on its way in p, or in h's buffer as an event later than revision n.
Carries(p, h, n, r) ==
    \/ \E m \in p : m.event = "job.updated" /\ m.row = r
    \/ \E i \in 1 .. Len(h.buffer) :
          /\ h.buffer[i].body.event = "job.updated" /\ h.buffer[i].body.row = r
          /\ n < h.buffer[i].rev

\* A live version of the row is on its way.
Stale(p, h) == \E m \in p \cup Bodies(h) : Active(m.row)

\* A browser that shows r and reads what is on its way has what it is owed: r has
\* it, or the job is over, r is not on display and nothing on its way brings it
\* back to life.
Stands(r, q, o, p, h) ==
    \/ ~Present(q)
    \/ Says(r, o)
    \/ Terminal(q) /\ ~Present(r) /\ ~Stale(p, h)

\* Either that, or an update that has it comes after revision n, unless the job is
\* cleared or the stream about to end.
Upheld(r, n, q, o, p, h, t, c) ==
    \/ c = TRUE \/ h.open = FALSE
    \/ t = "request"
    \/ Stands(r, q, o, p, h)
    \/ \E s \in RowT : Carries(p, h, n, s) /\ Says(s, o)

UpheldNow(r, n) == Upheld(r, n, row, owed, pubs, hub, settling.turn, cleared)

\* A message has a row only if it is an update, and tells of a clear only after it.
Sound(m, c) ==
    /\ m.event = "job.updated" <=> Present(m.row)
    /\ m.event = "jobs.cleared" => c = TRUE

\* What the other invariants presuppose.
BooksInv ==
    /\ owed \in Nat /\ owed <= row.rev
    /\ cleared \in {TRUE, FALSE} /\ crowded \in {TRUE, FALSE}
    /\ \A a \in Versions : Present(a) => Present(row)
    /\ \A m \in pubs \cup Bodies(hub) : Sound(m, cleared)
    /\ settling.turn # "nobody" => Terminal(row)
    /\ settling.turn = "request" => Terminal(settling.accepted)
    /\ cleared = FALSE => client.tomb = None /\ conn.gone = FALSE

\* Only a job that is over is crowded out, when no update of it is on its way.
CrowdInv == crowded = TRUE => Terminal(row) /\ ~Stale(pubs, hub)

\* Until the recent rows are read, the summary has what the store has, or the row
\* has changed since and will be among them.
SummaryInv ==
    conn.pc \in {"subscribed", "barred"} =>
        \/ conn.changed = TRUE \/ cleared = TRUE
        \/ /\ Active(row) => Says(conn.active, owed)
           /\ Terminal(row) => ~Present(conn.active)

\* From then on the snapshot and the events after its barrier have it.
SnapshotInv ==
    /\ conn.pc \notin {"named", "ready"} => conn.named = NoRow
    /\ conn.pc \notin {"listed", "named", "ready"} => conn.recent = NoRow
    /\ conn.pc \in {"listed", "named", "ready"} => UpheldNow(Snapshot, conn.barrier)

\* Once the snapshot is in, the display and the events after it have it.
DisplayInv == conn.pc = "live" => UpheldNow(client.view, client.snapRev)

UpdatesInv == BooksInv /\ CrowdInv /\ SummaryInv /\ SnapshotInv /\ DisplayInv

USE DEF Phases, Present, Active, Terminal

-----------------------------------------------------------------------------
(* What a step does to the messages on their way *)

\* What an update of the hub's buffer does to the messages it holds.
LEMMA BodiesOf ==
    ASSUME HubShaped(hub), NEW h
    PROVE  /\ h.buffer = hub.buffer => Bodies(h) = Bodies(hub)
           /\ h.buffer = <<>> => Bodies(h) = {}
           /\ hub.buffer # <<>> /\ h.buffer = Tail(hub.buffer) => Bodies(h) \subseteq Bodies(hub)
           /\ \A e \in Envelope : h.buffer = Append(hub.buffer, e)
                 => Bodies(h) \subseteq Bodies(hub) \cup {e.body}
<1>0. hub.buffer \in Seq(Envelope)
  BY DEF HubShaped
<1>1. h.buffer = hub.buffer => Bodies(h) = Bodies(hub)
  BY DEF Bodies
<1>2. h.buffer = <<>> => Bodies(h) = {}
  BY DEF Bodies
<1>3. ASSUME hub.buffer # <<>>, h.buffer = Tail(hub.buffer)
      PROVE  Bodies(h) \subseteq Bodies(hub)
  <2>1. \A i \in 1 .. Len(h.buffer) : i + 1 \in 1 .. Len(hub.buffer) /\ h.buffer[i] = hub.buffer[i + 1]
    BY <1>0, <1>3
  <2> QED BY <2>1, ZenonT(30) DEF Bodies
<1>4. ASSUME NEW e \in Envelope, h.buffer = Append(hub.buffer, e)
      PROVE  Bodies(h) \subseteq Bodies(hub) \cup {e.body}
  <2>1. \A i \in 1 .. Len(h.buffer) :
           h.buffer[i] = e \/ (i \in 1 .. Len(hub.buffer) /\ h.buffer[i] = hub.buffer[i])
    BY <1>0, <1>4
  <2> QED BY <2>1, ZenonT(30) DEF Bodies
<1> QED BY <1>1, <1>2, <1>3, <1>4

LEMMA SentBodies ==
    ASSUME EventsInv, NEW m \in Message
    PROVE  Bodies(Sent(m)) \subseteq Bodies(hub) \cup {m}
<1> DEFINE e == [rev |-> hub.rev + 1, body |-> m]
<1>0. HubShaped(hub) /\ hub.rev \in Int
  BY DEF EventsInv, Shapes, HubShaped
<1>1. e \in Envelope /\ e.body = m
  BY <1>0 DEF Envelope
<1>2. Sent(m).buffer = hub.buffer \/ Sent(m).buffer = Append(hub.buffer, e)
  BY ZenonT(30) DEF Sent
<1> HIDE DEF e
<1> QED BY <1>0, <1>1, <1>2, BodiesOf

\* Nothing is sent but updates of the row as it is or as its end was accepted,
\* the clear of a cleared job, and events of other jobs.
Authentic(m) ==
    \/ m = JobUpdated(row') /\ Present(row')
    \/ settling.turn = "request" /\ m = JobUpdated(settling.accepted)
    \/ m = JobsCleared /\ cleared' = TRUE
    \/ m = Other

LEMMA FlightStep ==
    ASSUME EventsInv, [Next]_vars, settling.turn # "nobody" => Terminal(row)
    PROVE  \A m \in pubs' \cup Bodies(hub') : m \in pubs \cup Bodies(hub) \/ Authentic(m)
<1>0. HubShaped(hub) /\ pubs \subseteq Message
  BY DEF EventsInv, Shapes
<1>1. CASE \/ CreateJob \/ AcceptTerminal \/ EffectsFail \/ ClearJobs \/ AnswerTerminal
           \/ Heartbeat \/ EffectsDeferred
           \/ \E phase \in {"active", "terminal"} : UpdateJob(phase) \/ UpdateUnpublished(phase)
           \/ \E who \in {"request", "loop"} : SettleEffects(who)
  <2>1. hub' = hub /\ \A m \in pubs' : m \in pubs \/ Authentic(m)
    BY <1>1 DEF CreateJob, AcceptTerminal, EffectsFail, ClearJobs, AnswerTerminal, UpdateJob,
                UpdateUnpublished, SettleEffects, Heartbeat, EffectsDeferred, CommitAnnounced,
                Commit, Bumped, Authentic
  <2> QED BY ZenonT(30), <2>1
<1>2. CASE PublishOther
  <2>1. hub' = Sent(Other) /\ pubs' = pubs /\ Other \in Message
    BY <1>2, NoRowType, MessageTypes DEF PublishOther, storeVars
  <2> QED BY ZenonT(30), <2>1, SentBodies DEF Authentic
<1>3. CASE \E m \in pubs : Publish(m)
  <2>1. PICK m \in pubs : hub' = Sent(m) /\ pubs' = pubs \ {m}
    BY <1>3 DEF Publish
  <2> QED BY ZenonT(30), <1>0, <2>1, SentBodies
<1>4. CASE \/ ReadBarrier \/ ListRecent \/ ListNamed \/ ListCleared \/ StreamEnds
           \/ Connect \/ DeliverSnapshot \/ CrowdOut \/ UNCHANGED vars
  <2>1. hub' = hub /\ pubs' = pubs
    BY ZenonT(30), <1>4 DEF ReadBarrier, ListRecent, ListNamed, ListCleared, StreamEnds, Connect,
         DeliverSnapshot, CrowdOut, storeVars, vars
  <2> QED BY ZenonT(30), <2>1
<1>5. CASE Subscribe \/ StreamError \/ \E r : ApiRestart(r)
  <2>1. hub'.buffer = <<>> /\ pubs' \subseteq pubs
    <3>1. Subscribe \/ StreamError => hub'.buffer = <<>> /\ pubs' = pubs
      BY ZenonT(30), <1>0 DEF Subscribe, StreamError, storeVars, HubShaped
    <3>2. (\E r : ApiRestart(r)) => hub'.buffer = <<>> /\ pubs' = {}
      BY DEF ApiRestart
    <3> QED BY <1>5, <3>1, <3>2
  <2> QED BY <1>0, <2>1, BodiesOf
<1>6. CASE Deliver
  <2>1. hub.buffer # <<>> /\ hub'.buffer = Tail(hub.buffer) /\ pubs' = pubs
    BY <1>0, <1>6 DEF Deliver, storeVars, HubShaped
  <2>2. Bodies(hub') \subseteq Bodies(hub)
    BY <1>0, <2>1, BodiesOf
  <2> QED BY ZenonT(30), <2>1, <2>2
<1> QED BY ZenonT(30), <1>1, <1>2, <1>3, <1>4, <1>5, <1>6 DEF Next, Environment, Progress

LEMMA FlightSound ==
    ASSUME EventsInv, BooksInv, [Next]_vars, cleared = TRUE => cleared' = TRUE
    PROVE  \A m \in pubs' \cup Bodies(hub') : Sound(m, cleared')
<1> SUFFICES ASSUME NEW m \in pubs' \cup Bodies(hub')
             PROVE  Sound(m, cleared')
  OBVIOUS
<1>1. m \in pubs \cup Bodies(hub) \/ Authentic(m)
  BY FlightStep DEF BooksInv
<1>2. CASE m \in pubs \cup Bodies(hub)
  BY <1>2 DEF BooksInv, Sound
<1>3. CASE Authentic(m)
  BY <1>3, NoRowType DEF Authentic, BooksInv, Sound, JobUpdated, JobsCleared, Other
<1> QED BY <1>1, <1>2, <1>3

\* The end of the job is settled after it came.
LEMMA SettlingStep ==
    ASSUME EventsInv, Keeps, BooksInv, [Next]_vars
    PROVE  /\ settling'.turn # "nobody" => Terminal(row')
           /\ settling'.turn = "request" => Terminal(settling'.accepted)
<1>0. /\ settling = [turn |-> settling.turn, accepted |-> settling.accepted]
      /\ Terminal(row) => Terminal(row')
  BY DEF EventsInv, Shapes, Keeps, Advances
<1>1. \/ settling' = settling
      \/ settling'.turn = "nobody"
      \/ settling.turn # "nobody" /\ settling'.turn \in {"loop", "answer"}
      \/ AcceptTerminal
  <2>1. \/ settling' = settling \/ AcceptTerminal
        \/ AnswerTerminal \/ EffectsFail
        \/ \E who \in {"request", "loop"} : SettleEffects(who)
        \/ \E r : ApiRestart(r)
    BY ZenonT(30) DEF Next, Environment, Progress, CreateJob, UpdateJob, UpdateUnpublished,
                      Heartbeat, EffectsDeferred,
       ClearJobs, PublishOther, CrowdOut, StreamError, Publish, Subscribe, ReadBarrier, ListRecent,
       ListNamed, ListCleared, Connect, DeliverSnapshot, Deliver, StreamEnds, storeVars, vars
  <2>2. CASE \E who \in {"request", "loop"} : SettleEffects(who)
    BY <2>2 DEF SettleEffects, Settled
  <2>3. CASE AnswerTerminal \/ EffectsFail
    BY <2>3 DEF AnswerTerminal, EffectsFail, Settled
  <2>4. CASE \E r : ApiRestart(r)
    BY <2>4 DEF ApiRestart, Settled
  <2> QED BY <2>1, <2>2, <2>3, <2>4
<1>2. CASE AcceptTerminal
  BY <1>2 DEF AcceptTerminal, CommitAnnounced, Commit, Bumped
<1> QED BY <1>0, <1>1, <1>2 DEF BooksInv

\* The books of the store: no more is owed than there is.
LEMMA LedgerStep ==
    ASSUME EventsInv, BooksInv, [Next]_vars
    PROVE  /\ owed' \in Nat /\ owed' <= row'.rev
           /\ cleared' \in {TRUE, FALSE} /\ crowded' \in {TRUE, FALSE}
           /\ cleared = TRUE => cleared' = TRUE
<1>1. owed' = owed \/ owed' = row'.rev
  BY ZenonT(30) DEF Next, Environment, Progress, CreateJob, UpdateJob, UpdateUnpublished, Heartbeat,
       EffectsFail, EffectsDeferred, ClearJobs, PublishOther, CrowdOut, StreamError, ApiRestart,
       SettleEffects, AnswerTerminal, AcceptTerminal, Publish, Subscribe, ReadBarrier, ListRecent,
       ListNamed, ListCleared, Connect, DeliverSnapshot, Deliver, StreamEnds, storeVars, vars,
       CommitAnnounced, Commit
<1>2. cleared' \in {cleared, TRUE} /\ crowded' \in {crowded, TRUE}
  BY ZenonT(30) DEF Next, Environment, Progress, CreateJob, UpdateJob, UpdateUnpublished, Heartbeat,
       EffectsFail, EffectsDeferred, ClearJobs, PublishOther, CrowdOut, StreamError, ApiRestart,
       SettleEffects, AnswerTerminal, AcceptTerminal, Publish, Subscribe, ReadBarrier, ListRecent,
       ListNamed, ListCleared, Connect, DeliverSnapshot, Deliver, StreamEnds, storeVars, vars,
       CommitAnnounced, Commit
<1>3. owed' \in Nat /\ owed' <= row'.rev
  <2>1. row.rev \in Nat /\ row'.rev \in Nat /\ row.rev <= row'.rev
    BY StepKeeps, RowFacts DEF Keeps, Advances, RowT
  <2> QED BY <1>1, <2>1 DEF BooksInv
<1>4. cleared \in {TRUE, FALSE} /\ crowded \in {TRUE, FALSE}
  BY DEF BooksInv
<1> QED BY ZenonT(30), <1>2, <1>3, <1>4

\* Before a job is cleared, no snapshot names it as cleared and no tombstone is left.
LEMMA UnclearedStep ==
    ASSUME EventsInv, BooksInv, [Next]_vars, cleared' = FALSE, cleared = FALSE
    PROVE  client'.tomb = None /\ conn'.gone = FALSE
<1>0. /\ client \in ClientT /\ ConnShaped(conn) /\ client.tomb = None /\ conn.gone = FALSE
      /\ HubShaped(hub)
  BY DEF EventsInv, Shapes, BooksInv
<1>1. CASE \/ client' = client
           \/ client' = Shown(client, NoRow)
           \/ Connect
  <2>1. client'.tomb = None
    BY <1>0, <1>1, Removed DEF Connect, ClientT
  <2>2. conn'.gone = FALSE
    <3>1. \/ conn' = conn \/ conn' = Touched \/ conn' = Closed
          \/ \E pc \in {"opening", "live"} : conn' = [Closed EXCEPT !.pc = pc]
          \/ Subscribe \/ ReadBarrier \/ ListRecent \/ ListNamed \/ ListCleared
      BY ZenonT(30) DEF Next, Environment, Progress, CreateJob, UpdateJob, UpdateUnpublished,
                        Heartbeat, EffectsFail,
       EffectsDeferred, ClearJobs, PublishOther, CrowdOut, StreamError, ApiRestart, SettleEffects,
       AnswerTerminal, AcceptTerminal, Publish, Connect, DeliverSnapshot, Deliver, StreamEnds,
       vars, CommitAnnounced, Commit
    <3>2. CASE conn' = conn \/ conn' = Touched
      BY <1>0, <3>2 DEF Touched, ConnShaped
    <3>3. CASE \/ conn' = Closed
               \/ \E pc \in {"opening", "live"} : conn' = [Closed EXCEPT !.pc = pc]
      BY <3>3 DEF Closed
    <3>4. CASE Subscribe \/ ReadBarrier \/ ListRecent \/ ListNamed
      BY ZenonT(30), <1>0, <3>4 DEF Subscribe, ReadBarrier, ListRecent, ListNamed, ConnShaped
    <3>5. CASE ListCleared
      BY <1>0, <3>5 DEF ListCleared, ConnShaped
    <3> QED BY <3>1, <3>2, <3>3, <3>4, <3>5
  <2> QED BY <2>1, <2>2
<1>2. CASE DeliverSnapshot
  <2> DEFINE n == Max({client.snapRev, conn.barrier})
             barred == [client EXCEPT !.snapRev = n, !.tomb = None]
  <2>1. TombAfter(client) = None
    BY <1>0 DEF TombAfter, ClearedLater
  <2>2. n \in Int /\ None \in Int
    BY <1>0, MaxOfTwo, Fields DEF ConnShaped, None
  <2> HIDE DEF n
  <2>3. barred \in ClientT /\ barred.tomb = None
    BY ZenonT(30), <1>0, <2>2 DEF ClientT
  <2>4. client' = ShowSnapshot(barred, Snapshot)
    BY <1>2, <2>1, <2>3 DEF DeliverSnapshot, HandleJobsSnapshot, n
  <2> HIDE DEF barred
  <2>5. client'.tomb = None
    BY <2>3, <2>4, SnapshotSteady DEF Steady
  <2> QED BY <1>2, <2>5 DEF DeliverSnapshot, Closed
<1>3. CASE Deliver
  <2> DEFINE e == Head(hub.buffer)
  <2>1. hub.buffer # <<>> /\ hub.buffer \in Seq(Envelope) /\ conn' = conn
    BY <1>0, <1>3 DEF Deliver, HubShaped
  <2>2. e = hub.buffer[1] /\ 1 \in 1 .. Len(hub.buffer)
    BY <2>1
  <2>3. e.body \in Bodies(hub)
    BY ZenonT(30), <2>2 DEF Bodies
  <2>4. e.body.event # "jobs.cleared"
    BY <2>3 DEF BooksInv, Sound
  <2>5. client' = client \/ client' = ApplyJobUpdate(client, e.body.row)
    BY <1>3, <2>4 DEF Deliver, HandleJobUpdated
  <2> HIDE DEF e
  <2>6. client'.tomb = None
    BY <1>0, <2>5, Reflexive, ApplySteady DEF Steady
  <2> QED BY <1>0, <2>1, <2>6
<1>4. \/ client' = client \/ client' = Shown(client, NoRow)
      \/ Connect \/ DeliverSnapshot \/ Deliver
  BY ZenonT(30) DEF Next, Environment, Progress, CreateJob, UpdateJob, UpdateUnpublished,
                    Heartbeat, EffectsFail,
       EffectsDeferred, ClearJobs, PublishOther, CrowdOut, StreamError, ApiRestart, SettleEffects,
       AnswerTerminal, AcceptTerminal, Publish, Subscribe, ReadBarrier, ListRecent, ListNamed,
       ListCleared, StreamEnds, vars, CommitAnnounced, Commit
<1> QED BY <1>1, <1>2, <1>3, <1>4

LEMMA BooksStep ==
    ASSUME EventsInv, BooksInv, [Next]_vars
    PROVE  BooksInv'
<1>0. Keeps
  BY StepKeeps
<1>1. ASSUME NEW a \in Versions', Present(a)
      PROVE  Present(row')
  <2>1. a \in Versions \/ a = NoRow \/ a = row'
    BY <1>0 DEF Keeps, Carried
  <2>2. Present(row) => Present(row')
    BY <1>0 DEF Keeps, Advances
  <2> QED BY <1>1, <2>1, <2>2, NoRowType DEF BooksInv
<1>2. cleared' = FALSE => client'.tomb = None /\ conn'.gone = FALSE
  BY LedgerStep, UnclearedStep DEF BooksInv
<1> QED BY <1>0, <1>1, <1>2, LedgerStep, SettlingStep, FlightSound DEF BooksInv

\* A row is crowded out when no update of it is on its way.
LEMMA NothingStale ==
    ASSUME EventsInv, BooksInv, CanCrowdOut
    PROVE  ~Stale(pubs, hub)
<1>1. DOMAIN hub.buffer = 1 .. Len(hub.buffer)
  BY DEF EventsInv, Shapes, HubShaped
<1>2. \A m \in pubs \cup Bodies(hub) : m.event # "job.updated"
  BY ZenonT(30), <1>1 DEF Bodies, CanCrowdOut
<1>3. \A m \in pubs \cup Bodies(hub) : ~Active(m.row)
  BY <1>2 DEF BooksInv, Sound
<1> QED BY ZenonT(30), <1>3 DEF Stale

LEMMA CrowdStep ==
    ASSUME EventsInv, BooksInv, CrowdInv, [Next]_vars
    PROVE  CrowdInv'
<1>0. Keeps
  BY StepKeeps
<1>1. \A m \in pubs' \cup Bodies(hub') : m \in pubs \cup Bodies(hub) \/ Authentic(m)
  BY FlightStep DEF BooksInv
<1>2. ASSUME Terminal(row), NEW m, Authentic(m)
      PROVE  ~Active(m.row)
  <2>1. Terminal(row')
    BY <1>0, <1>2 DEF Keeps, Advances
  <2> QED BY <1>2, <2>1, NoRowType DEF Authentic, BooksInv, JobUpdated, JobsCleared, Other
<1>3. CASE crowded = TRUE
  <2>1. Terminal(row) /\ ~Stale(pubs, hub) /\ Terminal(row')
    BY <1>0, <1>3 DEF CrowdInv, Keeps, Advances
  <2>2. ~Stale(pubs', hub')
    BY ZenonT(30), <1>1, <1>2, <2>1 DEF Stale
  <2> QED BY <2>1, <2>2 DEF CrowdInv
<1>4. CASE CrowdOut
  <2>1. Terminal(row') /\ pubs' = pubs /\ hub' = hub /\ CanCrowdOut
    BY <1>4 DEF CrowdOut, storeVars
  <2> QED BY <2>1, NothingStale DEF CrowdInv
<1>5. CrowdOut \/ crowded' = crowded
  BY ZenonT(30) DEF Next, Environment, Progress, CreateJob, UpdateJob, UpdateUnpublished,
                    Heartbeat, EffectsFail,
       EffectsDeferred, ClearJobs, PublishOther, StreamError, ApiRestart, SettleEffects,
       AnswerTerminal, AcceptTerminal, Publish, Subscribe, ReadBarrier, ListRecent, ListNamed,
       ListCleared, Connect, DeliverSnapshot, Deliver, StreamEnds, vars, CommitAnnounced, Commit
<1> QED BY <1>3, <1>4, <1>5 DEF CrowdInv

-----------------------------------------------------------------------------
\* A handler's commit leaves what is upheld so, or adds the update that makes up
\* for it; a commit that nobody publishes leaves what is owed as it is.
LEMMA StoreUpholds ==
    ASSUME EventsInv, BooksInv, NEW r \in RowT, NEW n, UpheldNow(r, n),
           \/ CreateJob \/ AcceptTerminal \/ EffectsFail \/ ClearJobs \/ AnswerTerminal
           \/ Heartbeat \/ EffectsDeferred
           \/ \E phase \in {"active", "terminal"} : UpdateJob(phase) \/ UpdateUnpublished(phase)
           \/ \E who \in {"request", "loop"} : SettleEffects(who)
    PROVE  Upheld(r, n, row', owed', pubs', hub', settling'.turn, cleared')
<1>0. [Next]_vars
  BY ZenonT(30) DEF Next, Environment, Progress
<1>1. row' \in RowT /\ row'.rev \in Nat /\ owed' \in Nat /\ owed' <= row'.rev
  BY <1>0, StepKeeps, LedgerStep DEF Keeps, Advances, RowT
<1>2. CASE JobUpdated(row') \in pubs' /\ Present(row')
  <2>1. Carries(pubs', hub', n, row')
    BY <1>2 DEF Carries, JobUpdated
  <2>2. Says(row', owed')
    BY <1>1, <1>2 DEF Says
  <2> QED BY ZenonT(30), <1>1, <2>1, <2>2 DEF Upheld
<1>3. CASE settling'.turn = "request" \/ cleared' = TRUE
  BY ZenonT(30), <1>3 DEF Upheld
<1>4. CASE \/ Heartbeat \/ EffectsDeferred
           \/ \E phase \in {"active", "terminal"} : UpdateUnpublished(phase)
  <2>1. /\ owed' = owed /\ pubs' = pubs /\ hub' = hub /\ settling' = settling
        /\ cleared' = cleared
        /\ Present(row) /\ (Terminal(row) => Terminal(row'))
    <3>1. CASE Heartbeat
      BY <3>1 DEF Heartbeat, Commit, Bumped
    <3>2. CASE EffectsDeferred
      BY <3>2 DEF EffectsDeferred, Bumped, BooksInv
    <3>3. CASE \E phase \in {"active", "terminal"} : UpdateUnpublished(phase)
      BY <3>3 DEF UpdateUnpublished, Commit
    <3> QED BY <1>4, <3>1, <3>2, <3>3
  <2>2. Stands(r, row, owed, pubs, hub) => Stands(r, row', owed', pubs', hub')
    BY ZenonT(30), <2>1 DEF Stands
  <2> QED BY ZenonT(30), <2>1, <2>2 DEF Upheld, UpheldNow
<1>5. CASE EffectsFail
  <2> DEFINE a == settling.accepted
  <2>1. JobUpdated(a) \in pubs' /\ Terminal(a) /\ a \in RowT
    BY <1>5 DEF EffectsFail, BooksInv, EventsInv, Ordered, Versions
  <2> HIDE DEF a
  <2>2. Carries(pubs', hub', n, a)
    BY <2>1 DEF Carries, JobUpdated
  <2>3. Says(a, owed')
    BY <2>1 DEF Says
  <2> QED BY ZenonT(30), <2>1, <2>2, <2>3 DEF Upheld
<1>6. CASE CreateJob \/ \E phase \in {"active", "terminal"} : UpdateJob(phase)
  BY <1>2, <1>6 DEF CreateJob, UpdateJob, CommitAnnounced, Commit, Bumped
<1>7. CASE AnswerTerminal
  BY <1>2, <1>7 DEF AnswerTerminal, BooksInv
<1>8. CASE \E who \in {"request", "loop"} : SettleEffects(who)
  <2>1. JobUpdated(row') \in pubs' /\ row' = Bumped("terminal")
    BY <1>8 DEF SettleEffects, CommitAnnounced, Commit
  <2> QED BY <1>2, <2>1 DEF Bumped
<1>9. CASE AcceptTerminal \/ ClearJobs
  <2>1. settling'.turn = "request" \/ cleared' = TRUE
    BY <1>9 DEF AcceptTerminal, ClearJobs
  <2> QED BY <1>3, <2>1
<1> QED BY <1>4, <1>5, <1>6, <1>7, <1>8, <1>9

\* Publishing passes an update on, with a later revision, or drops the stream.
LEMMA CarriesOfPublished ==
    ASSUME EventsInv, NEW m \in Message, NEW p, NEW n \in Nat, n <= hub.rev, NEW r,
           Carries(pubs, hub, n, r), pubs \ {m} \subseteq p
    PROVE  Sent(m).open = FALSE \/ Carries(p, Sent(m), n, r)
<1> DEFINE h == Sent(m)
           e == [rev |-> hub.rev + 1, body |-> m]
<1>0. hub.rev \in Int /\ hub.buffer \in Seq(Envelope)
  BY DEF EventsInv, Shapes, HubShaped
<1>1. \/ h.open = FALSE
      \/ h.buffer = Append(hub.buffer, e)
  BY ZenonT(30) DEF Sent
<1> HIDE DEF h
<1>3. CASE h.buffer = Append(hub.buffer, e)
  <2>1. /\ Len(h.buffer) = Len(hub.buffer) + 1 /\ Len(hub.buffer) \in Nat
        /\ h.buffer[Len(hub.buffer) + 1] = e
        /\ \A i \in 1 .. Len(hub.buffer) : h.buffer[i] = hub.buffer[i]
    <3>1. e \in Envelope
      BY <1>0 DEF Envelope
    <3> HIDE DEF e
    <3> QED BY <1>0, <1>3, <3>1
  <2>2. CASE \E x \in p : x.event = "job.updated" /\ x.row = r
    BY <2>2 DEF Carries
  <2>3. CASE m.event = "job.updated" /\ m.row = r
    <3>1. /\ Len(hub.buffer) + 1 \in 1 .. Len(h.buffer)
          /\ h.buffer[Len(hub.buffer) + 1].body = m
          /\ n < h.buffer[Len(hub.buffer) + 1].rev
      BY <1>0, <2>1, <2>3
    <3> QED BY ZenonT(30), <2>3, <3>1 DEF Carries, h
  <2>4. CASE \E i \in 1 .. Len(hub.buffer) :
                /\ hub.buffer[i].body.event = "job.updated" /\ hub.buffer[i].body.row = r
                /\ n < hub.buffer[i].rev
    <3>1. PICK i \in 1 .. Len(hub.buffer) :
                /\ hub.buffer[i].body.event = "job.updated" /\ hub.buffer[i].body.row = r
                /\ n < hub.buffer[i].rev
      BY <2>4
    <3>2. i \in 1 .. Len(h.buffer) /\ h.buffer[i] = hub.buffer[i]
      BY <2>1
    <3> QED BY ZenonT(30), <3>1, <3>2 DEF Carries, h
  <2> QED BY ZenonT(30), <2>2, <2>3, <2>4 DEF Carries
<1> QED BY ZenonT(30), <1>1, <1>3 DEF h

LEMMA HubUpholds ==
    ASSUME EventsInv, BooksInv, NEW r, NEW n \in Nat, n <= hub.rev, UpheldNow(r, n),
           PublishOther \/ \E m \in pubs : Publish(m)
    PROVE  Upheld(r, n, row', owed', pubs', hub', settling'.turn, cleared')
<1>1. PICK m \in Message : hub' = Sent(m) /\ pubs \ {m} \subseteq pubs'
  <2>1. CASE PublishOther
    BY <2>1, NoRowType, MessageTypes DEF PublishOther, storeVars
  <2>2. CASE \E m \in pubs : Publish(m)
    BY <2>2 DEF Publish, EventsInv, Shapes
  <2> QED BY <2>1, <2>2
<1>2. UNCHANGED <<row, settling, cleared>> /\ owed' = owed
  BY DEF PublishOther, Publish, storeVars
<1>3. Stale(pubs', hub') => Stale(pubs, hub)
  <2>1. \A x \in pubs' \cup Bodies(hub') : x \in pubs \cup Bodies(hub) \/ ~Active(x.row)
    <3>1. CASE PublishOther
      <4>1. hub' = Sent(Other) /\ pubs' = pubs /\ Other \in Message /\ ~Active(Other.row)
        BY <3>1, NoRowType, MessageTypes DEF PublishOther, storeVars
      <4> QED BY ZenonT(30), <4>1, SentBodies
    <3>2. CASE \E x \in pubs : Publish(x)
      <4>1. PICK x \in pubs : hub' = Sent(x) /\ pubs' = pubs \ {x} /\ x \in Message
        BY <3>2 DEF Publish, EventsInv, Shapes
      <4> QED BY ZenonT(30), <4>1, SentBodies
    <3> QED BY <3>1, <3>2
  <2> QED BY ZenonT(30), <2>1 DEF Stale
<1>4. Stands(r, row, owed, pubs, hub) => Stands(r, row', owed', pubs', hub')
  BY ZenonT(30), <1>2, <1>3 DEF Stands
<1>5. \A s \in RowT : Carries(pubs, hub, n, s) => hub'.open = FALSE \/ Carries(pubs', hub', n, s)
  BY ZenonT(30), <1>1, CarriesOfPublished
<1>6. hub.open = FALSE => hub'.open = FALSE
  BY <1>1 DEF Sent
<1> QED BY ZenonT(30), <1>2, <1>4, <1>5, <1>6 DEF Upheld, UpheldNow

-----------------------------------------------------------------------------
LEMMA SummaryStep ==
    ASSUME EventsInv, BooksInv, SummaryInv, [Next]_vars
    PROVE  SummaryInv'
<1>0. ConnShaped(conn)
  BY DEF EventsInv, Shapes
<1>1. CASE conn' = Touched
  <2>1. conn'.pc \in {"subscribed", "barred"} => conn'.changed = TRUE
    BY ZenonT(30), <1>0, <1>1 DEF Touched, ConnShaped
  <2> QED BY <2>1 DEF SummaryInv
<1>2. CASE UNCHANGED <<row, conn, cleared>> /\ owed' = owed
  BY <1>2 DEF SummaryInv
<1>3. CASE EffectsDeferred
  <2>1. Terminal(row) /\ Terminal(row') /\ conn' = conn /\ cleared' = cleared
    BY <1>3 DEF EffectsDeferred, Bumped, BooksInv
  <2> QED BY <2>1 DEF SummaryInv
<1>4. CASE ClearJobs
  BY <1>4 DEF ClearJobs, SummaryInv
<1>5. CASE Subscribe
  <2>1. row' = row /\ cleared' = cleared /\ owed' = row.rev
        /\ conn'.active = IF Active(row) THEN row ELSE NoRow
    BY ZenonT(30), <1>0, <1>5 DEF Subscribe, storeVars, ConnShaped
  <2>2. Active(row) => Says(row, row.rev)
    BY RowFacts DEF Says
  <2> QED BY <2>1, <2>2, NoRowType DEF SummaryInv
<1>6. CASE ReadBarrier
  <2>1. /\ row' = row /\ cleared' = cleared /\ owed' = owed /\ conn.pc = "subscribed"
        /\ conn'.active = conn.active /\ conn'.changed = conn.changed
    BY ZenonT(30), <1>0, <1>6 DEF ReadBarrier, storeVars, ConnShaped
  <2> QED BY <2>1 DEF SummaryInv
<1>7. CASE conn'.pc \notin {"subscribed", "barred"}
  BY <1>7 DEF SummaryInv
<1>8. \/ conn' = Touched
      \/ UNCHANGED <<row, conn, cleared>> /\ owed' = owed
      \/ EffectsDeferred \/ ClearJobs \/ Subscribe \/ ReadBarrier
      \/ conn'.pc \notin {"subscribed", "barred"}
  <2>1. CASE \/ CreateJob \/ AcceptTerminal \/ Heartbeat
             \/ \E phase \in {"active", "terminal"} : UpdateJob(phase) \/ UpdateUnpublished(phase)
             \/ \E who \in {"request", "loop"} : SettleEffects(who)
    BY <2>1 DEF CreateJob, AcceptTerminal, UpdateJob, UpdateUnpublished, SettleEffects,
                Heartbeat, CommitAnnounced, Commit
  <2>2. CASE \/ EffectsFail \/ AnswerTerminal \/ PublishOther \/ CrowdOut \/ UNCHANGED vars
             \/ Deliver \/ \E m \in pubs : Publish(m)
    <3>1. CASE PublishOther
      BY <3>1 DEF PublishOther, storeVars
    <3>2. CASE ~PublishOther
      BY ZenonT(30), <2>2, <3>2 DEF EffectsFail, AnswerTerminal, Publish, CrowdOut, Deliver,
                                    storeVars,
           vars
    <3> QED BY <3>1, <3>2
  <2>3. CASE ListRecent \/ ListNamed \/ ListCleared
    <3>1. conn'.pc = "listed" \/ conn'.pc = "named" \/ conn'.pc = "ready"
      BY ZenonT(30), <1>0, <2>3 DEF ListRecent, ListNamed, ListCleared, ConnShaped
    <3> QED BY <3>1
  <2>4. CASE Connect \/ DeliverSnapshot \/ StreamEnds \/ StreamError \/ \E r : ApiRestart(r)
    BY <2>4 DEF Connect, DeliverSnapshot, StreamEnds, StreamError, ApiRestart, Closed
  <2> QED BY ZenonT(30), <2>1, <2>2, <2>3, <2>4 DEF Next, Environment, Progress
<1> QED BY <1>1, <1>2, <1>3, <1>4, <1>5, <1>6, <1>7, <1>8

\* The rows of an unfinished snapshot.
LEMMA SnapshotRow ==
    ASSUME EventsInv
    PROVE  Snapshot \in RowT
<1>1. conn.recent \in RowT /\ conn.active \in RowT /\ conn.named \in RowT
  BY DEF EventsInv, Ordered, Versions
<1> QED BY <1>1 DEF Snapshot

LEMMA ListRecentUpholds ==
    ASSUME EventsInv, BooksInv, SummaryInv, SnapshotInv, ListRecent
    PROVE  SnapshotInv'
<1>1. /\ conn.pc = "barred" /\ UNCHANGED <<row, cleared, settling, pubs, hub, owed>>
      /\ ConnShaped(conn) /\ conn.named = NoRow
  BY ZenonT(30) DEF ListRecent, storeVars, EventsInv, Shapes, SnapshotInv
<1>2. PICK r \in {Listed} \cup (IF CanCrowdOut /\ ~conn.changed THEN {NoRow} ELSE {}) :
         conn' = [conn EXCEPT !.pc = "listed", !.changed = FALSE, !.recent = r]
  BY ZenonT(30) DEF ListRecent
<1>3. /\ conn'.pc = "listed" /\ conn'.recent = r /\ conn'.active = conn.active
      /\ conn'.named = NoRow
  BY ZenonT(30), <1>1, <1>2 DEF ConnShaped
<1>4. Snapshot' = IF Present(r) THEN r ELSE IF Present(conn.active) THEN conn.active ELSE NoRow
  BY ZenonT(30), <1>3 DEF Snapshot
<1>5. cleared = FALSE /\ Present(row) => Stands(Snapshot', row, owed, pubs, hub)
  <2> SUFFICES ASSUME cleared = FALSE, Present(row)
               PROVE  Stands(Snapshot', row, owed, pubs, hub)
    OBVIOUS
  <2>1. CASE r = Listed
    <3>1. Snapshot' = row
      BY <1>4, <2>1 DEF Listed
    <3>2. Says(row, owed)
      BY RowFacts DEF Says, BooksInv
    <3> QED BY <3>1, <3>2 DEF Stands
  <2>2. CASE r = NoRow /\ CanCrowdOut /\ conn.changed # TRUE
    <3>1. Snapshot' = IF Present(conn.active) THEN conn.active ELSE NoRow
      BY <1>4, <2>2, NoRowType
    <3>2. /\ Active(row) => Says(conn.active, owed)
          /\ Terminal(row) => ~Present(conn.active)
      BY <1>1, <2>2 DEF SummaryInv
    <3>3. CASE Active(row)
      <4>1. Snapshot' = conn.active
        BY <3>1, <3>2, <3>3 DEF Says
      <4> QED BY <3>2, <3>3, <4>1 DEF Stands
    <3>4. CASE Terminal(row)
      <4>1. Snapshot' = NoRow
        BY <3>1, <3>2, <3>4
      <4> QED BY <2>2, <3>4, <4>1, NoRowType, NothingStale DEF Stands
    <3> QED BY <3>3, <3>4, RowFacts
  <2> QED BY ZenonT(30), <1>2, <2>1, <2>2
<1>6. Upheld(Snapshot', conn'.barrier, row, owed, pubs, hub, settling.turn, cleared)
  BY ZenonT(30), <1>5 DEF Upheld, BooksInv, Stands
<1> QED BY ZenonT(30), <1>1, <1>3, <1>6 DEF SnapshotInv, UpheldNow

LEMMA ListNamedUpholds ==
    ASSUME EventsInv, BooksInv, SnapshotInv, ListNamed
    PROVE  SnapshotInv'
<1>1. /\ conn.pc = "listed" /\ UNCHANGED <<row, cleared, settling, pubs, hub, owed>>
      /\ ConnShaped(conn) /\ conn.named = NoRow
  BY DEF ListNamed, storeVars, EventsInv, Shapes, SnapshotInv
<1>2. PICK r \in {Listed, NoRow} : conn' = [conn EXCEPT !.pc = "named", !.named = r]
  BY ZenonT(30) DEF ListNamed
<1>3. /\ conn'.pc = "named" /\ conn'.recent = conn.recent /\ conn'.active = conn.active
      /\ conn'.named = r /\ conn'.barrier = conn.barrier
  BY ZenonT(30), <1>1, <1>2 DEF ConnShaped
<1>4. Snapshot' = IF Present(Snapshot) THEN Snapshot ELSE r
  BY <1>1, <1>3, NoRowType DEF Snapshot
<1>5. cleared = FALSE /\ Stands(Snapshot, row, owed, pubs, hub)
      => Stands(Snapshot', row, owed, pubs, hub)
  <2> SUFFICES ASSUME cleared = FALSE, Stands(Snapshot, row, owed, pubs, hub),
                      Present(row), ~Present(Snapshot)
               PROVE  Stands(Snapshot', row, owed, pubs, hub)
    BY <1>4 DEF Stands
  <2>1. Terminal(row) /\ ~Stale(pubs, hub)
    BY DEF Stands, Says
  <2>2. Snapshot' \in {row, NoRow}
    BY <1>2, <1>4 DEF Listed
  <2> QED BY <2>1, <2>2, NoRowType DEF Stands, Says
<1>6. UpheldNow(Snapshot, conn.barrier)
  BY <1>1 DEF SnapshotInv
<1>7. Upheld(Snapshot', conn.barrier, row, owed, pubs, hub, settling.turn, cleared)
  BY ZenonT(30), <1>5, <1>6 DEF Upheld, UpheldNow, BooksInv
<1> QED BY ZenonT(30), <1>1, <1>3, <1>7 DEF SnapshotInv, UpheldNow

LEMMA SnapshotStep ==
    ASSUME EventsInv, RevisionsInv, BooksInv, SummaryInv, SnapshotInv, [Next]_vars
    PROVE  SnapshotInv'
<1>0. ConnShaped(conn) /\ Snapshot \in RowT
  BY SnapshotRow DEF EventsInv, Shapes
<1>1. CASE \/ CreateJob \/ AcceptTerminal \/ EffectsFail \/ ClearJobs \/ AnswerTerminal
           \/ Heartbeat \/ EffectsDeferred
           \/ \E phase \in {"active", "terminal"} : UpdateJob(phase) \/ UpdateUnpublished(phase)
           \/ \E who \in {"request", "loop"} : SettleEffects(who)
  <2>1. conn' \in {conn, Touched}
    BY <1>1 DEF CreateJob, AcceptTerminal, EffectsFail, ClearJobs, AnswerTerminal, UpdateJob,
                UpdateUnpublished, SettleEffects, Heartbeat, EffectsDeferred, CommitAnnounced,
                Commit
  <2>2. /\ conn'.pc = conn.pc /\ conn'.barrier = conn.barrier /\ conn'.recent = conn.recent
        /\ conn'.active = conn.active /\ conn'.named = conn.named
    BY ZenonT(30), <1>0, <2>1 DEF Touched, ConnShaped
  <2>3. Snapshot' = Snapshot
    BY <2>2 DEF Snapshot
  <2>4. UpheldNow(Snapshot, conn.barrier)
        => Upheld(Snapshot, conn.barrier, row', owed', pubs', hub', settling'.turn, cleared')
    BY <1>0, <1>1, StoreUpholds
  <2> QED BY ZenonT(30), <2>2, <2>3, <2>4 DEF SnapshotInv, UpheldNow
<1>2. CASE PublishOther \/ \E m \in pubs : Publish(m)
  <2>1. conn' = conn
    BY <1>2 DEF PublishOther, Publish
  <2>2. Snapshot' = Snapshot
    BY <2>1 DEF Snapshot
  <2>3. conn.pc \in {"listed", "named", "ready"} => conn.barrier \in Nat /\ conn.barrier <= hub.rev
    BY DEF RevisionsInv
  <2>4. conn.pc \in {"listed", "named", "ready"} /\ UpheldNow(Snapshot, conn.barrier)
        => Upheld(Snapshot, conn.barrier, row', owed', pubs', hub', settling'.turn, cleared')
    BY ZenonT(30), <1>2, <2>3, HubUpholds
  <2> QED BY ZenonT(30), <2>1, <2>2, <2>4 DEF SnapshotInv, UpheldNow
<1>3. CASE CrowdOut \/ ListCleared \/ UNCHANGED vars
  <2>1. UNCHANGED <<row, cleared, settling, pubs, hub, owed>>
    BY <1>3 DEF CrowdOut, ListCleared, storeVars, vars
  <2>2. /\ conn'.barrier = conn.barrier /\ conn'.recent = conn.recent
        /\ conn'.active = conn.active /\ conn'.named = conn.named
        /\ conn'.pc = conn.pc \/ (conn.pc = "named" /\ conn'.pc = "ready")
    BY ZenonT(30), <1>0, <1>3 DEF CrowdOut, ListCleared, ConnShaped, vars
  <2>3. Snapshot' = Snapshot
    BY <2>2 DEF Snapshot
  <2> QED BY ZenonT(30), <2>1, <2>2, <2>3 DEF SnapshotInv, UpheldNow
<1>4. CASE Subscribe \/ ReadBarrier
  <2>1. /\ conn'.recent = conn.recent /\ conn'.named = conn.named
        /\ conn.pc \in {"opening", "subscribed"} /\ conn'.pc \in {"subscribed", "barred"}
    BY ZenonT(30), <1>0, <1>4 DEF Subscribe, ReadBarrier, ConnShaped
  <2> QED BY <2>1 DEF SnapshotInv
<1>5. CASE Deliver
  BY <1>5 DEF Deliver, SnapshotInv
<1>6. CASE Connect \/ DeliverSnapshot \/ StreamEnds \/ StreamError \/ \E r : ApiRestart(r)
  <2>1. /\ conn'.recent = NoRow /\ conn'.named = NoRow
        /\ conn'.pc \in {"opening", "live", "closed"}
    BY <1>6 DEF Connect, DeliverSnapshot, StreamEnds, StreamError, ApiRestart, Closed
  <2> QED BY <2>1 DEF SnapshotInv
<1> QED BY ZenonT(30), <1>1, <1>2, <1>3, <1>4, <1>5, <1>6, ListRecentUpholds, ListNamedUpholds
        DEF Next, Environment, Progress

-----------------------------------------------------------------------------
\* What a handler of the browser shows in the end.
Visible(r) == IF Present(r) THEN r ELSE NoRow

LEMMA ShownView ==
    ASSUME NEW c, NEW d, Steady(c, d), NEW r
    PROVE  Shown(d, r).view = Visible(r)
  BY ZenonT(30) DEF Shown, Steady, Visible

LEMMA AppliedView ==
    ASSUME NEW c, NEW d, Steady(c, d), d.tomb = None, NEW r
    PROVE  ApplyJobUpdate(d, r).view = IF Accepts(d.view, r) THEN Visible(Cap(r)) ELSE d.view
<1> DEFINE noted == IF Terminal(r) THEN [d EXCEPT !.applied = Max({@, r.rev})] ELSE d
           run == IF Terminal(r) /\ d.applied < r.rev THEN RunEffects(noted, r) ELSE noted
<1>1. Steady(c, noted)
  BY DEF Steady
<1>2. ApplyJobUpdate(d, r) = IF ~Accepts(d.view, r) THEN d ELSE Shown(run, Cap(r))
  BY DEF ApplyJobUpdate
<1> HIDE DEF noted
<1>3. Steady(c, run)
  BY ZenonT(30), <1>1 DEF Steady, RunEffects
<1> HIDE DEF run
<1> QED BY ZenonT(30), <1>2, <1>3, ShownView

LEMMA SnapshotView ==
    ASSUME NEW c \in ClientT, c.tomb = None, NEW snap \in RowT
    PROVE  ShowSnapshot(c, snap).view = Visible(Cap(Reconcile(c.view, snap)))
<1> DEFINE missed == Active(c.view) /\ Terminal(snap) /\ Accepts(c.view, snap)
           seeded == Seed(c, snap, missed)
           shown == Shown(seeded, Cap(Reconcile(c.view, snap)))
           d == IF missed THEN ApplyJobUpdate(shown, snap) ELSE shown
<1>1. ShowSnapshot(c, snap) = Aged(c, d)
  BY DEF ShowSnapshot
<1>2. Steady(c, seeded)
  BY Reflexive DEF Steady, Seed
<1>3. missed => Reconcile(c.view, snap) = snap
  BY DEF Reconcile
<1> HIDE DEF seeded, missed
<1>4. Steady(c, shown) /\ shown.view = Visible(Cap(Reconcile(c.view, snap)))
  BY ZenonT(30), <1>2, ShownSteady, ShownView
<1> HIDE DEF shown
<1>5. Steady(c, d) /\ d.view = Visible(Cap(Reconcile(c.view, snap)))
  <2>1. CASE missed
    <3>1. shown.tomb = None /\ shown.view = Visible(Cap(snap))
      BY <1>3, <1>4, <2>1 DEF Steady
    <3>2. Accepts(shown.view, snap)
      BY <3>1, NoRowType DEF Accepts, Visible, Cap, RowT
    <3> QED BY <1>3, <1>4, <2>1, <3>1, <3>2, AppliedView, ApplySteady
  <2>2. CASE ~missed
    BY <1>4, <2>2
  <2> QED BY <2>1, <2>2
<1> HIDE DEF d
<1>6. Aged(c, d).view = d.view
  BY <1>5 DEF Aged, Steady
<1> QED BY <1>1, <1>5, <1>6

\* Of two versions of which one says what is so, the one that is kept does.
LEMMA KeptSays ==
    ASSUME EventsInv, NEW v \in Versions, NEW s \in Versions, NEW o \in Nat,
           Present(s), Says(v, o) \/ Says(s, o)
    PROVE  Says(IF Accepts(v, s) THEN s ELSE v, o)
<1>1. /\ v \in RowT /\ s \in RowT /\ v.rev \in Nat /\ s.rev \in Nat /\ row.rev \in Nat
      /\ v.phase \in Phases /\ s.phase \in Phases /\ row.phase \in Phases
      /\ Active(v) /\ Terminal(s) => v.rev < s.rev
      /\ Active(s) /\ Terminal(v) => s.rev < v.rev
  BY RowFacts DEF EventsInv, Ordered, RowT
<1>2. CASE Accepts(v, s)
  BY <1>1, <1>2 DEF Says, Accepts
<1>3. CASE ~Accepts(v, s)
  BY <1>1, <1>3 DEF Says, Accepts
<1> QED BY <1>2, <1>3

\* A list too full for it does not show a job that is over.
LEMMA CappedStands ==
    ASSUME BooksInv, CrowdInv, NEW x, NEW o, Says(x, o), NEW h,
           Stale(pubs, h) => Stale(pubs, hub)
    PROVE  Stands(Visible(Cap(x)), row, o, pubs, h)
<1>1. CASE Present(Cap(x)) /\ Cap(x) = x
  BY <1>1 DEF Stands, Visible
<1>2. CASE Terminal(x) /\ crowded
  <2>1. crowded = TRUE
    BY <1>2 DEF BooksInv
  <2>2. Visible(Cap(x)) = NoRow
    BY <1>2, NoRowType DEF Visible, Cap
  <2>3. Terminal(row) /\ ~Stale(pubs, h)
    BY <2>1 DEF CrowdInv
  <2> QED BY <2>2, <2>3, NoRowType DEF Stands
<1>3. CASE ~Present(x)
  BY <1>3 DEF Stands, Says
<1> QED BY <1>1, <1>2, <1>3 DEF Cap

LEMMA DeliverSnapshotUpholds ==
    ASSUME EventsInv, RevisionsInv, BooksInv, CrowdInv, SnapshotInv, DeliverSnapshot
    PROVE  DisplayInv'
<1> DEFINE n == Max({client.snapRev, conn.barrier})
           barred == [client EXCEPT !.snapRev = n, !.tomb = TombAfter(client)]
<1>1. /\ conn.pc = "ready" /\ UNCHANGED <<row, cleared, settling, pubs, hub, owed>>
      /\ client \in ClientT /\ ConnShaped(conn)
      /\ client' = IF barred.tomb # None THEN Shown(barred, NoRow) ELSE ShowSnapshot(barred, Snapshot)
  BY DEF DeliverSnapshot, HandleJobsSnapshot, storeVars, EventsInv, Shapes
<1>2. UpheldNow(Snapshot, conn.barrier)
  BY <1>1 DEF SnapshotInv
<1>3. CASE cleared = TRUE
  BY ZenonT(30), <1>1, <1>3 DEF DisplayInv, UpheldNow, Upheld
<1>4. CASE cleared = FALSE
  <2>1. n = conn.barrier /\ n \in Int /\ None \in Int
    <3>1. client.snapRev = 0 /\ conn.barrier \in Nat
      BY <1>1 DEF RevisionsInv
    <3>2. client.snapRev \in Int /\ conn.barrier \in Int
      BY <3>1
    <3>3. n \in {client.snapRev, conn.barrier} /\ conn.barrier <= n
      BY ZenonT(30), <3>2, MaxOfTwo
    <3> QED BY <3>1, <3>3 DEF None
  <2>2. TombAfter(client) = None
    BY <1>4 DEF TombAfter, ClearedLater, BooksInv
  <2>3. barred = [client EXCEPT !.snapRev = n, !.tomb = None]
    BY <2>2
  <2> HIDE DEF n, barred
  <2>4. barred \in ClientT /\ barred.tomb = None /\ barred.view = client.view /\ barred.snapRev = n
    BY ZenonT(30), <1>1, <2>1, <2>3 DEF ClientT
  <2>5. client' = ShowSnapshot(barred, Snapshot)
    BY <1>1, <2>4
  <2>6. /\ client'.view = Visible(Cap(Reconcile(client.view, Snapshot)))
        /\ client'.snapRev = conn.barrier
    BY <2>1, <2>4, <2>5, SnapshotRow, SnapshotView, SnapshotSteady DEF Steady
  <2>7. Snapshot \in Versions /\ client.view \in Versions /\ owed \in Nat
    BY DEF Snapshot, Versions, BooksInv
  <2>8. Stands(Snapshot, row, owed, pubs, hub)
        => Stands(client'.view, row, owed, pubs, hub)
    <3> SUFFICES ASSUME Stands(Snapshot, row, owed, pubs, hub), Present(row)
                 PROVE  Stands(client'.view, row, owed, pubs, hub)
      BY DEF Stands
    <3>1. CASE Says(Snapshot, owed)
      <4>1. Present(Snapshot)
        BY <3>1 DEF Says
      <4>2. Reconcile(client.view, Snapshot)
            = IF Accepts(client.view, Snapshot) THEN Snapshot ELSE client.view
        BY <4>1 DEF Reconcile
      <4>3. Says(Reconcile(client.view, Snapshot), owed)
        BY ZenonT(30), <2>7, <3>1, <4>1, <4>2, KeptSays
      <4> QED BY ZenonT(30), <2>6, <4>3, CappedStands
    <3>2. CASE Terminal(row) /\ ~Present(Snapshot) /\ ~Stale(pubs, hub)
      <4>1. Reconcile(client.view, Snapshot) = IF Terminal(client.view) THEN client.view ELSE NoRow
        BY <3>2 DEF Reconcile
      <4>2. Terminal(client'.view) \/ ~Present(client'.view)
        BY <2>6, <4>1, NoRowType DEF Cap, Visible
      <4> QED BY <3>2, <4>2 DEF Stands, Says
    <3> QED BY <3>1, <3>2 DEF Stands
  <2>9. Upheld(client'.view, conn.barrier, row, owed, pubs, hub, settling.turn, cleared)
    BY ZenonT(30), <1>2, <2>8 DEF Upheld, UpheldNow
  <2> QED BY ZenonT(30), <1>1, <2>6, <2>9 DEF DisplayInv, UpheldNow
<1> QED BY <1>3, <1>4 DEF BooksInv

\* Reading one event leaves an update on its way, unless it was that event.
LEMMA CarriesOfDelivered ==
    ASSUME EventsInv, NEW n \in Nat, NEW r, Carries(pubs, hub, n, r), hub.buffer # <<>>,
           NEW h, h.buffer = Tail(hub.buffer)
    PROVE  \/ Carries(pubs, h, n, r)
           \/ /\ Head(hub.buffer).body.event = "job.updated" /\ Head(hub.buffer).body.row = r
              /\ n < Head(hub.buffer).rev
<1> DEFINE s == hub.buffer
<1>0. s \in Seq(Envelope) /\ s # <<>>
  BY DEF EventsInv, Shapes, HubShaped
<1> SUFFICES ASSUME NEW i \in 1 .. Len(s), s[i].body.event = "job.updated", s[i].body.row = r,
                    n < s[i].rev
             PROVE  \/ Carries(pubs, h, n, r)
                    \/ /\ Head(s).body.event = "job.updated" /\ Head(s).body.row = r
                       /\ n < Head(s).rev
  BY ZenonT(30) DEF Carries
<1> HIDE DEF s
<1>1. CASE i = 1
  <2>1. Head(s) = s[i]
    BY <1>0, <1>1
  <2> QED BY ZenonT(30), <2>1
<1>2. CASE i # 1
  <2>1. i - 1 \in 1 .. Len(Tail(s)) /\ Tail(s)[i - 1] = s[i]
    BY <1>0, <1>2
  <2>2. h.buffer = Tail(s)
    BY DEF s
  <2> QED BY ZenonT(30), <2>1, <2>2 DEF Carries
<1> QED BY <1>1, <1>2

\* An update the browser takes into account: the row it shows then still stands,
\* or it does now if it was this update that had to come.
LEMMA AppliedStands ==
    ASSUME EventsInv, BooksInv, CrowdInv, NEW r \in Versions, Present(r), NEW h,
           Stale(pubs, h) => Stale(pubs, hub), Active(r) => Stale(pubs, hub),
           NEW x, x = IF Accepts(client.view, r) THEN Visible(Cap(r)) ELSE client.view,
           \/ Stands(client.view, row, owed, pubs, hub)
           \/ Says(r, owed)
    PROVE  Stands(x, row, owed, pubs, h)
<1>0. client.view \in Versions /\ owed \in Nat
  BY DEF Versions, BooksInv
<1>1. CASE ~Present(row)
  BY <1>1 DEF Stands
<1>2. CASE Present(row) /\ (Says(client.view, owed) \/ Says(r, owed))
  <2> DEFINE y == IF Accepts(client.view, r) THEN r ELSE client.view
  <2>1. Says(y, owed)
    BY ZenonT(30), <1>0, <1>2, KeptSays
  <2>2. CASE Accepts(client.view, r)
    <3>1. x = Visible(Cap(y))
      BY <2>2
    <3> HIDE DEF y
    <3> QED BY ZenonT(30), <2>1, <3>1, CappedStands
  <2>3. CASE ~Accepts(client.view, r)
    <3>1. x = y
      BY <2>3
    <3> HIDE DEF y
    <3> QED BY ZenonT(30), <2>1, <3>1 DEF Stands
  <2> QED BY <2>2, <2>3
<1>3. CASE Terminal(row) /\ ~Present(client.view) /\ ~Stale(pubs, hub)
  <2>1. Terminal(r)
    BY <1>3 DEF EventsInv, Ordered, RowT
  <2>2. x = Visible(Cap(r))
    BY <1>3 DEF Accepts
  <2>3. Terminal(x) \/ ~Present(x)
    BY <2>1, <2>2, NoRowType DEF Cap, Visible
  <2> QED BY <1>3, <2>3 DEF Stands, Says
<1> QED BY <1>1, <1>2, <1>3 DEF Stands

LEMMA DeliverUpholds ==
    ASSUME EventsInv, RevisionsInv, BooksInv, CrowdInv, DisplayInv, Deliver
    PROVE  DisplayInv'
<1> DEFINE e == Head(hub.buffer)
<1>1. /\ conn.pc = "live" /\ UNCHANGED <<row, cleared, settling, pubs, owed, conn>>
      /\ hub.buffer # <<>> /\ hub'.buffer = Tail(hub.buffer) /\ hub'.open = hub.open
      /\ hub.buffer \in Seq(Envelope) /\ client \in ClientT
      /\ client.snapRev \in Nat
  BY DEF Deliver, storeVars, EventsInv, Shapes, HubShaped, RevisionsInv
<1>2. UpheldNow(client.view, client.snapRev)
  BY <1>1 DEF DisplayInv
<1>3. CASE cleared = TRUE \/ hub.open = FALSE \/ settling.turn = "request"
  BY ZenonT(30), <1>1, <1>3 DEF DisplayInv, UpheldNow, Upheld
<1>4. CASE cleared = FALSE /\ hub.open # FALSE /\ settling.turn # "request"
  <2>1. /\ e = hub.buffer[1] /\ 1 \in 1 .. Len(hub.buffer) /\ e \in Envelope
        /\ e.rev \in Int /\ e.body.row \in RowT
    <3>1. e = hub.buffer[1] /\ 1 \in 1 .. Len(hub.buffer)
      BY <1>1
    <3>2. e \in Envelope
      BY <1>1, BufferTypes, Zenon
    <3> HIDE DEF e
    <3> QED BY <3>1, <3>2 DEF Envelope, Message
  <2>2. e.body \in Bodies(hub) /\ e.body.row \in Versions
    BY ZenonT(30), <2>1 DEF Bodies, Versions
  <2>3. Stale(pubs, hub') => Stale(pubs, hub)
    <3>1. Bodies(hub') \subseteq Bodies(hub)
      BY <1>1, BodiesOf DEF EventsInv, Shapes
    <3> QED BY ZenonT(30), <3>1 DEF Stale
  <2>4. Active(e.body.row) => Stale(pubs, hub)
    BY ZenonT(30), <2>2 DEF Stale
  <2>5. /\ e.body.event # "jobs.cleared"
        /\ e.body.event = "job.updated" => Present(e.body.row)
    BY <1>4, <2>2 DEF BooksInv, Sound
  <2>6. \A s \in RowT : Carries(pubs, hub, client.snapRev, s)
           => \/ Carries(pubs, hub', client.snapRev, s)
              \/ e.body.event = "job.updated" /\ e.body.row = s /\ client.snapRev < e.rev
    BY ZenonT(30), <1>1, CarriesOfDelivered
  <2>7. CASE e.body.event = "job.updated" /\ client.snapRev < e.rev
    <3>1. client' = ApplyJobUpdate(client, e.body.row)
      BY <1>1, <2>1, <2>7 DEF Deliver, HandleJobUpdated
    <3>2. client.tomb = None
      BY <1>4 DEF BooksInv
    <3> HIDE DEF e
    <3>3. /\ client'.view = IF Accepts(client.view, e.body.row) THEN Visible(Cap(e.body.row))
                                                               ELSE client.view
          /\ client'.snapRev = client.snapRev
      <4>1. Steady(client, client)
        BY <1>1, Reflexive
      <4>2. Steady(client, client')
        BY ZenonT(30), <3>1, <4>1, ApplySteady
      <4> QED BY ZenonT(30), <3>1, <3>2, <4>1, <4>2, AppliedView DEF Steady
    <3>4. Stands(client.view, row, owed, pubs, hub) \/ Says(e.body.row, owed)
          => Stands(client'.view, row, owed, pubs, hub')
      BY ZenonT(30), <2>2, <2>3, <2>4, <2>5, <2>7, <3>3, AppliedStands
    <3>5. Upheld(client'.view, client.snapRev, row, owed, pubs, hub', settling.turn, cleared)
      BY ZenonT(30), <1>2, <1>4, <2>6, <3>4 DEF Upheld, UpheldNow
    <3> QED BY ZenonT(30), <1>1, <3>3, <3>5 DEF DisplayInv, UpheldNow
  <2>8. CASE ~(e.body.event = "job.updated" /\ client.snapRev < e.rev)
    <3>1. client' = client
      BY <1>1, <2>1, <2>5, <2>8 DEF Deliver, HandleJobUpdated
    <3> HIDE DEF e
    <3>2. Stands(client.view, row, owed, pubs, hub)
          => Stands(client.view, row, owed, pubs, hub')
      BY ZenonT(30), <2>3 DEF Stands
    <3>3. Upheld(client.view, client.snapRev, row, owed, pubs, hub', settling.turn, cleared)
      BY ZenonT(30), <1>2, <1>4, <2>6, <2>8, <3>2 DEF Upheld, UpheldNow
    <3> QED BY ZenonT(30), <1>1, <3>1, <3>3 DEF DisplayInv, UpheldNow
  <2> QED BY <2>7, <2>8
<1> QED BY <1>3, <1>4 DEF BooksInv

LEMMA DisplayStep ==
    ASSUME EventsInv, RevisionsInv, UpdatesInv, [Next]_vars
    PROVE  DisplayInv'
<1>0. /\ client \in ClientT /\ client.view \in RowT /\ ConnShaped(conn)
      /\ BooksInv /\ CrowdInv /\ SummaryInv /\ SnapshotInv /\ DisplayInv
  BY Fields DEF EventsInv, Shapes, UpdatesInv
<1>1. CASE \/ CreateJob \/ AcceptTerminal \/ EffectsFail \/ ClearJobs \/ AnswerTerminal
           \/ Heartbeat \/ EffectsDeferred
           \/ \E phase \in {"active", "terminal"} : UpdateJob(phase) \/ UpdateUnpublished(phase)
           \/ \E who \in {"request", "loop"} : SettleEffects(who)
  <2>1. conn' \in {conn, Touched} /\ client' = client
    BY <1>1 DEF CreateJob, AcceptTerminal, EffectsFail, ClearJobs, AnswerTerminal, UpdateJob,
                UpdateUnpublished, SettleEffects, Heartbeat, EffectsDeferred, CommitAnnounced,
                Commit
  <2>2. conn'.pc = conn.pc
    BY ZenonT(30), <1>0, <2>1 DEF Touched, ConnShaped
  <2>3. UpheldNow(client.view, client.snapRev)
        => Upheld(client.view, client.snapRev, row', owed', pubs', hub', settling'.turn,
                  cleared')
    BY ZenonT(30), <1>0, <1>1, StoreUpholds
  <2> QED BY ZenonT(30), <1>0, <2>1, <2>2, <2>3 DEF DisplayInv, UpheldNow
<1>2. CASE PublishOther \/ \E m \in pubs : Publish(m)
  <2>1. conn' = conn /\ client' = client
    BY <1>2 DEF PublishOther, Publish
  <2>2. conn.pc = "live" => client.snapRev \in Nat /\ client.snapRev <= hub.rev
    BY DEF RevisionsInv
  <2>3. conn.pc = "live" /\ UpheldNow(client.view, client.snapRev)
        => Upheld(client.view, client.snapRev, row', owed', pubs', hub', settling'.turn,
                  cleared')
    BY ZenonT(30), <1>0, <1>2, <2>2, HubUpholds
  <2> QED BY ZenonT(30), <1>0, <2>1, <2>3 DEF DisplayInv, UpheldNow
<1>3. CASE CrowdOut
  <2>1. /\ UNCHANGED <<row, cleared, settling, pubs, hub, owed, conn>>
        /\ Terminal(row) /\ CanCrowdOut
        /\ client' = IF Terminal(client.view) THEN Shown(client, NoRow) ELSE client
    BY <1>3 DEF CrowdOut, storeVars
  <2>2. client'.snapRev = client.snapRev
        /\ client'.view = IF Terminal(client.view) THEN NoRow ELSE client.view
    BY <1>0, <2>1, Reflexive, ShownSteady, Removed DEF Steady
  <2>3. Stands(client.view, row, owed, pubs, hub)
        => Stands(client'.view, row, owed, pubs, hub)
    BY <1>0, <2>1, <2>2, NoRowType, NothingStale DEF Stands
  <2> QED BY ZenonT(30), <1>0, <2>1, <2>2, <2>3 DEF DisplayInv, UpheldNow, Upheld
<1>4. CASE UNCHANGED vars
  BY ZenonT(30), <1>0, <1>4 DEF vars, DisplayInv, UpheldNow
<1>5. CASE Subscribe \/ ReadBarrier \/ ListRecent \/ ListNamed \/ ListCleared
  <2>1. \/ conn'.pc = "subscribed" \/ conn'.pc = "barred" \/ conn'.pc = "listed"
        \/ conn'.pc = "named" \/ conn'.pc = "ready"
    BY ZenonT(30), <1>0, <1>5 DEF Subscribe, ReadBarrier, ListRecent, ListNamed, ListCleared,
         ConnShaped
  <2> QED BY <2>1 DEF DisplayInv
<1>6. CASE Connect \/ StreamEnds \/ StreamError \/ \E r : ApiRestart(r)
  <2>1. conn'.pc = "opening" \/ conn'.pc = "closed"
    BY <1>6 DEF Connect, StreamEnds, StreamError, ApiRestart, Closed
  <2> QED BY <2>1 DEF DisplayInv
<1> QED BY ZenonT(30), <1>0, <1>1, <1>2, <1>3, <1>4, <1>5, <1>6, DeliverSnapshotUpholds,
           DeliverUpholds
        DEF Next, Environment, Progress

LEMMA UpdatesStep ==
    ASSUME EventsInv, ClearsInv, UpdatesInv, [Next]_vars
    PROVE  UpdatesInv'
<1>1. RevisionsInv
  BY DEF ClearsInv
<1> QED BY <1>1, BooksStep, CrowdStep, SummaryStep, SnapshotStep, DisplayStep DEF UpdatesInv

LEMMA InitUpdates == Init => UpdatesInv
<1> SUFFICES ASSUME Init PROVE UpdatesInv
  OBVIOUS
<1>1. /\ row = NoRow /\ client.view = NoRow /\ client.tomb = None /\ pubs = {}
      /\ conn.pc = "closed" /\ conn.active = NoRow /\ conn.recent = NoRow /\ conn.named = NoRow
      /\ conn.gone = FALSE /\ hub.buffer = <<>>
      /\ settling.turn = "nobody" /\ settling.accepted = NoRow
  BY DEF Init, Closed
<1>2. Bodies(hub) = {}
  BY <1>1 DEF Bodies
<1>3. \A a \in Versions : a = NoRow
  BY <1>1 DEF Versions
<1>4. BooksInv
  <2>1. owed \in Nat /\ owed <= row.rev
    BY DEF Init, NoRow
  <2>2. cleared \in {TRUE, FALSE} /\ crowded \in {TRUE, FALSE}
    BY DEF Init
  <2> QED BY ZenonT(30), <1>1, <1>2, <1>3, <2>1, <2>2, NoRowType DEF BooksInv
<1>5. crowded # TRUE
  BY DEF Init
<1> QED BY <1>1, <1>4, <1>5 DEF UpdatesInv, CrowdInv, SummaryInv, SnapshotInv, DisplayInv

\* No published update is lost (job_events, snapshotRevision,
\* reconcileAuthoritativeJobs): a browser whose stream is open has, of a job that
\* is not cleared, the row as it was when its snapshot began and every commit
\* since whose handler publishes it, or an update that has them is on its way,
\* for every buffer size and every order of commits, publications and snapshot
\* reads.  Of a commit that no handler publishes nothing is claimed.
THEOREM UpdatesReachBrowser == Spec => []NoUpdateLost
<1>1. ASSUME EventsInv, UpdatesInv
      PROVE  NoUpdateLost
  <2> SUFFICES ASSUME conn.pc = "live", hub.open, ~cleared, ~Agrees
               PROVE  UpdateComing
    BY DEF NoUpdateLost
  <2>1. cleared = FALSE /\ hub.open # FALSE
    BY <1>1 DEF UpdatesInv, BooksInv
  <2>2. /\ DOMAIN hub.buffer = 1 .. Len(hub.buffer)
        /\ client.snapRev \in Int /\ client.view \in RowT /\ row.rev \in Nat
        /\ owed \in Nat
    BY <1>1, RowFacts, Fields DEF EventsInv, Shapes, HubShaped, UpdatesInv, BooksInv
  <2>3. \A r \in RowT : Says(r, owed) => Tells(r)
    BY <2>2 DEF Says, Tells, RowT
  <2>4. ~Stands(client.view, row, owed, pubs, hub)
    <3>1. ~Present(row) => ~Active(client.view)
      BY <1>1 DEF UpdatesInv, BooksInv, Versions
    <3> QED BY <2>2, <2>3, <3>1 DEF Stands, Agrees
  <2>5. \/ settling.turn = "request"
        \/ \E r \in RowT : Carries(pubs, hub, client.snapRev, r) /\ Says(r, owed)
    BY ZenonT(30), <1>1, <2>1, <2>4 DEF UpdatesInv, DisplayInv, UpheldNow, Upheld
  <2>6. CASE settling.turn = "request"
    BY <2>6 DEF UpdateComing
  <2>7. ASSUME NEW r \in RowT, Carries(pubs, hub, client.snapRev, r), Tells(r)
        PROVE  UpdateComing
    <3>1. CASE \E m \in pubs : m.event = "job.updated" /\ m.row = r
      BY ZenonT(30), <2>7, <3>1 DEF UpdateComing
    <3>2. CASE \E i \in 1 .. Len(hub.buffer) :
                  /\ hub.buffer[i].body.event = "job.updated" /\ hub.buffer[i].body.row = r
                  /\ client.snapRev < hub.buffer[i].rev
      <4>1. PICK i \in 1 .. Len(hub.buffer) :
                  /\ hub.buffer[i].body.event = "job.updated" /\ hub.buffer[i].body.row = r
                  /\ client.snapRev < hub.buffer[i].rev
        BY <3>2
      <4>2. hub.buffer[i].rev > client.snapRev
        BY <4>1
      <4> QED BY ZenonT(30), <2>2, <2>7, <4>1, <4>2 DEF UpdateComing
    <3> QED BY <2>7, <3>1, <3>2 DEF Carries
  <2> QED BY <2>3, <2>5, <2>6, <2>7
<1>2. EventsInv /\ ClearsInv /\ [Next]_vars => ClearsInv'
  BY StepClears
<1>3. EventsInv /\ ClearsInv /\ UpdatesInv /\ [Next]_vars => UpdatesInv'
  BY UpdatesStep
<1> QED BY <1>1, <1>2, <1>3, InitClears, InitUpdates, Invariance, PTL DEF Spec
=============================================================================
