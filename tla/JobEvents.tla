------------------------------ MODULE JobEvents ------------------------------
(***************************************************************************)
(* One job in the live job list: the API's event hub and snapshot endpoint *)
(* (apps/rust-api/src/events.rs) and the browser's list                    *)
(* (apps/web/src/hooks/useJobEvents.js, sorters.js, appHelpers.js).        *)
(*                                                                         *)
(* A handler commits to the store and publishes only afterwards, so the    *)
(* hub's order is not the order of the commits.  The browser reopens its   *)
(* stream whenever it ends, and opening one reads the store in several     *)
(* steps while commits and publications go on.  The other jobs are here    *)
(* through what they do to this one: they take hub revisions and buffer    *)
(* slots, fill the page of recently updated rows and crowd out the oldest  *)
(* terminal rows of the browser's list.                                    *)
(***************************************************************************)
EXTENDS Integers, Sequences, FiniteSetsExt

CONSTANTS
    BufferSize, \* EVENT_BUFFER_SIZE
    MaxMoves,   \* bound: heartbeats, ticks, unpublished changes, foreign publications
    MaxFaults   \* bound: stream errors, API restarts and deferred side effects

ASSUME EventsAssumption ==
    /\ {MaxMoves, MaxFaults} \subseteq Nat
    /\ BufferSize \in Nat \ {0}

VARIABLES
    row,      \* the row of the job: its phase and its revision
    cleared,  \* its cleared_at is set
    settling, \* whose turn it is to run its terminal side effects
    pubs,     \* what handlers have committed and not published yet
    owed,     \* history: the revision an open stream owes the browser
    hub,      \* EventHub: its revision, and the buffer of the one subscriber
    conn,     \* the request in job_events, and the stream it becomes
    client,   \* what the browser holds about the job
    crowded,  \* newer terminal jobs fill the browser's list
    spent     \* bounds: moves and faults so far

storeVars == <<row, cleared, settling, pubs, owed>>
vars == <<row, cleared, settling, pubs, owed, hub, conn, client, crowded, spent>>

None == -1
NoRow == [phase |-> "absent", rev |-> 0]
Present(r) == r.phase # "absent"
Active(r) == r.phase = "active"
Terminal(r) == r.phase = "terminal"

JobUpdated(r) == [event |-> "job.updated", row |-> r]
JobsCleared == [event |-> "jobs.cleared", row |-> NoRow]
Other == [event |-> "other", row |-> NoRow]

Closed == [pc |-> "closed", changed |-> FALSE, active |-> NoRow, barrier |-> 0,
           recent |-> NoRow, named |-> NoRow, gone |-> FALSE]

Init ==
    /\ row = NoRow
    /\ cleared = FALSE
    /\ settling = [turn |-> "nobody", accepted |-> NoRow]
    /\ pubs = {}
    /\ owed = 0
    /\ hub = [rev |-> 0, open |-> FALSE, buffer |-> <<>>]
    /\ conn = Closed
    /\ client = [view |-> NoRow, tomb |-> None, applied |-> None, snapRev |-> 0,
                 known |-> "absent", ran |-> {}, again |-> {}]
    /\ crowded = FALSE
    /\ spent = [moves |-> 0, faults |-> 0]

-----------------------------------------------------------------------------
(* The handlers that change the row: commit, then publish                  *)

\* One committed UPDATE: the trigger advances the revision.
Bumped(phase) == [phase |-> phase, rev |-> row.rev + 1]

\* The list of recently updated rows has the row if it changes meanwhile.
Touched ==
    IF conn.pc \in {"subscribed", "barred"} THEN [conn EXCEPT !.changed = TRUE] ELSE conn

Commit(r) ==
    /\ row' = r
    /\ conn' = Touched
    /\ UNCHANGED <<cleared, hub, client, crowded>>

\* A commit of a handler that goes on to publish it.
CommitAnnounced(r) == Commit(r) /\ owed' = r.rev

CreateJob ==
    LET r == [phase |-> "active", rev |-> 0]
    IN /\ ~Present(row)
       /\ CommitAnnounced(r)
       /\ pubs' = pubs \cup {JobUpdated(r)}
       /\ UNCHANGED <<settling, spent>>

Spends == spent.moves < MaxMoves /\ spent' = [spent EXCEPT !.moves = @ + 1]

\* A progress tick, or a transition that owes no side effects (a cancel, the
\* stale sweep).
UpdateJob(phase) ==
    /\ Active(row)
    /\ IF phase = "active" THEN Spends ELSE UNCHANGED spent
    /\ CommitAnnounced(Bumped(phase))
    /\ pubs' = pubs \cup {JobUpdated(Bumped(phase))}
    /\ UNCHANGED settling

\* The same, and the handler returns before it publishes: the asset writes of a
\* progress tick fail, a claim fails after its sweeps have failed the job, a
\* cancel's cascade fails, or a workflow drops the child it could not link.
UpdateUnpublished(phase) ==
    /\ Active(row) /\ Spends
    /\ Commit(Bumped(phase))
    /\ UNCHANGED <<settling, pubs, owed>>

\* heartbeat_worker stamps the row of the job it names, whatever its status, and
\* publishes nothing.
Heartbeat ==
    /\ Present(row) /\ Spends
    /\ Commit(Bumped(row.phase))
    /\ UNCHANGED <<settling, pubs, owed>>

\* update_job_progress accepts a terminal report; its side effects come next
\* and nothing is published before them.
AcceptTerminal ==
    /\ Active(row)
    /\ CommitAnnounced(Bumped("terminal"))
    /\ settling' = [turn |-> "request", accepted |-> Bumped("terminal")]
    /\ UNCHANGED <<pubs, spent>>

Settled(turn) == settling' = [turn |-> turn, accepted |-> NoRow]

\* replace_job_result_after_progress, by the request or by the recovery loop.
SettleEffects(who) ==
    /\ who = settling.turn \/ (who = "loop" /\ settling.turn = "request")
    /\ who \in {"request", "loop"}
    /\ CommitAnnounced(Bumped("terminal"))
    /\ pubs' = pubs \cup {JobUpdated(Bumped("terminal"))}
    /\ Settled(IF who # settling.turn THEN "answer" ELSE "nobody")
    /\ UNCHANGED spent

\* The request finds the work done: it reads the row and answers with it.
AnswerTerminal ==
    /\ settling.turn = "answer"
    /\ pubs' = pubs \cup {JobUpdated(row)}
    /\ Settled("nobody")
    /\ UNCHANGED <<row, cleared, owed, hub, conn, client, crowded, spent>>

\* The side effects fail: the accepted row is published, the loop retries.
EffectsFail ==
    /\ settling.turn = "request"
    /\ pubs' = pubs \cup {JobUpdated(settling.accepted)}
    /\ Settled("loop")
    /\ UNCHANGED <<row, cleared, owed, hub, conn, client, crowded, spent>>

\* The side effects fail in the loop: the next attempt is put off, in the row.
EffectsDeferred ==
    /\ settling.turn \in {"request", "loop"} /\ spent.faults < MaxFaults
    /\ row' = Bumped("terminal")
    /\ spent' = [spent EXCEPT !.faults = @ + 1]
    /\ UNCHANGED <<cleared, settling, pubs, owed, hub, conn, client, crowded>>

\* clear_job and clear_terminal_jobs; updated_at stays as it is.
ClearJobs ==
    /\ Terminal(row) /\ ~cleared
    /\ row' = Bumped("terminal")
    /\ cleared' = TRUE
    /\ pubs' = pubs \cup {JobsCleared}
    /\ UNCHANGED <<settling, owed, hub, conn, client, crowded, spent>>

-----------------------------------------------------------------------------
(* The event hub                                                           *)

\* Mutated: a full buffer drops the event and keeps the stream.
SentDropping(m) ==
    LET rev == hub.rev + 1
        fits == hub.open /\ Len(hub.buffer) < BufferSize
    IN [rev |-> rev, open |-> hub.open,
        buffer |-> IF fits THEN Append(hub.buffer, [rev |-> rev, body |-> m])
                           ELSE hub.buffer]

\* EventHub::publish: a subscriber whose buffer is full is dropped, and its
\* stream ends after what it still holds.
Sent(m) ==
    LET rev == hub.rev + 1
        fits == hub.open /\ Len(hub.buffer) < BufferSize
    IN [rev |-> rev, open |-> fits,
        buffer |-> IF fits THEN Append(hub.buffer, [rev |-> rev, body |-> m])
                           ELSE hub.buffer]

Publish(m) ==
    /\ pubs' = pubs \ {m}
    /\ hub' = Sent(m)
    /\ UNCHANGED <<row, cleared, settling, owed, conn, client, crowded, spent>>

PublishOther ==
    /\ Spends
    /\ hub' = Sent(Other)
    /\ UNCHANGED <<storeVars, conn, client, crowded>>

-----------------------------------------------------------------------------
(* job_events: the snapshot of a new stream                                *)

Listed == IF cleared THEN NoRow ELSE row

\* The subscription, then the queue summary, which has every live row.  What
\* is published between the two lies below the barrier and is dropped.
Subscribe ==
    /\ conn.pc = "opening"
    /\ hub' = [hub EXCEPT !.open = TRUE, !.buffer = <<>>]
    /\ conn' = [conn EXCEPT !.pc = "subscribed",
                            !.active = IF Active(row) THEN row ELSE NoRow]
    /\ owed' = row.rev
    /\ UNCHANGED <<row, cleared, settling, pubs, client, crowded, spent>>

ReadBarrier ==
    /\ conn.pc = "subscribed"
    /\ conn' = [conn EXCEPT !.pc = "barred", !.barrier = hub.rev]
    /\ UNCHANGED <<storeVars, hub, client, crowded, spent>>

\* It takes MAX_LISTED_JOBS updates of other jobs to crowd a row out of a list,
\* longer than an update of this one stays on its way.
CanCrowdOut ==
    /\ \A m \in pubs : m.event # "job.updated"
    /\ \A i \in DOMAIN hub.buffer : hub.buffer[i].body.event # "job.updated"

\* list_jobs_recently_updated: a page of the rows last updated.  It has the row
\* if it changed since the summary; an older row may be crowded out.
ListRecent ==
    /\ conn.pc = "barred"
    /\ \E r \in {Listed} \cup (IF CanCrowdOut /\ ~conn.changed THEN {NoRow} ELSE {}) :
          conn' = [conn EXCEPT !.pc = "listed", !.changed = FALSE, !.recent = r]
    /\ UNCHANGED <<storeVars, hub, client, crowded, spent>>

\* list_existing_jobs_by_ids, over the jobs the ticket names as live.
ListNamed ==
    /\ conn.pc = "listed"
    /\ conn' = [conn EXCEPT !.pc = "named",
                            !.named = IF client.known = "active" THEN Listed ELSE NoRow]
    /\ UNCHANGED <<storeVars, hub, client, crowded, spent>>

\* Mutated: over the jobs named as live only.
ListClearedOfLive ==
    /\ conn.pc = "named"
    /\ conn' = [conn EXCEPT !.pc = "ready", !.gone = cleared /\ client.known = "active"]
    /\ UNCHANGED <<storeVars, hub, client, crowded, spent>>

\* cleared_job_ids_by_ids, over every job the ticket names.
ListCleared ==
    /\ conn.pc = "named"
    /\ conn' = [conn EXCEPT !.pc = "ready",
                            !.gone = cleared /\ client.known # "absent"]
    /\ UNCHANGED <<storeVars, hub, client, crowded, spent>>

\* Mutated: the rows of the summary, taken before the barrier, come first.
SnapshotActiveFirst ==
    IF Present(conn.active) THEN conn.active
    ELSE IF Present(conn.recent) THEN conn.recent
    ELSE conn.named

\* The row the snapshot has: the first of the three lists that has one.
Snapshot ==
    IF Present(conn.recent) THEN conn.recent
    ELSE IF Present(conn.active) THEN conn.active
    ELSE conn.named

-----------------------------------------------------------------------------
(* The browser's job list                                                  *)

\* Mutated: an update is taken as it comes.
AcceptsAny(current, r) == TRUE

\* acceptsJobUpdate: by the durable revision, then by updated_at, which does
\* not decrease as the revision of a row grows.
Accepts(current, r) == Present(current) => current.rev <= r.rev

\* capTerminalJobs: every live job is kept, and the newest terminal ones.
Cap(r) == IF Terminal(r) /\ crowded THEN NoRow ELSE r

\* setJobs, with pruneAppliedTerminalRevisions.  Two history variables follow
\* the row while it is on display: ran, the terminal revisions whose effects have
\* run or are old news, and again, those whose effects ran once more.
Shown(c, r) ==
    IF Present(r) THEN [c EXCEPT !.view = r]
    ELSE [c EXCEPT !.view = NoRow, !.applied = None, !.ran = {}, !.again = {}]

\* The effects of a terminal row: catalogs refreshed, timeline, notices.
RunEffects(c, r) ==
    [c EXCEPT !.ran = @ \cup {r.rev}, !.again = @ \cup (c.ran \cap {r.rev})]

ApplyJobUpdate(c, r) ==
    LET noted == IF Terminal(r) THEN [c EXCEPT !.applied = Max({@, r.rev})] ELSE c
        run == IF Terminal(r) /\ c.applied < r.rev THEN RunEffects(noted, r) ELSE noted
    IN IF c.tomb # None \/ ~Accepts(c.view, r) THEN c ELSE Shown(run, Cap(r))

HandleJobUpdated(c, rev, r) == IF rev <= c.snapRev THEN c ELSE ApplyJobUpdate(c, r)

\* A clear is remembered for a job on display, named by the ticket, or already
\* remembered.
HandleJobsCleared(c, rev) ==
    LET concerns == Present(c.view) \/ c.known # "absent" \/ c.tomb # None
    IN IF rev <= c.snapRev THEN c
       ELSE Shown([c EXCEPT !.tomb = IF concerns THEN rev ELSE None], NoRow)

\* reconcileAuthoritativeJobs: a live row the snapshot does not have is gone,
\* a terminal one is kept, a row of both is decided by its revision.
Reconcile(view, snap) ==
    IF Present(snap) THEN (IF Accepts(view, snap) THEN snap ELSE view)
    ELSE IF Terminal(view) THEN view ELSE NoRow

\* Mutated: no terminal row of a snapshot is noted.
SeedNothing(c, snap, missed) == c

\* Mutated: every one is, a transition the browser missed included.
SeedAll(c, snap, missed) ==
    IF Terminal(snap) THEN [c EXCEPT !.applied = Max({@, snap.rev})] ELSE c

\* The revision of a terminal row that is history, not a transition, is noted
\* so that a late publication does not replay its effects.
Seed(c, snap, missed) ==
    IF Terminal(snap) /\ ~missed THEN [c EXCEPT !.applied = Max({@, snap.rev})] ELSE c

\* History: a terminal row that was not live on display before is old news, and
\* its effects are due no more.
Aged(before, c) ==
    IF Terminal(c.view) /\ ~Active(before.view) THEN [c EXCEPT !.ran = @ \cup {c.view.rev}]
    ELSE c

\* A clear that is later than the barrier of the snapshot outlives it.
ClearedLater(c) == c.tomb # None /\ (conn.barrier = 0 \/ c.tomb > conn.barrier)

\* The tombstone after the snapshot: else it is replaced by the snapshot's.
TombAfter(c) ==
    IF ClearedLater(c) THEN c.tomb ELSE IF conn.gone THEN conn.barrier ELSE None

\* Reconcile, note what is history, and apply a transition the browser missed as
\* an update, so that its effects run.
ShowSnapshot(c, snap) ==
    LET missed == Active(c.view) /\ Terminal(snap) /\ Accepts(c.view, snap)
        shown == Shown(Seed(c, snap, missed), Cap(Reconcile(c.view, snap)))
    IN Aged(c, IF missed THEN ApplyJobUpdate(shown, snap) ELSE shown)

HandleJobsSnapshot(c) ==
    LET barred == [c EXCEPT !.snapRev = Max({@, conn.barrier}), !.tomb = TombAfter(c)]
    IN IF barred.tomb # None THEN Shown(barred, NoRow) ELSE ShowSnapshot(barred, Snapshot)

\* connect: the job goes with the ticket if it is on display.
Connect ==
    /\ conn.pc = "closed"
    /\ conn' = [Closed EXCEPT !.pc = "opening"]
    /\ client' = [client EXCEPT !.known = IF client.tomb = None THEN client.view.phase
                                                                ELSE "absent",
                                !.snapRev = 0]
    /\ UNCHANGED <<storeVars, hub, crowded, spent>>

DeliverSnapshot ==
    /\ conn.pc = "ready"
    /\ client' = HandleJobsSnapshot(client)
    /\ conn' = [Closed EXCEPT !.pc = "live"]
    /\ UNCHANGED <<storeVars, hub, crowded, spent>>

Deliver ==
    /\ conn.pc = "live" /\ hub.buffer # <<>>
    /\ LET rev == Head(hub.buffer).rev
           m == Head(hub.buffer).body
       IN client' = CASE m.event = "job.updated" -> HandleJobUpdated(client, rev, m.row)
                      [] m.event = "jobs.cleared" -> HandleJobsCleared(client, rev)
                      [] OTHER -> client
    /\ hub' = [hub EXCEPT !.buffer = Tail(@)]
    /\ UNCHANGED <<storeVars, conn, crowded, spent>>

\* The hub dropped this subscriber: its stream ends, and onerror follows.
StreamEnds ==
    /\ conn.pc = "live" /\ ~hub.open /\ hub.buffer = <<>>
    /\ conn' = Closed
    /\ UNCHANGED <<storeVars, hub, client, crowded, spent>>

\* Newer terminal jobs come to fill the list after this one ended.
CrowdOut ==
    /\ CanCrowdOut /\ Terminal(row) /\ ~crowded
    /\ crowded' = TRUE
    /\ client' = IF Terminal(client.view) THEN Shown(client, NoRow) ELSE client
    /\ UNCHANGED <<storeVars, hub, conn, spent>>

-----------------------------------------------------------------------------
(* Faults                                                                  *)

\* The connection breaks: the request or the stream is dropped with what it
\* holds, its subscription included.
StreamError ==
    /\ conn.pc # "closed" /\ spent.faults < MaxFaults
    /\ conn' = Closed
    /\ hub' = [hub EXCEPT !.open = FALSE, !.buffer = <<>>]
    /\ spent' = [spent EXCEPT !.faults = @ + 1]
    /\ UNCHANGED <<storeVars, client, crowded>>

\* The API restarts: its handlers die between commit and publication, the hub
\* counts from zero, and the store's startup may interrupt a live row without
\* publishing anything.
ApiRestart(r) ==
    /\ spent.faults < MaxFaults
    /\ row' = r
    /\ Settled(IF settling.turn \in {"request", "loop"} THEN "loop" ELSE "nobody")
    /\ pubs' = {}
    /\ hub' = [rev |-> 0, open |-> FALSE, buffer |-> <<>>]
    /\ conn' = Closed
    /\ spent' = [spent EXCEPT !.faults = @ + 1]
    /\ UNCHANGED <<cleared, owed, client, crowded>>

-----------------------------------------------------------------------------

\* What is asked of the API, and what goes wrong.
Environment ==
    \/ CreateJob
    \/ \E phase \in {"active", "terminal"} : UpdateJob(phase) \/ UpdateUnpublished(phase)
    \/ Heartbeat
    \/ AcceptTerminal
    \/ EffectsFail \/ EffectsDeferred
    \/ ClearJobs
    \/ PublishOther
    \/ CrowdOut
    \/ StreamError
    \/ \E r \in {row} \cup (IF Active(row) THEN {Bumped("terminal")} ELSE {}) : ApiRestart(r)

\* What the API and the browser do by themselves.
Progress ==
    \/ \E who \in {"request", "loop"} : SettleEffects(who)
    \/ AnswerTerminal
    \/ \E m \in pubs : Publish(m)
    \/ Subscribe \/ ReadBarrier \/ ListRecent \/ ListNamed \/ ListCleared
    \/ Connect \/ DeliverSnapshot \/ Deliver \/ StreamEnds

Next == Environment \/ Progress

Spec == Init /\ [][Next]_vars

\* Handlers run to their end, streams are read and reopened.
FairSpec == Spec /\ WF_vars(Progress)

-----------------------------------------------------------------------------
(* Properties                                                              *)

\* A row on display is never replaced by an older revision of it, whatever the
\* order of publications, snapshots, reconnects and restarts
\* (acceptsJobUpdate, reconcileAuthoritativeJobs).
NeverRegresses ==
    [][Present(client.view) /\ Present(client'.view)
          => client.view.rev <= client'.view.rev]_vars

\* While a row stays on display, the effects of one terminal revision of it run
\* once, and not at all if a snapshot brought it as history, although several
\* publications may still carry it (appliedTerminalRevisionByJob).
EffectsOnce == client.again = {}

\* A live row that turns terminal on display runs its effects in that step,
\* also when the transition happened while the browser was disconnected
\* (missedTerminalTransitions).
TransitionRuns ==
    [][Active(client.view) /\ Terminal(client'.view)
          => client'.view.rev \in client'.ran]_vars

\* The clear has not reached the browser yet.
ClearComing ==
    \/ JobsCleared \in pubs
    \/ \E i \in DOMAIN hub.buffer :
          hub.buffer[i].body = JobsCleared /\ hub.buffer[i].rev > client.snapRev

\* A job the browser named when it connected and that has been cleared is off
\* its list once the snapshot is in, unless the clear is still on its way or the
\* stream is about to end: a later publication of the row does not bring it
\* back (clearedJobRevisionById, cleared_job_ids_by_ids).
KnownClearsHold ==
    cleared /\ client.known # "absent" /\ conn.pc = "live" /\ Present(client.view)
    => ClearComing \/ ~hub.open

\* Row r has what an open stream owes the browser: the job as it was when the
\* stream's snapshot began, and every later commit whose handler publishes it.
\* A heartbeat, a deferral and an UpdateUnpublished are owed by the next stream
\* only.
Tells(r) == Present(r) /\ (Active(r) => owed <= r.rev)

\* The browser has that of a job that it or the store holds for live.
Agrees == Active(row) \/ Active(client.view) => Tells(client.view)

\* An update that has it is on its way to the browser, or is published once the
\* request has tried the side effects of the job's end.
UpdateComing ==
    \/ settling.turn = "request"
    \/ \E m \in pubs : m.event = "job.updated" /\ Tells(m.row)
    \/ \E i \in DOMAIN hub.buffer :
          /\ hub.buffer[i].body.event = "job.updated"
          /\ hub.buffer[i].rev > client.snapRev
          /\ Tells(hub.buffer[i].body.row)

\* No update that is published, and nothing a snapshot ought to have, is lost
\* between the snapshot and the events after it: a browser whose stream is open
\* has what it is owed or is going to be told, whatever was published between
\* the reads of its snapshot, below its barrier or out of order (job_events,
\* snapshotRevision, reconcileAuthoritativeJobs).  A commit that no handler
\* publishes stays unknown to it for as long as the stream lasts.
NoUpdateLost == conn.pc = "live" /\ hub.open /\ ~cleared => Agrees \/ UpdateComing

\* When the job stops changing, the browser comes to have what it is owed for
\* good.  An event lost to a full buffer, a broken stream or a restart is made up
\* by the next snapshot, which has the commits nobody published as well
\* (EventHub::publish, job_events).
Converges == <>[](~cleared => Agrees)
=============================================================================
