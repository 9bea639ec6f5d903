--------------------------- MODULE VectorWorkflow ----------------------------
(***************************************************************************)
(* The composed prompt-to-vector workflow (generation.rs): a parent job    *)
(* that no worker may claim until an ordinary raster child has produced    *)
(* its source image.  Three kinds of API tasks share the rows with the     *)
(* workers: the request handler that creates parent and child and links    *)
(* them, the coordinator that watches the child and promotes the parent,   *)
(* and cancel handlers that cascade to the child and purge the image.      *)
(* Each store call is an action of its own, and the API process may stop   *)
(* and start again between any two of them.  After a start a recovery task *)
(* gives every unfinished parent a coordinator; it runs beside the request *)
(* handlers, so a parent may come to have two.                             *)
(*                                                                         *)
(* A parent's payload is abstracted to what has been attached to it:       *)
(* bare, linked (childJobId) or resolved (intermediateAssetId as well).    *)
(***************************************************************************)
EXTENDS JobsStore

CONSTANTS
    MaxRestarts   \* bound on API restarts

VARIABLES
    creator,    \* parent -> its creating handler: none, created, linking, unlinking
    childOf,    \* parent -> its raster child
    coord,      \* parent and spawner -> its coordinator: none, watch, prepared,
                \* promoting, abandoning, ending, cleaning
    cascade,    \* parent -> its cancel handler: place and snapshot of the payload
    asset,      \* child -> its image: none, published, purged or restored
    named,      \* child -> its result has the image's id (assetIds)
    tick,       \* child -> a progress request has the image still to write
    recovering, \* the recovery task of this process has not listed the parents yet
    doubled,    \* parents that ever had two coordinators (history)
    restarts    \* API restarts so far

imageVars == <<asset, named, tick>>
apiVars == <<recovering, doubled, restarts>>
flowVars == <<creator, childOf, coord, cascade, asset, named, tick, recovering, doubled, restarts>>
wfVars == <<jobs, workers, nextRow, creator, childOf, coord, cascade, asset, named, tick,
            recovering, doubled, restarts>>

\* Who spawns a coordinator: the handler that links the child, the recovery task.
Spawners == {"handler", "recovery"}

ASSUME WorkflowAssumption ==
    /\ Shapes = {"vector", "image"}
    /\ Payloads = {"bare", "linked", "resolved"} /\ NewPayload = "bare"
    /\ MaxRestarts \in Nat

NoCoords == [k \in Spawners |-> "none"]
NoCascade == [at |-> "none", seen |-> "bare"]

WorkflowInit ==
    /\ Init
    /\ creator = [p \in JobIds |-> "none"]
    /\ childOf = [p \in JobIds |-> NoJob]
    /\ coord = [p \in JobIds |-> NoCoords]
    /\ cascade = [p \in JobIds |-> NoCascade]
    /\ asset = [c \in JobIds |-> "none"]
    /\ named = [c \in JobIds |-> FALSE]
    /\ tick = [c \in JobIds |-> FALSE]
    /\ recovering = TRUE
    /\ doubled = {}
    /\ restarts = 0

Parents == {p \in Rows : jobs[p].shape = "vector"}
Waiting(p) == jobs[p].status = "pending_workflow"
Child(p) == jobs[childOf[p]]

\* The image is there: written once, or written again after a purge.
HasImage(c) == asset[c] \in {"published", "restored"}

\* purge_vector_workflow_intermediate of p's image, if there is one.
PurgeImage(p) ==
    asset' = [asset EXCEPT ![childOf[p]] = IF @ = "none" THEN @ ELSE "purged"]

\* persist_generated_asset writes the image whatever became of an earlier copy.
WriteImage(c) ==
    asset' = [asset EXCEPT ![c] = IF @ \in {"none", "published"} THEN "published" ELSE "restored"]

-----------------------------------------------------------------------------
(* create_vector_prompt_workflow_internal *)

CreateParent ==
    /\ CreateJob("vector", AutoGpu, "pending_workflow")
    /\ creator' = [creator EXCEPT ![nextRow] = "created"]
    /\ UNCHANGED <<childOf, coord, cascade, imageVars, apiVars>>

CreateChild(p) ==
    /\ creator[p] = "created"
    /\ CreateJob("image", AutoGpu, "queued")
    /\ creator' = [creator EXCEPT ![p] = "linking"]
    /\ childOf' = [childOf EXCEPT ![p] = nextRow]
    /\ UNCHANGED <<coord, cascade, imageVars, apiVars>>

\* create_image_job refuses the raster request: the parent is failed.
ChildRefused(p) ==
    /\ creator[p] = "created"
    /\ IF Waiting(p) THEN TerminateWorkflow(p, "failed") ELSE UNCHANGED vars
    /\ creator' = [creator EXCEPT ![p] = "none"]
    /\ UNCHANGED <<childOf, coord, cascade, imageVars, apiVars>>

\* Attach the child id and start the coordinator; or, if a cancel came first,
\* go on to cancel the child.
LinkChild(p) ==
    /\ creator[p] = "linking"
    /\ IF Waiting(p)
       THEN /\ UpdateWorkflowPayload(p, "linked")
            /\ creator' = [creator EXCEPT ![p] = "none"]
            /\ coord' = [coord EXCEPT ![p]["handler"] = "watch"]
            /\ doubled' = doubled \cup {q \in {p} : coord[q]["recovery"] # "none"}
       ELSE /\ creator' = [creator EXCEPT ![p] = "unlinking"]
            /\ UNCHANGED <<vars, coord, doubled>>
    /\ UNCHANGED <<childOf, cascade, imageVars, recovering, restarts>>

\* store.cancel_job, which leaves a terminal job alone.
CancelRow(j) == IF IsTerminal(jobs[j]) THEN UNCHANGED vars ELSE CancelJob(j)

CancelUnlinkedChild(p) ==
    /\ creator[p] = "unlinking"
    /\ CancelRow(childOf[p])
    /\ creator' = [creator EXCEPT ![p] = "none"]
    /\ UNCHANGED <<childOf, coord, cascade, imageVars, apiVars>>

-----------------------------------------------------------------------------
(* run_vector_prompt_workflow_coordinator: p's coordinator spawned by k *)

Goes(p, k, place) == coord' = [coord EXCEPT ![p][k] = place]

\* The child's id is in the parent's payload, so the coordinator can watch it.
Watches(p, k) == coord[p][k] = "watch" /\ Waiting(p) /\ jobs[p].payload # "bare"

PrepareAnyTerminal(p, k) ==
    /\ Watches(p, k)
    /\ IsTerminal(Child(p))
    /\ Goes(p, k, "prepared")
    /\ UNCHANGED <<vars, creator, childOf, cascade, imageVars, apiVars>>

\* The child's asset is in its result, and prepare_vector_parent_from_intermediate
\* validates and retains it.
Prepare(p, k) ==
    /\ Watches(p, k)
    /\ Child(p).status = "completed" /\ named[childOf[p]]
    /\ HasImage(childOf[p])
    /\ Goes(p, k, "prepared")
    /\ UNCHANGED <<vars, creator, childOf, cascade, imageVars, apiVars>>

\* First transaction of promote_pending_workflow_job.
PromotePayload(p, k) ==
    /\ coord[p][k] = "prepared"
    /\ IF Waiting(p)
       THEN UpdateWorkflowPayload(p, "resolved") /\ Goes(p, k, "promoting")
       ELSE UNCHANGED vars /\ Goes(p, k, "abandoning")
    /\ UNCHANGED <<creator, childOf, cascade, imageVars, apiVars>>

PromoteUnguarded(p, k) ==
    /\ coord[p][k] = "promoting"
    /\ jobs' = UpdateRows({p}, Enqueued)
    /\ Goes(p, k, "watch")
    /\ UNCHANGED <<workers, nextRow, creator, childOf, cascade, imageVars, apiVars>>

\* Second transaction of promote_pending_workflow_job.
Promote(p, k) ==
    /\ coord[p][k] = "promoting"
    /\ IF Waiting(p)
       THEN EnqueueWorkflow(p) /\ Goes(p, k, "watch")
       ELSE UNCHANGED vars /\ Goes(p, k, "abandoning")
    /\ UNCHANGED <<creator, childOf, cascade, imageVars, apiVars>>

\* The promotion changed nothing: the coordinator purges the image it holds, taking
\* it that a cancel came first.
AbandonImage(p, k) ==
    /\ coord[p][k] = "abandoning"
    /\ PurgeImage(p)
    /\ Goes(p, k, "none")
    /\ UNCHANGED <<vars, creator, childOf, cascade, named, tick, apiVars>>

VerdictOfFailure(p) ==
    IF Child(p).status \in {"failed", "interrupted", "completed"} THEN {"failed"} ELSE {}

\* How the parent ends when no promotion is possible: the child failed, was
\* interrupted or canceled, completed without an asset for 300 polls, or the
\* vector stage became unavailable.
Verdict(p) ==
    CASE Child(p).status \in {"failed", "interrupted", "completed"} -> {"failed"}
      [] Child(p).status = "canceled" -> {"canceled"}
      [] OTHER -> {}

GiveUp(p, k) ==
    /\ Watches(p, k)
    /\ Verdict(p) # {}
    /\ Goes(p, k, "ending")
    /\ UNCHANGED <<vars, creator, childOf, cascade, imageVars, apiVars>>

\* terminate_vector_prompt_parent; a parent that waits no more is left as it is.
EndParent(p, k) ==
    /\ coord[p][k] = "ending"
    /\ IF Waiting(p)
       THEN \E status \in Verdict(p) : TerminateWorkflow(p, status)
       ELSE UNCHANGED vars
    /\ Goes(p, k, "cleaning")
    /\ UNCHANGED <<creator, childOf, cascade, imageVars, apiVars>>

\* cleanup_vector_prompt_intermediate: the image named in the parent's payload.
CleanUp(p, k) ==
    /\ coord[p][k] = "cleaning"
    /\ IF jobs[p].payload = "resolved" THEN PurgeImage(p) ELSE UNCHANGED asset
    /\ Goes(p, k, "none")
    /\ UNCHANGED <<vars, creator, childOf, cascade, named, tick, apiVars>>

FinishWatchOfDispatched(p, k) ==
    /\ coord[p][k] = "watch"
    /\ ~Waiting(p)
    /\ Goes(p, k, IF jobs[p].status = "completed" THEN "none" ELSE "cleaning")
    /\ UNCHANGED <<vars, creator, childOf, cascade, imageVars, apiVars>>

\* A terminal parent ends the coordinator; unless it completed, the image is
\* cleaned up first.
FinishWatch(p, k) ==
    /\ coord[p][k] = "watch"
    /\ IsTerminal(jobs[p])
    /\ Goes(p, k, IF jobs[p].status = "completed" THEN "none" ELSE "cleaning")
    /\ UNCHANGED <<vars, creator, childOf, cascade, imageVars, apiVars>>

-----------------------------------------------------------------------------
(* cancel_job and cascade_cancel_vector_prompt_workflow *)

\* The handler keeps the snapshot the store returns, whatever the job's status.
CancelParent(p) ==
    /\ cascade[p].at = "none"
    /\ CancelRow(p)
    /\ cascade' = [cascade EXCEPT ![p] =
        IF jobs[p].payload = "bare" THEN NoCascade
        ELSE [at |-> "child", seen |-> jobs[p].payload]]
    /\ UNCHANGED <<creator, childOf, coord, imageVars, apiVars>>

CascadeToChild(p) ==
    /\ cascade[p].at = "child"
    /\ CancelRow(childOf[p])
    /\ cascade' = [cascade EXCEPT ![p] =
        IF @.seen = "resolved" THEN [@ EXCEPT !.at = "purge"] ELSE NoCascade]
    /\ UNCHANGED <<creator, childOf, coord, imageVars, apiVars>>

CascadePurge(p) ==
    /\ cascade[p].at = "purge"
    /\ PurgeImage(p)
    /\ cascade' = [cascade EXCEPT ![p] = NoCascade]
    /\ UNCHANGED <<vars, creator, childOf, coord, named, tick, apiVars>>

CancelChild(c) ==
    /\ jobs[c].shape = "image"
    /\ CancelJob(c)
    /\ UNCHANGED flowVars

-----------------------------------------------------------------------------
(* Workers, progress side effects and the API process *)

Register(w) == w \notin Registered /\ RegisterWorker(w) /\ UNCHANGED flowVars

Claim(w) == ClaimNextJob(w) /\ UNCHANGED flowVars

\* Progress; a report of a raster that is not terminal may carry its image already,
\* which the request handler writes after the report was accepted.
Report(w, j) ==
    /\ \E status \in Reports :
        /\ UpdateJobProgress(w, j, status)
        /\ \/ UNCHANGED tick
           \/ /\ jobs[j].shape = "image" /\ status \notin TerminalStatuses
              /\ tick' = [tick EXCEPT ![j] = TRUE]
    /\ UNCHANGED <<creator, childOf, coord, cascade, asset, named, apiVars>>

\* The worker's supervisor reports an abnormal exit.
Terminated(w) == w \in Registered /\ FailWorkerJobTerminated(w) /\ UNCHANGED flowVars

\* The handler of such a report writes the image and adds its id to the result, unless
\* another report of the job was accepted since.
PublishTick(c) ==
    /\ tick[c]
    /\ tick' = [tick EXCEPT ![c] = FALSE]
    /\ WriteImage(c)
    /\ \/ UNCHANGED named
       \/ IsActive(jobs[c]) /\ named' = [named EXCEPT ![c] = TRUE]
    /\ UNCHANGED <<vars, creator, childOf, coord, cascade, apiVars>>

\* The API finishes the side effects of a terminal report: the images it carries, or
\* the row kept from earlier reports, are written, and owned by the workflow from
\* their first write.
PublishAsset(c) ==
    /\ FinishSideEffects(c)
    /\ \/ UNCHANGED <<asset, named>>
       \/ jobs[c].shape = "image" /\ WriteImage(c) /\ named' = [named EXCEPT ![c] = TRUE]
    /\ UNCHANGED <<creator, childOf, coord, cascade, tick, apiVars>>

\* The process ends with all its tasks, and a new one starts.
RestartApi ==
    /\ restarts < MaxRestarts
    /\ Startup({})
    /\ restarts' = restarts + 1
    /\ creator' = [p \in JobIds |-> "none"]
    /\ cascade' = [p \in JobIds |-> NoCascade]
    /\ coord' = [p \in JobIds |-> NoCoords]
    /\ tick' = [c \in JobIds |-> FALSE]
    /\ recovering' = TRUE
    /\ UNCHANGED <<childOf, asset, named, doubled>>

\* The recovery task gives listed parents a coordinator, also those that were created
\* since the process started and have one of their handler.
Resume(listed) ==
    /\ recovering
    /\ recovering' = FALSE
    /\ coord' = [p \in JobIds |->
        IF p \in listed THEN [coord[p] EXCEPT !["recovery"] = "watch"] ELSE coord[p]]
    /\ doubled' = doubled \cup {p \in listed : coord[p]["handler"] # "none"}
    /\ UNCHANGED <<vars, creator, childOf, cascade, imageVars, restarts>>

RecoverWaiting == Resume({p \in Parents : Waiting(p)})

\* spawn_vector_prompt_workflow_recovery lists every parent that has not completed.
Recover == Resume({p \in Parents : jobs[p].status # "completed"})

-----------------------------------------------------------------------------
CoordStep(p, k) ==
    \/ Prepare(p, k) \/ PromotePayload(p, k) \/ Promote(p, k) \/ AbandonImage(p, k)
    \/ GiveUp(p, k) \/ EndParent(p, k) \/ CleanUp(p, k) \/ FinishWatch(p, k)

TaskStep(p) ==
    \/ CreateChild(p) \/ ChildRefused(p) \/ LinkChild(p) \/ CancelUnlinkedChild(p)
    \/ \E k \in Spawners : CoordStep(p, k)
    \/ CascadeToChild(p) \/ CascadePurge(p)

WorkflowNext ==
    \/ CreateParent
    \/ \E p \in Parents : TaskStep(p) \/ CancelParent(p)
    \/ \E c \in Rows : CancelChild(c) \/ PublishTick(c) \/ PublishAsset(c)
    \/ \E w \in Workers : Register(w) \/ Claim(w) \/ Terminated(w)
    \/ \E w \in Workers, j \in Rows : Report(w, j)
    \/ RestartApi
    \/ Recover

\* A running task always gets on with its next store call, workers poll and
\* their job functions return, and the recovery loop finishes side effects.
WorkflowFairness ==
    /\ \A p \in JobIds :
        /\ WF_wfVars(p \in Parents /\ (CreateChild(p) \/ ChildRefused(p) \/ LinkChild(p)))
        /\ \A k \in Spawners : WF_wfVars(p \in Parents /\ CoordStep(p, k))
        /\ WF_wfVars(p \in Rows /\ PublishAsset(p))
        /\ \A w \in Workers :
            WF_wfVars(p \in Rows /\ Report(w, p) /\ IsTerminal(jobs'[p]))
    /\ \A w \in Workers : WF_wfVars(Register(w)) /\ WF_wfVars(Claim(w))
    /\ WF_wfVars(Recover)

WorkflowSpec == WorkflowInit /\ [][WorkflowNext]_wfVars /\ WorkflowFairness

-----------------------------------------------------------------------------
(* Properties *)

Dispatched(p) == IsQueued(jobs[p]) \/ IsActive(jobs[p])

\* "No incomplete parent payload can pass this boundary, and a concurrent cancel
\* cannot be resurrected": a parent that is claimable, running or completed has
\* its image resolved from a child that completed, however the promotion's two
\* transactions interleave with cancels, failures and API restarts.
PromotedWhole ==
    \A p \in Parents : Dispatched(p) \/ jobs[p].status = "completed" =>
        jobs[p].payload = "resolved" /\ Child(p).status = "completed"

\* No cleanup takes the source image from a parent that is still going to use
\* it: the image of a queued or running parent whose cancel nobody requested is
\* there, whatever coordinators and cancel handlers of the past are finishing and
\* whenever the API restarts.  The exception is a parent that was ever in the hands
\* of two coordinators, because the recovery task listed it while the handler that
\* created it was at work: the second to promote it finds nothing to change, takes
\* the parent for canceled and purges the image of what the first has queued.
SourceImageKept ==
    \A p \in Parents : Dispatched(p) /\ ~jobs[p].cancel /\ p \notin doubled =>
        HasImage(childOf[p])

\* A status change to canceled, failed or interrupted is final for a parent, also
\* against a promotion that was prepared before it.
CancelIsFinal ==
    [][\A p \in Parents : IsTerminal(jobs[p]) => jobs'[p].status = jobs[p].status]_wfVars

\* A parent no handler is going to link to a child any more.
Unlinked(p) == Waiting(p) /\ jobs[p].payload = "bare" /\ creator[p] = "none"

\* The image of a parent that ended without using it, which somebody has to purge.
ImageHeld(p) ==
    /\ IsTerminal(jobs[p]) /\ jobs[p].status # "completed"
    /\ jobs[p].payload = "resolved" /\ asset[childOf[p]] = "published"

\* A coordinator of p runs, or the recovery task is going to start one.
Tended(p) == recovering \/ \E k \in Spawners : coord[p][k] # "none"

\* No workflow is left to itself: an unfinished parent is in the hands of the
\* handler that is about to link it or of a coordinator, and so is the image of a
\* parent that failed or was canceled, whatever order the cancels, the two
\* transactions of a promotion, two coordinators of one parent and the API restarts
\* come in.  The exceptions are a parent whose handler ended with the process before
\* it attached the child, and an image that was purged once and written again by a
\* progress report or side effects that finished later (restored): nobody looks
\* after that copy.
WorkflowTended ==
    \A p \in Parents :
        /\ ~IsTerminal(jobs[p]) =>
               Unlinked(p) \/ creator[p] \in {"created", "linking"} \/ Tended(p)
        /\ ImageHeld(p) => Tended(p)

\* Every workflow parent eventually reaches a terminal status, wherever the API
\* stops and starts again.  The exceptions are exactly two: the process ended
\* before the handler attached the child, or it ended between the transactions
\* of a promotion and a row was queued with routing facts no claim accepts.
WorkflowSettles ==
    \A p \in JobIds :
        (p \in Rows /\ jobs[p].shape = "vector")
        ~> (StaleFacts # {} \/ (p \in Rows /\ (IsTerminal(jobs[p]) \/ Unlinked(p))))

\* The comment in claim_next_job_routed: a mismatch of routing facts and payload
\* "can therefore only come from an out-of-band writer or corruption".
QueuedFactsCurrent == StaleFacts = {}
=============================================================================
