----------------------------- MODULE JobLifecycle ----------------------------
(***************************************************************************)
(* What the job queue promises its users and its workers, with no routing, *)
(* no heartbeats and no database: a submitted job waits, is started at     *)
(* most once, by one worker, on a device nobody else holds, settles once   *)
(* with an outcome that never changes, and may then be purged.  JobsStore  *)
(* implements it (JobsStore!RefinesLifecycle).                             *)
(***************************************************************************)
CONSTANTS
    Jobs,            \* ids of the jobs ever submitted
    Runners,         \* the workers
    Devices,         \* physical GPUs
    Outcomes,        \* how a job can end
    Success,         \* the outcome only a job that ran can have
    NoRunner, NoDevice, NoOutcome

VARIABLE life        \* job -> where it is in its life

\* A job that is not running has no runner and no device, and only a settled one
\* has an outcome.
Idle(phase) ==
    [phase |-> phase, runner |-> NoRunner, device |-> NoDevice, outcome |-> NoOutcome]
Running(w, d) ==
    [phase |-> "running", runner |-> w, device |-> d, outcome |-> NoOutcome]
Settled(o) ==
    [phase |-> "settled", runner |-> NoRunner, device |-> NoDevice, outcome |-> o]

Init == life = [j \in Jobs |-> Idle("absent")]

Submit(j) ==
    /\ life[j] = Idle("absent")
    /\ life' = [life EXCEPT ![j] = Idle("waiting")]

\* A job that needs no GPU starts on NoDevice, next to any others.
Start(j, w, d) ==
    /\ life[j] = Idle("waiting")
    /\ d # NoDevice => \A i \in Jobs : life[i].device # d
    /\ life' = [life EXCEPT ![j] = Running(w, d)]

\* What the end of some jobs may do to one job: leave it, end it, or forget it.
\* A job that never ran does not end in success.
Ends(old, new) ==
    \/ new = old
    \/ old.phase = "running" /\ \E o \in Outcomes : new = Settled(o)
    \/ old.phase = "waiting" /\ \E o \in Outcomes \ {Success} : new = Settled(o)
    \/ old.phase = "settled" /\ new = Idle("purged")

\* Sweeps and restarts end and forget any number of jobs in one transaction.
Settle ==
    /\ life' = [j \in Jobs |-> life'[j]]
    /\ \A j \in Jobs : Ends(life[j], life'[j])

Next ==
    \/ Settle
    \/ \E j \in Jobs : Submit(j)
    \/ \E j \in Jobs, w \in Runners, d \in Devices \cup {NoDevice} : Start(j, w, d)

Spec == Init /\ [][Next]_life
=============================================================================
