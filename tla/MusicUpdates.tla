----------------------------- MODULE MusicUpdates -----------------------------
(***************************************************************************)
(* The Host Agent's upgrade of Music Assistant (music_updates.py): a cold  *)
(* snapshot, a new image, and a rollback that a journal on disk makes      *)
(* possible after any interruption; and the restart of a service that does *)
(* not answer, which is claimed in a ledger and never repeated.            *)
(*                                                                         *)
(* The worker is a thread of the Host Agent.  Each of its steps may fail,  *)
(* saving the journal too: its own copy of the job is then ahead of the    *)
(* journal.                                                                *)
(***************************************************************************)
EXTENDS Naturals

VARIABLES
    journal,     \* job.json
    worker,      \* the thread: where it is, and its copy of the job
    container,   \* image of the service's container, and whether it runs
    compose,     \* image that the Compose file names
    live,        \* the data directory
    snapshot,    \* the copy made before the change
    restore,     \* the copy made to restore it
    failed,      \* the data set aside by a rollback
    cooling,     \* the ledger has a recent recovery attempt
    restarts,    \* history: restarts since that attempt
    lock         \* holder of the appliance mutation lock

deployment == <<container, compose, live>>
copies == <<snapshot, restore, failed>>
ledger == <<cooling, restarts>>
vars == <<journal, worker, deployment, copies, ledger, lock>>

None == [stage |-> "none"]
Update == [stage |-> "preparing", operation |-> "update", stopClaimed |-> FALSE,
           snapshotComplete |-> FALSE, deploymentChangeClaimed |-> FALSE]
Recovery == [stage |-> "recovering", operation |-> "recover"]
Idle == [pc |-> "idle", boot |-> FALSE, job |-> None]

TERMINAL == {"none", "succeeded", "rolled-back", "failed"}

Running == journal.stage \notin TERMINAL

Init ==
    /\ journal = None /\ worker = Idle
    /\ container = [image |-> "old", running |-> TRUE]
    /\ compose = "old" /\ live = "old"
    /\ snapshot = "none" /\ restore = "none" /\ failed = "none"
    /\ cooling = FALSE /\ restarts = 0
    /\ lock = "free"

------------------------------------------------------------------------------
(* The worker                                                              *)

At(pc) == worker.pc = pc

Goto(pc) == worker' = [worker EXCEPT !.pc = pc]

(* save(): the copy in memory is changed first.  An exception goes to the  *)
(* step e.                                                                 *)
Save(job, pc, e) ==
    \/ journal' = job /\ worker' = [worker EXCEPT !.job = job, !.pc = pc]
    \/ UNCHANGED journal /\ worker' = [worker EXCEPT !.job = job, !.pc = e]

SaveStage(stage, pc, e) == Save([worker.job EXCEPT !.stage = stage], pc, e)

EndsWithTheLock(job) ==
    /\ journal' = job /\ worker' = Idle /\ UNCHANGED lock
(* The thread ends, and closes the lock.                                   *)
End(job) ==
    /\ journal' = job /\ worker' = Idle /\ lock' = "free"

(* start(): an older deployment that runs, the release that was checked.   *)
Start ==
    /\ ~Running /\ lock = "free" /\ At("idle")
    /\ container = [image |-> "old", running |-> TRUE]
    /\ journal' = Update
    /\ worker' = [pc |-> "preflight", boot |-> FALSE, job |-> Update]
    /\ snapshot' = "none" /\ restore' = "none" /\ failed' = "none"
    /\ lock' = "music"
    /\ UNCHANGED <<deployment, ledger>>

(* The release, the deployment and the space are checked, the image is     *)
(* pulled; the stop is claimed.                                            *)
Preflight ==
    /\ At("preflight")
    /\ \/ Save([worker.job EXCEPT !.stage = "stopping", !.stopClaimed = TRUE], "stop", "rollback")
       \/ Goto("rollback") /\ UNCHANGED journal
    /\ UNCHANGED <<deployment, copies, ledger, lock>>

(* docker stop, which may fail after it stopped the container.             *)
Stop ==
    /\ At("stop")
    /\ \/ container' = [container EXCEPT !.running = FALSE] /\ Goto("copy")
       \/ container' \in {container, [container EXCEPT !.running = FALSE]} /\ Goto("rollback")
    /\ UNCHANGED <<journal, compose, live, copies, ledger, lock>>

(* The data is checked and copied.                                         *)
CopyData ==
    /\ At("copy")
    /\ snapshot' \in {"part", live}
    /\ IF snapshot' = live
       THEN Save([worker.job EXCEPT !.stage = "backed-up", !.snapshotComplete = TRUE], "claim", "rollback")
       ELSE worker' \in {worker, [worker EXCEPT !.pc = "rollback"]} /\ UNCHANGED journal
    /\ UNCHANGED <<deployment, restore, failed, ledger, lock>>

ClaimChange ==
    /\ At("claim")
    /\ Save([worker.job EXCEPT !.stage = "applying", !.deploymentChangeClaimed = TRUE], "write", "rollback")
    /\ UNCHANGED <<deployment, copies, ledger, lock>>

WriteCompose ==
    /\ At("write")
    /\ \/ compose' = "new" /\ Goto("up")
       \/ UNCHANGED compose /\ Goto("rollback")
    /\ UNCHANGED <<journal, container, live, copies, ledger, lock>>

Up ==
    /\ At("up")
    /\ \/ container' = [image |-> compose, running |-> TRUE] /\ SaveStage("verifying", "verify", "rollback")
       \/ UNCHANGED container /\ Goto("rollback") /\ UNCHANGED journal
    /\ UNCHANGED <<compose, live, copies, ledger, lock>>

(* healthy() and the check of the databases.                               *)
Verify ==
    /\ At("verify")
    /\ \/ SaveStage("succeeded", "done", "rollback")
       \/ Goto("rollback") /\ UNCHANGED journal
    /\ UNCHANGED <<deployment, copies, ledger, lock>>

Done ==
    /\ At("done")
    /\ End(journal)
    /\ UNCHANGED <<deployment, copies, ledger>>

(* The service that runs with the new image migrates its data.             *)
Migrate ==
    /\ container = [image |-> "new", running |-> TRUE] /\ live = "old"
    /\ live' = "migrated"
    /\ UNCHANGED <<journal, worker, container, compose, copies, ledger, lock>>

------------------------------------------------------------------------------
(* Rollback                                                                *)

(* Where a rollback starts: what was claimed decides what is undone.       *)
Rollback ==
    /\ At("rollback")
    /\ LET job == worker.job
       IN CASE job.stage = "preparing" /\ ~job.stopClaimed ->
                  SaveStage("failed", "done", "raise") /\ UNCHANGED container
            [] job.stage # "preparing" /\ ~job.stopClaimed ->
                  Goto("raise") /\ UNCHANGED <<journal, container>>
            [] job.stopClaimed /\ ~job.deploymentChangeClaimed ->
                  \/ container' = [container EXCEPT !.running = TRUE] /\ Goto("restarted") /\ UNCHANGED journal
                  \/ Goto("raise") /\ UNCHANGED <<journal, container>>
            [] job.stopClaimed /\ job.deploymentChangeClaimed ->
                  /\ \/ job.snapshotComplete /\ SaveStage("restoring", "halt", "raise")
                     \/ Goto("raise") /\ UNCHANGED journal
                  /\ UNCHANGED container
    /\ UNCHANGED <<compose, live, copies, ledger, lock>>

Halt ==
    /\ At("halt")
    /\ \/ container' = [container EXCEPT !.running = FALSE] /\ Goto("clear")
       \/ container' \in {container, [container EXCEPT !.running = FALSE]} /\ Goto("raise")
    /\ UNCHANGED <<journal, compose, live, copies, ledger, lock>>

(* A restore that was interrupted is removed, and the snapshot is copied   *)
(* and checked.                                                            *)
Clear ==
    /\ At("clear")
    /\ restore' = "none" /\ Goto("copyBack")
    /\ UNCHANGED <<journal, deployment, snapshot, failed, ledger, lock>>

CopyBack ==
    /\ At("copyBack")
    /\ \/ restore' = "part" /\ worker' \in {worker, [worker EXCEPT !.pc = "raise"]}
       \/ restore' = snapshot /\ Goto("setAside")
    /\ UNCHANGED <<journal, deployment, snapshot, failed, ledger, lock>>

(* The data is set aside once; what a later attempt finds is removed.      *)
SetAside ==
    /\ At("setAside")
    /\ IF live # "none" /\ failed = "none"
       THEN failed' = live /\ live' = "none" /\ Goto("swap")
       ELSE /\ UNCHANGED failed
            /\ live' \in {"none"} \cup (IF live = "none" THEN {} ELSE {"part"})
            /\ IF live' = "none" THEN Goto("swap") ELSE UNCHANGED worker
    /\ UNCHANGED <<journal, container, compose, snapshot, restore, ledger, lock>>

Swap ==
    /\ At("swap")
    /\ live' = restore /\ restore' = "none" /\ Goto("writeBack")
    /\ UNCHANGED <<journal, container, compose, snapshot, failed, ledger, lock>>

WriteBack ==
    /\ At("writeBack")
    /\ \/ compose' = "old" /\ Goto("upAgain")
       \/ UNCHANGED compose /\ Goto("raise")
    /\ UNCHANGED <<journal, container, live, copies, ledger, lock>>

UpAgain ==
    /\ At("upAgain")
    /\ \/ container' = [image |-> compose, running |-> TRUE] /\ Goto("restarted")
       \/ UNCHANGED container /\ Goto("raise")
    /\ UNCHANGED <<journal, compose, live, copies, ledger, lock>>

Restarted ==
    /\ At("restarted")
    /\ \/ container.image = "old" /\ SaveStage("rolled-back", "done", "raise")
       \/ Goto("raise") /\ UNCHANGED journal
    /\ UNCHANGED <<deployment, copies, ledger, lock>>

(* A rollback that could not finish keeps the lock.  The worker says so in *)
(* the journal if it can; at startup the journal stays as it was.          *)
Raise ==
    /\ At("raise")
    /\ Goto("blocked")
    /\ journal' \in {journal} \cup (IF worker.boot THEN {} ELSE {[worker.job EXCEPT !.stage = "rollback-required"]})
    /\ UNCHANGED <<deployment, copies, ledger, lock>>

(* startup_recover(): an update that was interrupted is rolled back, a     *)
(* recovery is reported as failed.                                         *)
StartupRecover ==
    /\ At("idle") /\ Running
    /\ IF journal.operation = "recover"
       THEN journal' = [journal EXCEPT !.stage = "failed"] /\ UNCHANGED <<worker, lock>>
       ELSE /\ lock = "free" /\ lock' = "music"
            /\ worker' = [pc |-> "rollback", boot |-> TRUE, job |-> journal]
            /\ UNCHANGED journal
    /\ UNCHANGED <<deployment, copies, ledger>>

------------------------------------------------------------------------------
(* Recovery of a service that does not answer                              *)

AnyTime == TRUE
(* The ledger has no recent attempt.                                       *)
MayRecover == ~cooling

(* recover(): the attempt is claimed, then the job is journaled, or that   *)
(* save fails.                                                             *)
Recover ==
    /\ ~Running /\ lock = "free" /\ At("idle") /\ MayRecover
    /\ cooling' = TRUE /\ restarts' = IF cooling THEN restarts ELSE 0
    /\ \/ /\ journal' = Recovery
          /\ worker' = [pc |-> "probe", boot |-> FALSE, job |-> Recovery]
          /\ lock' = "music"
       \/ UNCHANGED <<journal, worker, lock>>
    /\ UNCHANGED <<deployment, copies>>

(* A service that was stopped, or that answers, is left alone.             *)
Probe ==
    /\ At("probe")
    /\ \/ container.running /\ Goto("restart") /\ UNCHANGED <<journal, lock>>
       \/ \E stage \in {"succeeded", "failed"} : End([journal EXCEPT !.stage = stage])
       \/ End(journal)
    /\ UNCHANGED <<deployment, copies, ledger>>

RestartService ==
    /\ At("restart")
    /\ restarts' = restarts + 1
    /\ Goto("recovered")
    /\ UNCHANGED <<journal, deployment, copies, cooling, lock>>

(* The outcome is saved; when that fails the thread ends all the same.     *)
Recovered ==
    /\ At("recovered")
    /\ \E stage \in {"succeeded", "failed", journal.stage} : End([journal EXCEPT !.stage = stage])
    /\ UNCHANGED <<deployment, copies, ledger>>

(* Half an hour passes.                                                    *)
CoolDown ==
    /\ cooling
    /\ cooling' = FALSE
    /\ UNCHANGED <<journal, worker, deployment, copies, restarts, lock>>

(* The Host Agent ends: its threads and their lock with it.                *)
Killed ==
    /\ worker' = Idle
    /\ UNCHANGED <<journal, deployment, copies, ledger>>

------------------------------------------------------------------------------
Step ==
    \/ Preflight \/ Stop \/ CopyData \/ ClaimChange \/ WriteCompose \/ Up \/ Verify \/ Done
    \/ Rollback \/ Halt \/ Clear \/ CopyBack \/ SetAside \/ Swap \/ WriteBack \/ UpAgain \/ Restarted \/ Raise
    \/ Probe \/ RestartService \/ Recovered

------------------------------------------------------------------------------
(* The data of the service is never lost: while it is not whole, or not    *)
(* what it was, the snapshot is; and the old image never runs on data that *)
(* the new one has migrated (execute, rollback).                           *)
DataIsKept ==
    /\ live \in {"part", "none", "migrated"} => snapshot = "old"
    /\ container = [image |-> "old", running |-> TRUE] => live = "old"

(* A restart that was claimed is made once, also if the Host Agent ends    *)
(* before the outcome is saved (recover, startup_recover).                 *)
RestartsAreNotRepeated == restarts <= 1

Deployed ==
    CASE container = [image |-> "old", running |-> TRUE] /\ compose = "old" /\ live = "old" -> "old"
      [] container.image = "new" /\ compose = "new" /\ live # "none" /\ live # "part" -> "new"
      [] OTHER -> "mixed"

(* The journal of an upgrade; between upgrades nothing is being changed.   *)
Recorded ==
    CASE journal.stage = "succeeded" /\ journal.operation = "update" -> "new"
      [] journal.stage \in {"rolled-back", "failed"} /\ journal.operation = "update" -> "old"
      [] journal.stage = "none" \/ journal.operation = "recover" -> Deployed
      [] OTHER -> "unknown"

Change == INSTANCE AllOrNothing WITH
    Wholes <- {"old", "new"}, Mixed <- "mixed", Unknown <- "unknown", deployed <- Deployed, recorded <- Recorded

==============================================================================
