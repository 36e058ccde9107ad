------------------------------ MODULE AppUpdate ------------------------------
(***************************************************************************)
(* Updates of the application (app-update-runner.sh) as the Host Agent     *)
(* requests them (server.py): a service of its own that owns the appliance *)
(* mutation lock, a request file that is the journal, and a rollback.  The *)
(* runner restarts the Host Agent while it runs.                           *)
(*                                                                         *)
(* A build is a number; what each part of the appliance has is the build   *)
(* that it comes from, and an older build cannot use newer data.           *)
(***************************************************************************)
EXTENDS Naturals

CONSTANT MaxBuild   \* builds that are published, a bound of the model

VARIABLES
    request,    \* app-update-request.json
    saved,      \* build of the saved .env and unit file, 0 when there are none
    status,     \* app-update-status.json
    runner,     \* the runner: where it is, and rollback_ok
    source,     \* checkout
    env,        \* image tags in .env
    image,      \* image of the Hub's container
    agent,      \* installed Host Agent
    data,       \* database and data
    hub,        \* the Hub runs
    lock        \* holder of the appliance mutation lock

files == <<request, saved, status>>
parts == <<source, env, image, agent>>
vars == <<files, runner, parts, data, hub, lock>>

Builds == 1..MaxBuild

None == [action |-> "none"]
Idle == [pc |-> "idle", ok |-> TRUE]

(* The first build, or one that an earlier update has installed, which can *)
(* be reverted once.                                                       *)
Init ==
    /\ request = None /\ saved = 0
    /\ \E build \in 1..2 :
          /\ build <= MaxBuild
          /\ status = [phase |-> "idle", active |-> build, previous |-> build - 1, backup |-> build - 1,
                       revertAvailable |-> build > 1]
          /\ source = build /\ env = build /\ image = build /\ agent = build /\ data = build
    /\ runner = Idle /\ hub = TRUE
    /\ lock = "free"

------------------------------------------------------------------------------
(* Requests                                                                *)

Request(action, to, backup, failureBackup, current) ==
    [action |-> action, to |-> to, current |-> current, image |-> 0,
     backup |-> backup, failureBackup |-> failureBackup, started |-> FALSE]

(* start_app_update_job: no request is pending, and the service is free.   *)
(* The backup before a revert was made by the maintenance agent.           *)
Ask ==
    /\ request = None /\ runner = Idle
    /\ \/ source < MaxBuild /\ request' = Request("published", source + 1, 0, 0, source)
       \/ /\ status.revertAvailable
          /\ request' = Request("revert", status.previous, status.backup, data, source)
    /\ runner' = [runner EXCEPT !.pc = "starting"]
    /\ UNCHANGED <<saved, status, parts, data, hub, lock>>

(* The updater run by an administrator: it takes the lock first.           *)
AskCLI ==
    /\ request = None /\ runner = Idle /\ lock = "free" /\ source < MaxBuild
    /\ request' = Request("published", source + 1, 0, 0, 0)
    /\ runner' = [runner EXCEPT !.pc = "capture"]
    /\ lock' = "app"
    /\ UNCHANGED <<saved, status, parts, data, hub>>

(* resume_interrupted_app_update, after a start of the Host Agent.         *)
Resume ==
    /\ request # None /\ lock = "free" /\ runner = Idle
    /\ runner' = [runner EXCEPT !.pc = "starting"]
    /\ UNCHANGED <<files, parts, data, hub, lock>>

------------------------------------------------------------------------------
(* The runner                                                              *)

At(pc) == runner.pc = pc

Goto(pc) == runner' = [runner EXCEPT !.pc = pc]

(* A step of the rollback: it works, or rollback_ok becomes false.         *)
Try(worked, pc) == runner' = [runner EXCEPT !.pc = pc, !.ok = @ /\ worked]

(* The service starts the runner without arguments: a busy lock, or no     *)
(* journal, is no work.                                                    *)
StartRunner ==
    /\ At("starting")
    /\ IF lock = "free" /\ request # None
       THEN lock' = "app" /\ Goto("capture")
       ELSE runner' = Idle /\ UNCHANGED lock
    /\ UNCHANGED <<files, parts, data, hub>>

(* The images to come back to are captured once, and journaled.  What was  *)
(* started is never replayed.                                              *)
Capture ==
    /\ At("capture")
    /\ request' = [request EXCEPT !.image = IF @ = 0 THEN image ELSE @,
                                  !.current = IF @ = 0 THEN source ELSE @]
    /\ Goto(IF request.started THEN "rollback" ELSE "preflight")
    /\ UNCHANGED <<saved, status, parts, data, hub, lock>>

(* The target is resolved, its images are pulled, and an update makes its  *)
(* operational backup.                                                     *)
Preflight ==
    /\ At("preflight")
    /\ status' = [status EXCEPT !.phase = "preflight"]
    /\ \/ /\ request' = IF request.action = "published"
                        THEN [request EXCEPT !.backup = data, !.failureBackup = data] ELSE request
          /\ Goto("previous")
       \/ Goto("preflightFailed") /\ UNCHANGED request
    /\ UNCHANGED <<saved, parts, data, hub, lock>>

PreflightFailed ==
    /\ At("preflightFailed")
    /\ status' = [status EXCEPT !.phase = "failed"]
    /\ request' = None /\ saved' = 0
    /\ runner' = Idle /\ lock' = "free"
    /\ UNCHANGED <<parts, data, hub>>

(* An update records what a later revert would go back to.                 *)
RecordPrevious ==
    /\ At("previous")
    /\ status' = IF request.action = "published"
                 THEN [status EXCEPT !.previous = request.current, !.backup = request.backup]
                 ELSE status
    /\ Goto("save") \/ Goto("preflightFailed")
    /\ UNCHANGED <<request, saved, parts, data, hub, lock>>

SaveCopies ==
    /\ At("save")
    /\ saved' = env
    /\ Goto("claim")
    /\ UNCHANGED <<request, status, parts, data, hub, lock>>

(* The journal precedes every change.                                      *)
Claim ==
    /\ At("claim")
    /\ request' = [request EXCEPT !.started = TRUE]
    /\ Goto("switch")
    /\ UNCHANGED <<saved, status, parts, data, hub, lock>>

Switch ==
    /\ At("switch")
    /\ status' = [status EXCEPT !.phase = "switching"]
    /\ \/ source' = request.to /\ Goto("refresh")
       \/ UNCHANGED source /\ Goto("rollback")
    /\ UNCHANGED <<request, saved, env, image, agent, data, hub, lock>>

(* refresh_host_agent: the new Host Agent is installed and started.        *)
RefreshAgent ==
    /\ At("refresh")
    /\ agent' = request.to
    /\ Goto("tags") \/ Goto("rollback")
    /\ UNCHANGED <<files, source, env, image, data, hub, lock>>

SetTags ==
    /\ At("tags")
    /\ env' = request.to
    /\ Goto(IF request.action = "revert" THEN "stopForRevert" ELSE "recreate") \/ Goto("rollback")
    /\ UNCHANGED <<files, source, image, agent, data, hub, lock>>

(* A revert restores the data of the older build while the Hub is stopped. *)
StopForRevert ==
    /\ At("stopForRevert")
    /\ \/ hub' = FALSE /\ image' = request.to /\ Goto("restoreForRevert")
       \/ hub' \in {hub, FALSE} /\ UNCHANGED image /\ Goto("rollback")
    /\ UNCHANGED <<files, source, env, agent, data, lock>>

RestoreForRevert ==
    /\ At("restoreForRevert")
    /\ \/ data' = request.backup /\ Goto("recreate")
       \/ data' \in {data, request.backup} /\ Goto("rollback")
    /\ UNCHANGED <<files, parts, hub, lock>>

Recreate ==
    /\ At("recreate")
    /\ \/ image' = env /\ hub' = TRUE /\ Goto("verify")
       \/ image' \in {image, env} /\ hub' = FALSE /\ Goto("rollback")
       \/ UNCHANGED <<image, hub>> /\ Goto("rollback")
    /\ UNCHANGED <<files, source, env, agent, data, lock>>

(* The Hub migrates the data of an older build when it starts.             *)
Migrate ==
    /\ hub /\ data < image
    /\ data' = image
    /\ UNCHANGED <<files, runner, parts, hub, lock>>

Healthy == hub /\ data = image

Verify ==
    /\ At("verify")
    /\ status' = [status EXCEPT !.phase = "verifying"]
    /\ \/ Healthy /\ image = request.to /\ Goto("record")
       \/ Goto("rollback")
    /\ UNCHANGED <<request, saved, parts, data, hub, lock>>

(* The update is verified: from here an error ends the runner.             *)
Record ==
    /\ At("record")
    /\ status' = IF request.action = "revert"
                 THEN [status EXCEPT !.active = request.to, !.previous = 0, !.backup = 0, !.revertAvailable = FALSE]
                 ELSE [status EXCEPT !.active = request.to, !.revertAvailable = TRUE]
    /\ Goto("forget") \/ Goto("exit")
    /\ UNCHANGED <<request, saved, parts, data, hub, lock>>

Forget ==
    /\ At("forget")
    /\ request' = None /\ saved' = 0
    /\ Goto("complete")
    /\ UNCHANGED <<status, parts, data, hub, lock>>

Complete ==
    /\ At("complete")
    /\ status' = [status EXCEPT !.phase = "completed"]
    /\ runner' = Idle /\ lock' = "free"
    /\ UNCHANGED <<request, saved, parts, data, hub>>

Exit ==
    /\ At("exit")
    /\ runner' = Idle /\ lock' = "free"
    /\ UNCHANGED <<files, parts, data, hub>>

------------------------------------------------------------------------------
(* Rollback                                                                *)

RollbackSource ==
    /\ At("rollback")
    /\ status' = [status EXCEPT !.phase = "rollback"]
    /\ \/ source' = request.current /\ Try(TRUE, "rollbackEnv")
       \/ UNCHANGED source /\ Try(FALSE, "rollbackEnv")
    /\ UNCHANGED <<request, saved, env, image, agent, data, hub, lock>>

RollbackEnv ==
    /\ At("rollbackEnv")
    /\ \/ env' = saved /\ Try(TRUE, "rollbackAgent")
       \/ UNCHANGED env /\ Try(FALSE, "rollbackAgent")
    /\ UNCHANGED <<files, source, image, agent, data, hub, lock>>

(* The saved unit is installed, and the Host Agent starts again.           *)
RollbackAgent ==
    /\ At("rollbackAgent")
    /\ \/ agent' = source /\ Try(TRUE, "rollbackTags")
       \/ agent' \in {agent, source} /\ Try(FALSE, "rollbackTags")
    /\ UNCHANGED <<files, source, env, image, data, hub, lock>>

RollbackTags ==
    /\ At("rollbackTags")
    /\ \/ env' = request.image /\ Try(TRUE, "rollbackStop")
       \/ UNCHANGED env /\ Try(FALSE, "rollbackStop")
    /\ UNCHANGED <<files, source, image, agent, data, hub, lock>>

(* The data is never restored unless the Hub could be stopped.             *)
RollbackStop ==
    /\ At("rollbackStop")
    /\ \/ runner.ok /\ hub' = FALSE /\ image' = env /\ Try(TRUE, "rollbackData")
       \/ hub' = FALSE /\ runner.ok /\ UNCHANGED image /\ Try(FALSE, "rollbackHealth")
       \/ UNCHANGED <<hub, image>> /\ Try(FALSE, "rollbackHealth")
    /\ UNCHANGED <<files, source, env, agent, data, lock>>

RollbackData ==
    /\ At("rollbackData")
    /\ \/ data' = request.failureBackup /\ Try(TRUE, "rollbackStart")
       \/ data' \in {data, request.failureBackup} /\ Try(FALSE, "rollbackHealth")
    /\ UNCHANGED <<files, parts, hub, lock>>

RollbackStart ==
    /\ At("rollbackStart")
    /\ \/ hub' = TRUE /\ Try(TRUE, "rollbackHealth")
       \/ UNCHANGED hub /\ Try(FALSE, "rollbackHealth")
    /\ UNCHANGED <<files, parts, data, lock>>

HealthyAgain == Healthy /\ image = request.image
(* Every step of the rollback worked, and the Hub answers as before.       *)
Restored == runner.ok /\ Healthy /\ image = request.image

RollbackHealth ==
    /\ At("rollbackHealth")
    /\ \/ Restored /\ Try(TRUE, "rolledBack")
       \/ Try(FALSE, "rollbackFailed")
    /\ UNCHANGED <<files, parts, data, hub, lock>>

(* The outcome is written before the journal is removed.                   *)
RolledBack ==
    /\ At("rolledBack")
    /\ status' = [status EXCEPT !.phase = "rolled-back", !.active = request.current]
    /\ Goto("forgetRollback")
    /\ UNCHANGED <<request, saved, parts, data, hub, lock>>

ForgetRollback ==
    /\ At("forgetRollback")
    /\ request' = None /\ saved' = 0
    /\ runner' = Idle /\ lock' = "free"
    /\ UNCHANGED <<status, parts, data, hub>>

RollbackFailed ==
    /\ At("rollbackFailed")
    /\ status' = [status EXCEPT !.phase = "rollback-failed"]
    /\ runner' = Idle /\ lock' = "free"
    /\ UNCHANGED <<request, saved, parts, data, hub>>

(* The appliance stops: the runner ends, its lock is gone.                 *)
Killed ==
    /\ runner' = Idle
    /\ UNCHANGED <<files, parts, data, hub>>

------------------------------------------------------------------------------
Step ==
    \/ StartRunner \/ Capture \/ Preflight \/ PreflightFailed \/ RecordPrevious \/ SaveCopies \/ Claim
    \/ Switch \/ SetTags \/ StopForRevert \/ RestoreForRevert \/ Recreate \/ Verify
    \/ Record \/ Forget \/ Complete \/ Exit
    \/ RollbackSource \/ RollbackEnv \/ RollbackTags \/ RollbackStop \/ RollbackData \/ RollbackStart
    \/ RollbackHealth \/ RolledBack \/ ForgetRollback \/ RollbackFailed

(* These start the Host Agent again.                                       *)
AgentStep == RefreshAgent \/ RollbackAgent

------------------------------------------------------------------------------
(* The Hub of an older build never runs on the data of a newer one, and    *)
(* what is needed to come back is kept until the outcome is known: the     *)
(* data is of the build that runs before, or its backup is (rollback,      *)
(* restore_safety_backup).                                                 *)
OldBuildsKeepTheirData ==
    /\ hub => data <= image
    /\ request # None /\ request.started => request.failureBackup = request.current

(* What is deployed, when every part is of one build; and what the status  *)
(* says is active.                                                         *)
Mixed == 0
Unknown == MaxBuild + 1

Deployed == IF hub /\ source = env /\ env = image /\ agent = image /\ data = image THEN image ELSE Mixed

Recorded == IF status.phase \in {"idle", "failed", "completed", "rolled-back"} THEN status.active ELSE Unknown

Change == INSTANCE AllOrNothing WITH
    Wholes <- Builds, deployed <- Deployed, recorded <- Recorded

==============================================================================
