--------------------------- MODULE HostMaintenance ---------------------------
(***************************************************************************)
(* The Host Agent (server.py) and the changes that it makes to the         *)
(* appliance: upgrades of Music Assistant, full recovery and application   *)
(* updates share one lock; the first two are threads of the Host Agent,    *)
(* the third is a service of its own, which restarts the Host Agent.  A    *)
(* full export holds the same lock under a lease.  At startup what was     *)
(* interrupted is undone before anything new is accepted.                  *)
(***************************************************************************)
EXTENDS Naturals, Sequences

CONSTANTS
    Targets, Existing,   \* the roots of a full recovery, and those that exist
    MaxBuild,            \* builds of the application, a bound of the model
    MaxJobs,             \* requests that are accepted, a bound of the model
    MaxCrashes           \* ends of the Host Agent or the host, a bound of the model

ASSUME RootsAssumption == Targets \in Seq(STRING) /\ Targets # <<>> /\ Existing \subseteq DOMAIN Targets
ASSUME BoundsAssumption == MaxBuild \in Nat

VARIABLES
    musicJournal, musicWorker, container, compose, live, snapshot, restore, setAside, cooling, restarts,
    fullJournal, fullStatus, fullWorker, target, prepared, safety, staging, writers,
    request, saved, status, runner, source, env, image, installed, data, hub,
    lock,       \* holder of the appliance mutation lock
    boot,       \* how far the Host Agent has started
    timer,      \* the resumption of an application update is due
    jobs, crashes

music == <<musicJournal, musicWorker, container, compose, live, snapshot, restore, setAside, cooling, restarts>>
full == <<fullJournal, fullStatus, fullWorker, target, prepared, safety, staging, writers>>
app == <<request, saved, status, runner, source, env, image, installed, data, hub>>
host == <<boot, timer>>
bounds == <<jobs, crashes>>
vars == <<music, full, app, lock, host, bounds>>

Music == INSTANCE MusicUpdates WITH
    journal <- musicJournal, worker <- musicWorker, failed <- setAside
Full == INSTANCE FullRecovery WITH
    journal <- fullJournal, status <- fullStatus, worker <- fullWorker
App == INSTANCE AppUpdate WITH agent <- installed

Init ==
    /\ Music!Init /\ Full!Init /\ App!Init
    /\ boot = "ready" /\ timer = FALSE
    /\ jobs = 0 /\ crashes = 0

------------------------------------------------------------------------------
(* Requests: one at a time, none while startup or Music Assistant holds    *)
(* mutations, and none but a thaw while an export holds them.              *)

Accepts ==
    /\ boot = "ready" /\ ~Music!Running /\ lock # "export"
    /\ jobs < MaxJobs /\ jobs' = jobs + 1
    /\ UNCHANGED <<host, crashes>>

AskMusic ==
    /\ Accepts /\ request = App!None
    /\ Music!Start \/ Music!Recover
    /\ UNCHANGED <<full, app>>

AskFull ==
    /\ Accepts
    /\ Full!Start
    /\ UNCHANGED <<music, app>>

AskApp ==
    /\ Accepts
    /\ App!Ask
    /\ UNCHANGED <<music, full>>

(* acquire_export_freeze, and release_export_freeze or the end of its      *)
(* lease.                                                                  *)
Freeze ==
    /\ Accepts
    /\ lock = "free" /\ lock' = "export"
    /\ UNCHANGED <<music, full, app>>

Thaw ==
    /\ lock = "export" /\ lock' = "free"
    /\ UNCHANGED <<music, full, app, host, bounds>>

(* An administrator runs the updater at the console.                       *)
AskCLI ==
    /\ jobs < MaxJobs /\ jobs' = jobs + 1
    /\ App!AskCLI
    /\ UNCHANGED <<music, full, host, crashes>>

------------------------------------------------------------------------------
(* Work                                                                    *)

MusicStep == Music!Step /\ UNCHANGED <<full, app, host, bounds>>

FullStep == Full!Step /\ UNCHANGED <<music, app, host, bounds>>

AppStep == App!Step /\ UNCHANGED <<music, full, host, bounds>>

(* The services at work with what was deployed.                            *)
Services ==
    \/ Music!Migrate /\ UNCHANGED <<full, app, host, bounds>>
    \/ Music!CoolDown /\ UNCHANGED <<full, app, host, bounds>>
    \/ App!Migrate /\ UNCHANGED <<music, full, host, bounds>>

------------------------------------------------------------------------------
(* Ends and starts of the Host Agent                                       *)

(* Its threads end, and the lock that one of them holds is free.           *)
Ends ==
    /\ Music!Killed /\ Full!Killed
    /\ boot' = "down" /\ timer' = FALSE

Crash ==
    /\ boot # "down"
    /\ crashes < MaxCrashes /\ crashes' = crashes + 1
    /\ Ends
    /\ lock' = IF lock \in {"music", "recovery", "export"} THEN "free" ELSE lock
    /\ UNCHANGED <<app, jobs>>

HostCrash ==
    /\ crashes < MaxCrashes /\ crashes' = crashes + 1
    /\ Ends /\ App!Killed
    /\ lock' = "free"
    /\ UNCHANGED jobs

(* The rollback at startup failed: the process exits, systemd starts it    *)
(* again.                                                                  *)
Exit ==
    /\ boot = "full" /\ fullWorker.pc = "exit"
    /\ Ends
    /\ UNCHANGED <<app, lock, bounds>>

(* The runner installs a Host Agent, and starts it in place of this one.   *)
Replaced ==
    /\ App!AgentStep
    /\ Ends
    /\ UNCHANGED bounds

(* serve(): requests are answered, but nothing is changed, while what was  *)
(* interrupted is undone.                                                  *)
Serve ==
    /\ boot = "down" /\ boot' = "full"
    /\ UNCHANGED <<music, full, app, lock, timer, bounds>>

StillRuns == fullStatus \notin {"idle", "failed", "rolled-back", "completed", "rollback-failed"}
(* A journal is left, whatever the status says.                            *)
Interrupted == fullJournal # Full!None

RecoverFull ==
    /\ boot = "full" /\ Full!At("idle")
    /\ IF Interrupted
       THEN Full!StartupRecover /\ UNCHANGED boot
       ELSE boot' = "music" /\ UNCHANGED <<full, lock>>
    /\ UNCHANGED <<music, app, timer, bounds>>

(* Nothing to undo, or it is undone: an update of the application is       *)
(* resumed two seconds later.                                              *)
Ready ==
    /\ boot' = "ready"
    /\ timer' = (request # App!None)

RecoverMusic ==
    /\ boot = "music"
    /\ \/ Music!StartupRecover
          /\ IF Music!Idle = musicWorker' THEN Ready ELSE boot' = "undo" /\ UNCHANGED timer
       \/ ~Music!Running /\ Ready /\ UNCHANGED <<music, lock>>
       \/ Music!Running /\ lock # "free" /\ boot' = "locked" /\ UNCHANGED <<music, lock, timer>>
    /\ UNCHANGED <<full, app, bounds>>

Undone ==
    /\ boot = "undo"
    /\ \/ Music!At("idle") /\ Ready
       \/ Music!At("blocked") /\ boot' = "locked" /\ UNCHANGED timer
    /\ UNCHANGED <<music, full, app, lock, bounds>>

(* The timer: a busy lock, or a runner that is at work, is left alone.     *)
ResumeUpdate ==
    /\ timer /\ timer' = FALSE
    /\ \/ App!Resume
       \/ (request = App!None \/ lock # "free" \/ runner # App!Idle) /\ UNCHANGED <<app, lock>>
    /\ UNCHANGED <<music, full, boot, bounds>>

------------------------------------------------------------------------------
Requests == AskMusic \/ AskFull \/ AskApp \/ Freeze \/ AskCLI

Work ==
    \/ MusicStep \/ FullStep \/ AppStep \/ Replaced \/ Thaw
    \/ Exit \/ Serve \/ RecoverFull \/ RecoverMusic \/ Undone \/ ResumeUpdate

Next == Requests \/ Work \/ Services \/ Crash \/ HostCrash

Spec == Init /\ [][Next]_vars

(* Threads, the runner and systemd get on, and a lease ends: the appliance *)
(* does not stand still while one of them can.                             *)
FairSpec == Spec /\ WF_vars(Work)

------------------------------------------------------------------------------
(* Whatever is interrupted, and by what, what is needed to come back is    *)
(* there, and no old program runs on data that a newer one has changed     *)
(* (music_updates.rollback, full_recovery._rollback, app-update-runner     *)
(* rollback).                                                              *)
WayBackIsKept == Music!DataIsKept /\ Full!NothingIsLost /\ App!OldBuildsKeepTheirData

(* A restart of a service is made once for one claim, also when the Host   *)
(* Agent ends before its outcome is saved.                                 *)
RestartsAreNotRepeated == Music!RestartsAreNotRepeated

(* Nothing is changed before a journal says so, and what a journal or a    *)
(* status says is deployed when it is settled is deployed, whole.          *)
ChangesAreAllOrNothing == Music!Change!Spec /\ Full!Change!Spec /\ App!Change!Spec

(* What an end of the Host Agent interrupted is settled after its next     *)
(* start, or waits for the administrator: a rollback that fails keeps      *)
(* Music Assistant's lock, or ends the process again (serve).              *)
NeedsAdministrator == boot = "locked" \/ Music!At("blocked") \/ Full!At("exit")

InterruptedWorkIsSettled ==
    /\ boot = "down" /\ Music!Running ~> ~Music!Running \/ NeedsAdministrator
    /\ boot = "down" /\ fullJournal # Full!None ~> fullJournal = Full!None \/ NeedsAdministrator

(* A worker that started ends, and the lock with it: nothing else could    *)
(* ever change the appliance again.                                        *)
LockIsReleased == lock # "free" ~> lock = "free" \/ NeedsAdministrator

==============================================================================
