------------------------- MODULE MusicUpdatesProofs --------------------------
(****************************************************************************)
(* An upgrade of Music Assistant (music_updates.py) keeps the data or a     *)
(* whole copy of it, wherever it stops, restarts the service once for one   *)
(* claim, and is all or nothing. The claims of the journal are what makes   *)
(* it inductive: they say what the worker may have done to the disk, for a  *)
(* worker that is at any step and for the next start that finds only the    *)
(* journal.                                                                 *)
(****************************************************************************)
EXTENDS MusicUpdates, TLAPS

Requests == Start \/ Recover \/ StartupRecover
\* The upgrade alone, under a lock that is anybody's.
Next == Requests \/ Step \/ Migrate \/ CoolDown \/ Killed

\* What the invariant is about: not the lock.
state == <<journal, worker, deployment, copies, ledger>>

Spec == Init /\ [][Next]_state

Stages ==
    {"preparing", "stopping", "backed-up", "applying", "verifying", "succeeded",
     "restoring", "rolled-back", "failed", "rollback-required"}

UpdateJobs ==
    [stage : Stages, operation : {"update"}, stopClaimed : BOOLEAN,
     snapshotComplete : BOOLEAN, deploymentChangeClaimed : BOOLEAN]

RecoveryJobs == [stage : {"recovering", "succeeded", "failed"}, operation : {"recover"}]

Jobs == {None} \cup UpdateJobs \cup RecoveryJobs

Claiming == {"preflight", "stop", "copy", "claim"}
Applying == {"write", "up", "verify"}
Restoring == {"halt", "clear", "copyBack", "setAside", "swap", "writeBack", "upAgain"}
Recovering == {"probe", "restart", "recovered"}
Upgrading == Claiming \cup Applying \cup Restoring \cup {"rollback", "restarted", "raise", "blocked"}
PCs == Upgrading \cup Recovering \cup {"idle", "done"}

Workers == [pc : PCs, boot : BOOLEAN, job : Jobs]
Containers == [image : {"old", "new"}, running : BOOLEAN]

\* The types of the state.
TypeOK ==
    /\ journal \in Jobs
    /\ worker \in Workers
    /\ container \in Containers
    /\ compose \in {"old", "new"}
    /\ live \in {"old", "part", "none", "migrated"}
    /\ snapshot \in {"none", "part", "old"} /\ restore \in {"none", "part", "old"}

OldImageRuns == container.image = "old" /\ container.running

\* What was there before the upgrade, and what is there after it.
OldDeployed == OldImageRuns /\ compose = "old" /\ live = "old"
NewDeployed == container.image = "new" /\ compose = "new" /\ live \in {"old", "migrated"}

\* Nothing was deployed, or all of it was put back.
Untouched == container.image = "old" /\ compose = "old" /\ live = "old"

\* What the claims of a job say of the disk, wherever its worker stopped.
Vouches(job) ==
    job \in UpdateJobs =>
      /\ ~job.stopClaimed => container.running /\ ~job.deploymentChangeClaimed
      /\ ~job.deploymentChangeClaimed => Untouched
      /\ job.deploymentChangeClaimed => job.snapshotComplete
      /\ job.snapshotComplete => snapshot = "old"

\* Up to a failure, and while it restores, the journal has all that the
\* worker has claimed.
JournalIsAhead ==
    /\ worker.pc \in Recovering => journal \in RecoveryJobs
    /\ worker.pc \in Upgrading => worker.job \in UpdateJobs /\ journal \in UpdateJobs /\ Running
    /\ worker.pc \in Claiming \cup Applying \cup Restoring => journal = worker.job
    /\ worker.pc \in Claiming => ~worker.job.deploymentChangeClaimed
    /\ worker.pc \in {"preflight", "stop", "copy"} => ~worker.job.snapshotComplete
    /\ worker.pc \in (Claiming \ {"preflight"}) \cup Applying => worker.job.stopClaimed
    /\ worker.pc = "claim" => worker.job.snapshotComplete
    /\ worker.pc \in Applying \cup Restoring => worker.job.deploymentChangeClaimed

\* What is deployed at each point of an upgrade and of its rollback.
DeployedSoFar ==
    /\ worker.pc = "write" => Untouched
    /\ worker.pc = "up" => container.image = "old" /\ compose = "new" /\ live = "old"
    /\ worker.pc = "verify" => NewDeployed
    /\ worker.pc \in Restoring \ {"halt"} => ~container.running
    /\ worker.pc \in {"setAside", "swap"} => restore = "old"
    /\ worker.pc \in {"writeBack", "upAgain"} => live = "old"
    /\ worker.pc = "upAgain" => compose = "old"
    /\ worker.pc = "restarted" => OldDeployed

\* An upgrade whose journal has an outcome has it, and between upgrades a
\* whole deployment is left.
OutcomeHolds ==
    IF journal \in UpdateJobs
    THEN /\ journal.stage = "succeeded" => NewDeployed
         /\ journal.stage \in {"rolled-back", "failed"} => OldDeployed
    ELSE OldDeployed \/ NewDeployed

\* The data is there, or its snapshot.
DataIsSafe ==
    /\ live # "old" => snapshot = "old"
    /\ OldImageRuns => live = "old"
    /\ container.image = "new" => snapshot = "old"

\* A restart that was not made yet was claimed once.
RestartsAreClaimed ==
    /\ restarts \in {0, 1}
    /\ worker.pc \in {"probe", "restart"} => restarts = 0

\* The inductive invariant.
Inv ==
    /\ TypeOK /\ Vouches(journal) /\ Vouches(worker.job)
    /\ JournalIsAhead /\ DeployedSoFar /\ OutcomeHolds
    /\ DataIsSafe /\ RestartsAreClaimed

-----------------------------------------------------------------------------
\* The three kinds of journal differ by their stage or their operation.
LEMMA JobFacts ==
    /\ None \in Jobs /\ None \notin UpdateJobs /\ None \notin RecoveryJobs /\ None.stage = "none"
    /\ \A job \in UpdateJobs :
         job \in Jobs /\ job \notin RecoveryJobs /\ job.operation = "update" /\ job.stage # "none"
    /\ \A job \in RecoveryJobs : job \in Jobs /\ job \notin UpdateJobs /\ job.operation = "recover"
<1>1. None \in Jobs /\ None.stage = "none"
  BY DEF None, Jobs
<1>2. None \notin UpdateJobs /\ None \notin RecoveryJobs
  BY DEF None, UpdateJobs, RecoveryJobs, Stages
<1>3. \A job \in UpdateJobs : job \in Jobs /\ job.operation = "update" /\ job.stage # "none"
  BY DEF UpdateJobs, Jobs, Stages
<1>4. \A job \in RecoveryJobs : job \in Jobs /\ job.operation = "recover"
  BY DEF RecoveryJobs, Jobs
<1>5. QED BY <1>1, <1>2, <1>3, <1>4

\* A new stage leaves the claims of a job alone.
LEMMA StageIsSet ==
    ASSUME NEW job \in UpdateJobs, NEW stage \in Stages
    PROVE  /\ [job EXCEPT !.stage = stage] \in UpdateJobs
           /\ [job EXCEPT !.stage = stage].stage = stage
           /\ [job EXCEPT !.stage = stage].stopClaimed = job.stopClaimed
           /\ [job EXCEPT !.stage = stage].snapshotComplete = job.snapshotComplete
           /\ [job EXCEPT !.stage = stage].deploymentChangeClaimed = job.deploymentChangeClaimed
BY DEF UpdateJobs

\* What the three claims of an upgrade leave in its journal.
LEMMA ClaimIsSet ==
    ASSUME NEW job \in UpdateJobs
    PROVE  LET stop == [job EXCEPT !.stage = "stopping", !.stopClaimed = TRUE]
               copy == [job EXCEPT !.stage = "backed-up", !.snapshotComplete = TRUE]
               change == [job EXCEPT !.stage = "applying", !.deploymentChangeClaimed = TRUE]
           IN  /\ {stop, copy, change} \subseteq UpdateJobs
               /\ stop.stage = "stopping" /\ copy.stage = "backed-up" /\ change.stage = "applying"
               /\ stop.stopClaimed /\ stop.snapshotComplete = job.snapshotComplete
               /\ stop.deploymentChangeClaimed = job.deploymentChangeClaimed
               /\ copy.stopClaimed = job.stopClaimed /\ copy.snapshotComplete
               /\ copy.deploymentChangeClaimed = job.deploymentChangeClaimed
               /\ change.stopClaimed = job.stopClaimed /\ change.snapshotComplete = job.snapshotComplete
               /\ change.deploymentChangeClaimed
BY DEF UpdateJobs, Stages

\* The steps of the worker.
LEMMA PCFacts ==
    /\ Claiming \cup Applying \cup Restoring \subseteq PCs
    /\ Recovering \subseteq PCs
    /\ {"preflight", "stop", "copy", "claim", "write", "up", "verify", "halt", "clear", "copyBack",
        "setAside", "swap", "writeBack", "upAgain", "rollback", "restarted", "raise", "blocked",
        "probe", "restart", "recovered", "idle", "done"} \subseteq PCs
BY DEF PCs, Upgrading, Claiming, Applying, Restoring, Recovering

\* A step of the worker changes only where it is.
LEMMA Goes ==
    ASSUME worker \in Workers, NEW pc \in PCs, Goto(pc)
    PROVE  /\ worker' \in Workers
           /\ worker'.pc = pc /\ worker'.boot = worker.boot /\ worker'.job = worker.job
BY DEF Goto, Workers

\* save() leaves the job in memory, and on disk or not.
LEMMA Saves ==
    ASSUME worker \in Workers, NEW job \in Jobs, NEW pc \in PCs, NEW e \in PCs, Save(job, pc, e)
    PROVE  /\ worker' \in Workers
           /\ worker'.boot = worker.boot /\ worker'.job = job
           /\ \/ journal' = job /\ worker'.pc = pc
              \/ journal' = journal /\ worker'.pc = e
BY DEF Save, Workers

\* A worker that has ended has no job.
LEMMA IdleFacts == Idle \in Workers /\ Idle.pc = "idle" /\ Idle.job = None
BY DEF Idle, Workers, PCs, Jobs

\* What the container is, said by its fields.
LEMMA ContainerFacts ==
    ASSUME NEW c \in Containers
    PROVE  /\ c.image \in {"old", "new"} /\ c.running \in BOOLEAN
           /\ \A image \in {"old", "new"} :
                c = [image |-> image, running |-> TRUE] <=> c.image = image /\ c.running
           /\ \A b \in BOOLEAN : /\ [c EXCEPT !.running = b] \in Containers
                                 /\ [c EXCEPT !.running = b].image = c.image
                                 /\ [c EXCEPT !.running = b].running = b
BY DEF Containers

\* Where the worker and the container are.
LEMMA WorkerFacts ==
    ASSUME TypeOK
    PROVE  /\ worker.pc \in PCs /\ worker.job \in Jobs
           /\ container.image \in {"old", "new"} /\ container.running \in BOOLEAN
BY ContainerFacts DEF TypeOK, Workers

\* A new upgrade has claimed nothing.
LEMMA UpdateFacts ==
    /\ Update \in UpdateJobs /\ Update.stage = "preparing"
    /\ ~Update.stopClaimed /\ ~Update.snapshotComplete /\ ~Update.deploymentChangeClaimed
BY DEF Update, UpdateJobs, Stages

\* A restart of the service is a job of its own.
LEMMA RecoveryFacts == Recovery \in RecoveryJobs
BY DEF Recovery, RecoveryJobs

\* What saving a stage does.
StageSaved(stage, pc, e) ==
    /\ worker' \in Workers /\ worker'.job \in UpdateJobs
    /\ worker'.job.stage = stage
    /\ worker'.job.stopClaimed = worker.job.stopClaimed
    /\ worker'.job.snapshotComplete = worker.job.snapshotComplete
    /\ worker'.job.deploymentChangeClaimed = worker.job.deploymentChangeClaimed
    /\ \/ worker'.pc = pc /\ journal' = worker'.job
       \/ worker'.pc = e /\ journal' = journal

\* A stage that is saved, or not, keeps the claims.
LEMMA SavesStage ==
    ASSUME worker \in Workers, worker.job \in UpdateJobs,
           NEW stage \in Stages, NEW pc \in PCs, NEW e \in PCs, SaveStage(stage, pc, e)
    PROVE  StageSaved(stage, pc, e)
<1> DEFINE job == [worker.job EXCEPT !.stage = stage]
<1>1. /\ job \in UpdateJobs
      /\ job.stage = stage
      /\ job.stopClaimed = worker.job.stopClaimed
      /\ job.snapshotComplete = worker.job.snapshotComplete
      /\ job.deploymentChangeClaimed = worker.job.deploymentChangeClaimed
  BY StageIsSet
<1>2. Save(job, pc, e)
  BY DEF SaveStage
<1> HIDE DEF job
<1>3. QED BY <1>1, <1>2, Saves, JobFacts DEF StageSaved

\* The claim before docker stop.
LEMMA SavesStop ==
    ASSUME worker \in Workers, worker.job \in UpdateJobs,
           Save([worker.job EXCEPT !.stage = "stopping", !.stopClaimed = TRUE], "stop", "rollback")
    PROVE  /\ worker' \in Workers /\ worker'.job \in UpdateJobs
           /\ worker'.job.stage = "stopping" /\ worker'.job.stopClaimed
           /\ worker'.job.snapshotComplete = worker.job.snapshotComplete
           /\ worker'.job.deploymentChangeClaimed = worker.job.deploymentChangeClaimed
           /\ \/ worker'.pc = "stop" /\ journal' = worker'.job
              \/ worker'.pc = "rollback" /\ journal' = journal
<1> DEFINE job == [worker.job EXCEPT !.stage = "stopping", !.stopClaimed = TRUE]
<1>1. /\ job \in UpdateJobs /\ job \in Jobs
      /\ job.stage = "stopping" /\ job.stopClaimed
      /\ job.snapshotComplete = worker.job.snapshotComplete
      /\ job.deploymentChangeClaimed = worker.job.deploymentChangeClaimed
  BY ClaimIsSet, JobFacts
<1> HIDE DEF job
<1>2. Save(job, "stop", "rollback")
  BY DEF job
<1>3. QED BY <1>1, <1>2, Saves, PCFacts

\* The claim of a whole snapshot.
LEMMA SavesCopy ==
    ASSUME worker \in Workers, worker.job \in UpdateJobs,
           Save([worker.job EXCEPT !.stage = "backed-up", !.snapshotComplete = TRUE], "claim", "rollback")
    PROVE  /\ worker' \in Workers /\ worker'.job \in UpdateJobs
           /\ worker'.job.stage = "backed-up" /\ worker'.job.snapshotComplete
           /\ worker'.job.stopClaimed = worker.job.stopClaimed
           /\ worker'.job.deploymentChangeClaimed = worker.job.deploymentChangeClaimed
           /\ \/ worker'.pc = "claim" /\ journal' = worker'.job
              \/ worker'.pc = "rollback" /\ journal' = journal
<1> DEFINE job == [worker.job EXCEPT !.stage = "backed-up", !.snapshotComplete = TRUE]
<1>1. /\ job \in UpdateJobs /\ job \in Jobs
      /\ job.stage = "backed-up" /\ job.snapshotComplete
      /\ job.stopClaimed = worker.job.stopClaimed
      /\ job.deploymentChangeClaimed = worker.job.deploymentChangeClaimed
  BY ClaimIsSet, JobFacts
<1> HIDE DEF job
<1>2. Save(job, "claim", "rollback")
  BY DEF job
<1>3. QED BY <1>1, <1>2, Saves, PCFacts

\* The claim before the deployment is changed.
LEMMA SavesChange ==
    ASSUME worker \in Workers, worker.job \in UpdateJobs,
           Save([worker.job EXCEPT !.stage = "applying", !.deploymentChangeClaimed = TRUE], "write", "rollback")
    PROVE  /\ worker' \in Workers /\ worker'.job \in UpdateJobs
           /\ worker'.job.stage = "applying" /\ worker'.job.deploymentChangeClaimed
           /\ worker'.job.stopClaimed = worker.job.stopClaimed
           /\ worker'.job.snapshotComplete = worker.job.snapshotComplete
           /\ \/ worker'.pc = "write" /\ journal' = worker'.job
              \/ worker'.pc = "rollback" /\ journal' = journal
<1> DEFINE job == [worker.job EXCEPT !.stage = "applying", !.deploymentChangeClaimed = TRUE]
<1>1. /\ job \in UpdateJobs /\ job \in Jobs
      /\ job.stage = "applying" /\ job.deploymentChangeClaimed
      /\ job.stopClaimed = worker.job.stopClaimed
      /\ job.snapshotComplete = worker.job.snapshotComplete
  BY ClaimIsSet, JobFacts
<1> HIDE DEF job
<1>2. Save(job, "write", "rollback")
  BY DEF job
<1>3. QED BY <1>1, <1>2, Saves, PCFacts

\* What an upgrade does not read cannot break its invariant.
LEMMA UnchangedKeepsInv ==
    ASSUME Inv, UNCHANGED <<journal, worker, container, compose, live, snapshot, restore, restarts>>
    PROVE  Inv'
<1>1. TypeOK' BY DEF Inv, TypeOK
<1>2. Vouches(journal)' BY DEF Inv, Vouches, Untouched
<1>3. Vouches(worker.job)' BY DEF Inv, Vouches, Untouched
<1>4. JournalIsAhead' BY DEF Inv, JournalIsAhead, Running
<1>5. DeployedSoFar' BY DEF Inv, DeployedSoFar, NewDeployed, OldDeployed, OldImageRuns, Untouched
<1>6. OutcomeHolds' BY DEF Inv, OutcomeHolds, NewDeployed, OldDeployed, OldImageRuns
<1>7. DataIsSafe' BY DEF Inv, DataIsSafe, OldImageRuns
<1>8. RestartsAreClaimed' BY DEF Inv, RestartsAreClaimed
<1>9. QED BY <1>1, <1>2, <1>3, <1>4, <1>5, <1>6, <1>7, <1>8 DEF Inv

-----------------------------------------------------------------------------
\* An upgrade up to its outcome: each change to the disk comes after its claim is on
\* disk, and Music Assistant migrates the data only under the new image, after the
\* snapshot.
LEMMA ForwardKeepsInv ==
    ASSUME Inv,
           Start \/ Preflight \/ Stop \/ CopyData \/ ClaimChange \/ WriteCompose \/ Up \/ Verify \/ Done \/ Migrate
    PROVE  Inv'
<1> USE JobFacts, WorkerFacts, PCFacts DEF Inv, TypeOK, At, deployment, copies, ledger,
        Vouches, JournalIsAhead, DeployedSoFar, OutcomeHolds, DataIsSafe, RestartsAreClaimed,
        Running, TERMINAL, Untouched, OldDeployed, NewDeployed, OldImageRuns,
        Claiming, Applying, Restoring, Recovering, Upgrading
<1>1. CASE Start
  <2>1. worker' \in Workers /\ worker'.pc = "preflight" /\ worker'.job = journal'
    BY <1>1, UpdateFacts DEF Start, Workers
  <2>2. /\ journal' \in UpdateJobs /\ journal'.stage = "preparing" /\ ~journal'.stopClaimed
        /\ ~journal'.snapshotComplete /\ ~journal'.deploymentChangeClaimed
    BY <1>1, UpdateFacts DEF Start
  <2>3. OldImageRuns /\ journal.stage \in TERMINAL
    BY <1>1 DEF Start
  <2>4. /\ snapshot' = "none" /\ restore' = "none"
        /\ UNCHANGED <<container, compose, live, restarts>>
    BY <1>1 DEF Start
  <2>5. OldDeployed
    BY <2>3
  <2>6. QED BY <2>1, <2>2, <2>4, <2>5
<1>2. CASE Preflight
  <2>1. CASE Goto("rollback") /\ UNCHANGED journal
    BY <1>2, <2>1, Goes DEF Preflight
  <2>2. CASE Save([worker.job EXCEPT !.stage = "stopping", !.stopClaimed = TRUE], "stop", "rollback")
    BY <1>2, <2>2, SavesStop DEF Preflight
  <2>3. QED BY <1>2, <2>1, <2>2 DEF Preflight
<1>3. CASE Stop
  <2>1. /\ worker' \in Workers /\ worker'.pc \in {"copy", "rollback"} /\ worker'.job = worker.job
    BY <1>3, Goes DEF Stop
  <2>2. container' \in Containers /\ container'.image = container.image
    BY <1>3 DEF Stop, Containers
  <2>3. worker'.pc = "copy" => ~container'.running
    BY <1>3, Goes DEF Stop, Containers
  <2>4. QED BY <1>3, <2>1, <2>2, <2>3 DEF Stop
<1>4. CASE CopyData
  <2>1. live = "old"
    BY <1>4 DEF CopyData
  <2>2. CASE snapshot' = live
    BY <1>4, <2>1, <2>2, SavesCopy DEF CopyData
  <2>3. CASE snapshot' # live
    <3>1. worker' \in Workers /\ worker'.pc \in {"copy", "rollback"} /\ worker'.job = worker.job
      BY <1>4, <2>3 DEF CopyData, Workers
    <3>2. QED BY <1>4, <2>1, <2>3, <3>1 DEF CopyData
  <2>4. QED BY <2>2, <2>3
<1>5. CASE ClaimChange
  BY <1>5, SavesChange DEF ClaimChange
<1>6. CASE WriteCompose
  BY <1>6, Goes DEF WriteCompose
<1>7. CASE Up
  <2>1. CASE SaveStage("verifying", "verify", "rollback") /\ container' = [image |-> compose, running |-> TRUE]
    <3>1. container' \in Containers /\ container'.image = "new" /\ container'.running
      BY <1>7, <2>1 DEF Up, Containers
    <3>2. /\ worker \in Workers /\ worker.job \in UpdateJobs
          /\ "verifying" \in Stages /\ "verify" \in PCs /\ "rollback" \in PCs
      BY <1>7 DEF Up, Stages
    <3>3. StageSaved("verifying", "verify", "rollback")
      BY ONLY <2>1, <3>2, SavesStage
    <3>4. QED BY <1>7, <3>1, <3>3 DEF Up, StageSaved
  <2>2. CASE UNCHANGED container /\ Goto("rollback") /\ UNCHANGED journal
    BY <1>7, <2>2, Goes DEF Up
  <2>3. QED BY <1>7, <2>1, <2>2 DEF Up
<1>8. CASE Verify
  <2>1. CASE SaveStage("succeeded", "done", "rollback")
    <3>1. /\ worker \in Workers /\ worker.job \in UpdateJobs
          /\ "succeeded" \in Stages /\ "done" \in PCs /\ "rollback" \in PCs
      BY <1>8 DEF Verify, Stages
    <3>2. StageSaved("succeeded", "done", "rollback")
      BY ONLY <2>1, <3>1, SavesStage
    <3>3. QED BY <1>8, <3>2 DEF Verify, StageSaved
  <2>2. CASE Goto("rollback") /\ UNCHANGED journal
    BY <1>8, <2>2, Goes DEF Verify
  <2>3. QED BY <1>8, <2>1, <2>2 DEF Verify
<1>9. CASE Done
  BY <1>9, IdleFacts DEF Done, End
<1>10. CASE Migrate
  <2>1. container.image = "new" /\ container.running
    BY <1>10 DEF Migrate
  <2>2. QED BY <1>10, <2>1 DEF Migrate
<1>11. QED
  BY <1>1, <1>2, <1>3, <1>4, <1>5, <1>6, <1>7, <1>8, <1>9, <1>10

\* The rollback puts back what was claimed and nothing more, in an order in which the old
\* image never runs on migrated data.
LEMMA BackwardKeepsInv ==
    ASSUME Inv,
           Rollback \/ Halt \/ Clear \/ CopyBack \/ SetAside \/ Swap \/ WriteBack \/ UpAgain \/ Restarted \/ Raise
    PROVE  Inv'
<1> USE JobFacts, WorkerFacts, PCFacts DEF Inv, TypeOK, At, deployment, copies, ledger,
        Vouches, JournalIsAhead, DeployedSoFar, OutcomeHolds, DataIsSafe, RestartsAreClaimed,
        Running, TERMINAL, Untouched, OldDeployed, NewDeployed, OldImageRuns,
        Claiming, Applying, Restoring, Recovering, Upgrading
<1>1. CASE Rollback
  <2>1. /\ worker \in Workers /\ worker.job \in UpdateJobs
        /\ {"failed", "restoring"} \subseteq Stages /\ {"done", "raise", "halt", "restarted"} \subseteq PCs
    BY <1>1 DEF Rollback, Stages
  <2>2. UNCHANGED <<compose, live, snapshot, restore, cooling, restarts>>
    BY <1>1 DEF Rollback
  <2>3. CASE worker.job.stage = "preparing" /\ ~worker.job.stopClaimed
    <3>1. SaveStage("failed", "done", "raise") /\ UNCHANGED container
      BY <1>1, <2>3 DEF Rollback
    <3>2. StageSaved("failed", "done", "raise")
      BY ONLY <2>1, <3>1, SavesStage
    <3>3. QED BY <1>1, <2>2, <2>3, <3>1, <3>2 DEF StageSaved, Rollback
  <2>4. CASE Goto("raise") /\ UNCHANGED <<journal, container>>
    BY <1>1, <2>2, <2>4, Goes DEF Rollback
  <2>5. CASE /\ worker.job.stopClaimed /\ ~worker.job.deploymentChangeClaimed
             /\ container' = [container EXCEPT !.running = TRUE] /\ Goto("restarted") /\ UNCHANGED journal
    <3>1. container' \in Containers /\ container'.image = container.image /\ container'.running
      BY <2>5 DEF Containers
    <3>2. worker' \in Workers /\ worker'.pc = "restarted" /\ worker'.job = worker.job
      BY <2>1, <2>5, Goes
    <3>3. QED BY <1>1, <2>1, <2>2, <2>5, <3>1, <3>2 DEF Rollback
  <2>6. CASE /\ worker.job.stopClaimed /\ worker.job.deploymentChangeClaimed /\ UNCHANGED container
             /\ SaveStage("restoring", "halt", "raise")
    <3>1. StageSaved("restoring", "halt", "raise")
      BY ONLY <2>1, <2>6, SavesStage
    <3>2. QED BY <1>1, <2>2, <2>6, <3>1 DEF StageSaved, Rollback
  <2>7. QED BY <1>1, <2>3, <2>4, <2>5, <2>6 DEF Rollback
<1>2. CASE Halt
  <2>1. worker' \in Workers /\ worker'.pc \in {"clear", "raise"} /\ worker'.job = worker.job
    BY <1>2, Goes DEF Halt
  <2>2. container' \in Containers /\ container'.image = container.image /\ container'.running \in {container.running, FALSE}
    BY <1>2 DEF Halt, Containers
  <2>3. worker'.pc = "clear" => ~container'.running
    BY <1>2, Goes DEF Halt, Containers
  <2>4. QED BY <1>2, <2>1, <2>2, <2>3 DEF Halt
<1>3. CASE Clear
  BY <1>3, Goes DEF Clear
<1>4. CASE CopyBack
  <2>1. /\ worker' \in Workers /\ worker'.pc \in {"copyBack", "raise", "setAside"} /\ worker'.job = worker.job
        /\ restore' \in {"part", snapshot} /\ worker'.pc = "setAside" => restore' = snapshot
    BY <1>4 DEF CopyBack, Goto, Workers
  <2>2. QED BY <1>4, <2>1 DEF CopyBack
<1>5. CASE SetAside
  <2>1. worker' \in Workers /\ worker'.pc \in {"setAside", "swap"} /\ worker'.job = worker.job
    BY <1>5, Goes DEF SetAside
  <2>2. live' \in {"none", "part"}
    BY <1>5 DEF SetAside
  <2>3. QED BY <1>5, <2>1, <2>2 DEF SetAside
<1>6. CASE Swap
  BY <1>6, Goes DEF Swap
<1>7. CASE WriteBack
  <2>1. /\ worker' \in Workers /\ worker'.pc \in {"upAgain", "raise"} /\ worker'.job = worker.job
        /\ compose' \in {compose, "old"} /\ worker'.pc = "upAgain" => compose' = "old"
    BY <1>7, Goes DEF WriteBack
  <2>2. QED BY <1>7, <2>1 DEF WriteBack
<1>8. CASE UpAgain
  <2>1. worker' \in Workers /\ worker'.pc \in {"restarted", "raise"} /\ worker'.job = worker.job
    BY <1>8, Goes DEF UpAgain
  <2>2. CASE UNCHANGED container /\ Goto("raise")
    BY <1>8, <2>1, <2>2, Goes DEF UpAgain
  <2>3. CASE container' = [image |-> compose, running |-> TRUE]
    <3>1. container' \in Containers /\ container'.image = "old" /\ container'.running
      BY <1>8, <2>3 DEF UpAgain, Containers
    <3>2. QED BY <1>8, <2>1, <3>1 DEF UpAgain
  <2>4. QED BY <1>8, <2>2, <2>3 DEF UpAgain
<1>9. CASE Restarted
  <2>1. CASE SaveStage("rolled-back", "done", "raise")
    <3>1. /\ worker \in Workers /\ worker.job \in UpdateJobs
          /\ "rolled-back" \in Stages /\ "done" \in PCs /\ "raise" \in PCs
      BY <1>9 DEF Restarted, Stages
    <3>2. StageSaved("rolled-back", "done", "raise")
      BY ONLY <2>1, <3>1, SavesStage
    <3>3. QED BY <1>9, <3>2 DEF Restarted, StageSaved
  <2>2. CASE Goto("raise") /\ UNCHANGED journal
    BY <1>9, <2>2, Goes DEF Restarted
  <2>3. QED BY <1>9, <2>1, <2>2 DEF Restarted
<1>10. CASE Raise
  <2>1. worker' \in Workers /\ worker'.pc = "blocked" /\ worker'.job = worker.job
    BY <1>10, Goes DEF Raise
  <2>2. CASE UNCHANGED journal
    BY <1>10, <2>1, <2>2 DEF Raise
  <2>3. CASE journal' = [worker.job EXCEPT !.stage = "rollback-required"]
    <3>1. worker.job \in UpdateJobs /\ "rollback-required" \in Stages
      BY <1>10 DEF Raise, Stages
    <3>2. /\ journal' \in UpdateJobs /\ journal'.stage = "rollback-required"
          /\ journal'.stopClaimed = worker.job.stopClaimed
          /\ journal'.snapshotComplete = worker.job.snapshotComplete
          /\ journal'.deploymentChangeClaimed = worker.job.deploymentChangeClaimed
      BY ONLY <2>3, <3>1, StageIsSet
    <3>3. QED BY <1>10, <2>1, <3>2 DEF Raise
  <2>4. QED BY <1>10, <2>2, <2>3 DEF Raise
<1>11. QED
  BY <1>1, <1>2, <1>3, <1>4, <1>5, <1>6, <1>7, <1>8, <1>9, <1>10

\* A restart is claimed before it is made; an end of the process leaves only the journal,
\* and the next start goes on from there.
LEMMA ServiceKeepsInv ==
    ASSUME Inv, Recover \/ Probe \/ RestartService \/ Recovered \/ CoolDown \/ StartupRecover \/ Killed
    PROVE  Inv'
<1> USE JobFacts, WorkerFacts, PCFacts DEF Inv, TypeOK, At, deployment, copies, ledger,
        Vouches, JournalIsAhead, DeployedSoFar, OutcomeHolds, DataIsSafe, RestartsAreClaimed,
        Running, TERMINAL, Untouched, OldDeployed, NewDeployed, OldImageRuns,
        Claiming, Applying, Restoring, Recovering, Upgrading
<1>1. CASE Recover
  <2>1. OldDeployed \/ NewDeployed
    BY <1>1 DEF Recover
  <2>2. restarts' = 0 /\ UNCHANGED <<container, compose, live, snapshot, restore>>
    BY <1>1 DEF Recover, MayRecover
  <2>3. CASE UNCHANGED <<journal, worker>>
    <3>1. worker.pc = "idle"
      BY <1>1 DEF Recover
    <3>2. QED BY <2>2, <2>3, <3>1
  <2>4. CASE journal' = Recovery /\ worker' = [pc |-> "probe", boot |-> FALSE, job |-> Recovery]
    <3>1. /\ journal' \in RecoveryJobs /\ worker' \in Workers /\ worker'.pc = "probe" /\ worker'.job \in RecoveryJobs
      BY <2>4, RecoveryFacts DEF Workers
    <3>2. journal' \in Jobs /\ worker'.job \notin UpdateJobs /\ journal' \notin UpdateJobs
      BY <3>1
    <3>3. QED BY <2>1, <2>2, <3>1, <3>2
  <2>5. QED BY <1>1, <2>3, <2>4 DEF Recover
<1>2. CASE Probe
  <2>1. CASE Goto("restart") /\ UNCHANGED journal
    BY <1>2, <2>1, Goes DEF Probe
  <2>2. CASE worker' = Idle /\ journal' \in RecoveryJobs
    BY <1>2, <2>2, IdleFacts DEF Probe
  <2>3. ASSUME NEW stage \in {"succeeded", "failed"}, End([journal EXCEPT !.stage = stage])
        PROVE  worker' = Idle /\ journal' \in RecoveryJobs
    <3>1. journal \in RecoveryJobs
      BY <1>2 DEF Probe
    <3>2. QED BY ONLY <2>3, <3>1 DEF RecoveryJobs, End
  <2>4. End(journal) => worker' = Idle /\ journal' \in RecoveryJobs
    BY <1>2 DEF Probe, End
  <2>5. QED BY <1>2, <2>1, <2>2, <2>3, <2>4 DEF Probe
<1>3. CASE RestartService
  <2>1. restarts = 0 /\ restarts' = restarts + 1
    BY <1>3 DEF RestartService
  <2>2. worker' \in Workers /\ worker'.pc = "recovered" /\ worker'.job = worker.job
    BY <1>3, Goes DEF RestartService
  <2>3. UNCHANGED <<journal, container, compose, live, snapshot, restore>> /\ worker.pc = "restart"
    BY <1>3 DEF RestartService
  <2>4. restarts' = 1
    BY ONLY <2>1
  <2>5. QED BY <2>2, <2>3, <2>4
<1>4. CASE Recovered
  <2>1. PICK stage \in {"succeeded", "failed", journal.stage} : End([journal EXCEPT !.stage = stage])
    BY <1>4 DEF Recovered
  <2>2. journal \in RecoveryJobs
    BY <1>4 DEF Recovered
  <2>3. worker' = Idle /\ journal' \in RecoveryJobs
    BY ONLY <2>1, <2>2 DEF RecoveryJobs, End
  <2>4. QED BY <1>4, <2>2, <2>3, IdleFacts DEF Recovered
<1>5. CASE CoolDown
  <2>1. UNCHANGED <<journal, worker, container, compose, live, snapshot, restore, restarts>>
    BY <1>5 DEF CoolDown
  <2>2. QED BY <2>1, UnchangedKeepsInv
<1>6. CASE StartupRecover
  <2>1. CASE journal.operation = "recover"
    <3>1. journal \in RecoveryJobs
      BY <2>1, <1>6 DEF StartupRecover, Jobs
    <3>2. journal' \in RecoveryJobs
      BY <1>6, <2>1, <3>1 DEF StartupRecover, RecoveryJobs
    <3>3. QED BY <1>6, <2>1, <3>1, <3>2 DEF StartupRecover
  <2>2. CASE journal.operation # "recover"
    <3>1. journal \in UpdateJobs
      BY <2>2, <1>6 DEF StartupRecover, Jobs
    <3>2. worker' = [pc |-> "rollback", boot |-> TRUE, job |-> journal]
      BY <1>6, <2>2 DEF StartupRecover
    <3>3. worker' \in Workers /\ worker'.pc = "rollback" /\ worker'.job = journal
      BY <3>1, <3>2 DEF Workers
    <3>4. QED BY <1>6, <2>2, <3>1, <3>3 DEF StartupRecover
  <2>3. QED BY <2>1, <2>2
<1>7. CASE Killed
  BY <1>7, IdleFacts DEF Killed
<1>8. QED
  BY <1>1, <1>2, <1>3, <1>4, <1>5, <1>6, <1>7

-----------------------------------------------------------------------------
\* Nothing was upgraded yet.
LEMMA InitInv == Init => Inv
<1> SUFFICES ASSUME Init PROVE Inv
  OBVIOUS
<1>1. TypeOK
  BY JobFacts, IdleFacts DEF Init, TypeOK, Containers
<1>2. OldDeployed /\ journal \notin UpdateJobs /\ worker.job \notin UpdateJobs /\ worker.pc = "idle"
  BY JobFacts, IdleFacts DEF Init, OldDeployed, OldImageRuns
<1>3. restarts = 0
  BY DEF Init
<1>4. QED
  BY <1>1, <1>2, <1>3 DEF Inv, Vouches, JournalIsAhead, DeployedSoFar, OutcomeHolds, DataIsSafe, RestartsAreClaimed,
     OldDeployed, OldImageRuns, Claiming, Applying, Restoring, Recovering, Upgrading

\* Every step keeps the invariant.
LEMMA NextKeepsInv == ASSUME Inv, [Next]_state PROVE Inv'
<1>1. CASE UNCHANGED state
  BY <1>1, UnchangedKeepsInv DEF state, deployment, copies, ledger
<1>2. CASE Next
  BY <1>2, ForwardKeepsInv, BackwardKeepsInv, ServiceKeepsInv DEF Next, Requests, Step
<1>3. QED BY <1>1, <1>2

\* The invariant holds throughout.
THEOREM Invariance == Spec => []Inv
<1>1. QED BY InitInv, NextKeepsInv, PTL DEF Spec

\* The invariant is about the data and the restarts.
LEMMA InvImplies == Inv => DataIsKept /\ RestartsAreNotRepeated
<1> SUFFICES ASSUME Inv PROVE DataIsKept /\ RestartsAreNotRepeated
  OBVIOUS
<1>1. DataIsKept
  <2>1. container = [image |-> "old", running |-> TRUE] => OldImageRuns
    BY DEF OldImageRuns
  <2>2. QED BY <2>1 DEF Inv, DataIsSafe, DataIsKept
<1>2. RestartsAreNotRepeated
  BY DEF Inv, RestartsAreClaimed, RestartsAreNotRepeated
<1>3. QED BY <1>1, <1>2

\* Whenever the data of Music Assistant is not what it was before the upgrade, a whole
\* snapshot of it is there, and the old image never runs on anything else (rollback).
THEOREM DataKept == Spec => []DataIsKept
<1>1. QED BY Invariance, InvImplies, PTL

\* The service is restarted at most once for one claim, whatever ends the process in
\* between (recover, startup_recover).
THEOREM RestartedOnce == Spec => []RestartsAreNotRepeated
<1>1. QED BY Invariance, InvImplies, PTL

-----------------------------------------------------------------------------
\* Nothing is recorded while an upgrade is under way.
UnderWay == journal \in UpdateJobs /\ Running

\* The two deployments that are whole.
LEMMA DeployedFacts ==
    ASSUME TypeOK
    PROVE  /\ Deployed \in {"old", "new", "mixed"}
           /\ OldDeployed => Deployed = "old"
           /\ NewDeployed => Deployed = "new"
<1>1. container = [image |-> "old", running |-> TRUE] <=> container.image = "old" /\ container.running
  BY DEF TypeOK, Containers
<1>2. QED BY <1>1 DEF Deployed, OldDeployed, NewDeployed, OldImageRuns

\* What the journal records of the deployment.
RecordHolds ==
    /\ UnderWay => Recorded = "unknown"
    /\ Recorded = "unknown" \/ (Recorded = Deployed /\ Deployed \in {"old", "new"})
    /\ Deployed \in {"old", "new", "mixed"}

\* What the journal says of an ended upgrade is what is deployed.
LEMMA RecordedFacts == Inv => RecordHolds
<1> SUFFICES ASSUME Inv PROVE RecordHolds
  OBVIOUS
<1>1. TypeOK /\ OutcomeHolds
  BY DEF Inv
<1>2. CASE journal \in UpdateJobs
  <2>1. /\ journal.stage = "succeeded" => Deployed = "new"
        /\ journal.stage \in {"rolled-back", "failed"} => Deployed = "old"
    BY <1>1, <1>2, DeployedFacts DEF OutcomeHolds
  <2>2. journal.operation = "update" /\ journal.stage # "none"
    BY <1>2, JobFacts
  <2>3. QED BY <1>1, <2>1, <2>2, DeployedFacts DEF RecordHolds, Recorded, UnderWay, Running, TERMINAL
<1>3. CASE journal \notin UpdateJobs
  <2>1. Deployed \in {"old", "new"}
    BY <1>1, <1>3, DeployedFacts DEF OutcomeHolds
  <2>2. journal.stage = "none" \/ journal.operation = "recover"
    BY <1>1, <1>3, JobFacts DEF TypeOK, Jobs
  <2>3. journal.operation # "update" \/ journal.stage = "none"
    BY <2>2
  <2>4. Recorded = Deployed
    BY <2>2, <2>3 DEF Recorded
  <2>5. QED BY <1>3, <2>1, <2>4 DEF RecordHolds, UnderWay
<1>4. QED BY <1>2, <1>3

\* A step changes the deployment only with an upgrade in the journal, before and after
\* it.
LEMMA ChangesAreJournaled ==
    ASSUME Inv, Next
    PROVE  UNCHANGED deployment \/ Migrate \/ (UnderWay /\ UnderWay')
<1> USE JobFacts DEF At, Inv, JournalIsAhead, UnderWay, Claiming, Applying, Restoring, Recovering, Upgrading
<1>1. CASE Requests
  BY <1>1 DEF Requests, Start, Recover, StartupRecover
<1>2. CASE Stop \/ WriteCompose \/ Halt \/ SetAside \/ Swap \/ WriteBack \/ UpAgain
  BY <1>2 DEF Stop, WriteCompose, Halt, SetAside, Swap, WriteBack, UpAgain, Running
<1>3. CASE Up
  <2>1. CASE SaveStage("verifying", "verify", "rollback")
    <3>1. /\ worker \in Workers /\ worker.job \in UpdateJobs
          /\ "verifying" \in Stages /\ "verify" \in PCs /\ "rollback" \in PCs
      BY <1>3, PCFacts DEF Up, Stages, TypeOK
    <3>2. StageSaved("verifying", "verify", "rollback")
      BY ONLY <2>1, <3>1, SavesStage
    <3>3. QED BY <1>3, <3>2 DEF Up, StageSaved, Running, TERMINAL
  <2>2. CASE UNCHANGED container
    BY <1>3, <2>2 DEF Up, deployment
  <2>3. QED BY <1>3, <2>1, <2>2 DEF Up
<1>4. CASE Rollback
  <2>1. CASE UNCHANGED journal
    BY <1>4, <2>1 DEF Rollback, Running
  <2>2. CASE journal' # journal
    BY <1>4, <2>2 DEF Rollback, deployment
  <2>3. QED BY <2>1, <2>2
<1>5. CASE \/ Preflight \/ CopyData \/ ClaimChange \/ Verify \/ Done \/ Clear \/ CopyBack \/ Restarted \/ Raise
           \/ Probe \/ RestartService \/ Recovered \/ CoolDown \/ Killed
  BY <1>5 DEF Preflight, CopyData, ClaimChange, Verify, Done, Clear, CopyBack, Restarted, Raise,
     Probe, RestartService, Recovered, CoolDown, Killed
<1>6. QED
  BY <1>1, <1>2, <1>3, <1>4, <1>5 DEF Next, Step

\* The same, after a step.
LEMMA RecordedFactsNext == Inv' => RecordHolds'
BY RecordedFacts, PTL

\* Every step is one of AllOrNothing, or leaves what it is about.
LEMMA StepIsAllOrNothing ==
    ASSUME Inv, Inv', [Next]_state
    PROVE  [Change!Next]_<<Deployed, Recorded>>
<1>1. RecordHolds /\ RecordHolds'
  BY RecordedFacts, RecordedFactsNext
<1>2. CASE Deployed' = Deployed
  BY <1>1, <1>2 DEF RecordHolds, Change!Next, Change!Begin, Change!Settle
<1>3. CASE UnderWay /\ UnderWay'
  BY <1>1, <1>3 DEF RecordHolds, Change!Next, Change!Change
<1>4. UNCHANGED deployment => Deployed' = Deployed
  BY DEF deployment, Deployed
<1>5. Migrate => Deployed' = Deployed
  BY DEF Migrate, Deployed
<1>6. QED
  BY <1>2, <1>3, <1>4, <1>5, ChangesAreJournaled DEF state

\* An upgrade is all or nothing: what the journal says when it ends is deployed, whole,
\* and until then the journal says that it is under way (update, rollback).
THEOREM AllOrNothing == Spec => Change!Spec
<1>1. Init => Change!Init
  BY DEF Init, Change!Init, Deployed, Recorded, None
<1>2. QED
  BY <1>1, Invariance, StepIsAllOrNothing, PTL DEF Spec, Change!Spec

==============================================================================
