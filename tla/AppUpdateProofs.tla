-------------------------- MODULE AppUpdateProofs ----------------------------
(****************************************************************************)
(* An update of the application (app-update-runner.sh) never lets an older  *)
(* build run on the data of a newer one, keeps the backup that its          *)
(* rollback needs, and is all or nothing, for any number of builds. The     *)
(* request file is the journal: once it says that the update started, it    *)
(* names the build to come back to, and the status says nothing settled     *)
(* until every part is of one build.                                        *)
(****************************************************************************)
EXTENDS AppUpdate, TLAPS

\* The update alone, under a lock that is anybody's.
Next == Ask \/ AskCLI \/ Resume \/ Step \/ AgentStep \/ Migrate \/ Killed

\* What the invariant is about: not the lock.
state == <<files, runner, parts, data, hub>>

Spec == Init /\ [][Next]_state

\* A build, or none.
OrNone == 0 .. MaxBuild

\* A request that is pending.
Requested ==
    [action : {"published", "revert"}, to : Builds, current : OrNone, image : OrNone,
     backup : OrNone, failureBackup : OrNone, started : BOOLEAN]

Settled == {"idle", "failed", "completed", "rolled-back"}
Phases == Settled \cup {"preflight", "switching", "verifying", "rollback", "rollback-failed"}

Statuses ==
    [phase : Phases, active : Builds, previous : OrNone, backup : OrNone, revertAvailable : BOOLEAN]

\* The steps of the runner: up to the claim, up to the outcome, and back.
Checking == {"preflight", "preflightFailed", "previous", "save", "claim"}
Switching == {"switch", "refresh", "tags", "stopForRevert", "restoreForRevert", "recreate", "verify"}
RollingBack ==
    {"rollbackEnv", "rollbackAgent", "rollbackTags", "rollbackStop", "rollbackData",
     "rollbackStart", "rollbackHealth", "rolledBack", "rollbackFailed"}
PCs ==
    Checking \cup Switching \cup RollingBack
      \cup {"idle", "starting", "capture", "record", "forget", "complete", "exit", "rollback", "forgetRollback"}

Runners == [pc : PCs, ok : BOOLEAN]

\* The types of the state.
TypeOK ==
    /\ request # None => request \in Requested
    /\ saved \in OrNone
    /\ status \in Statuses
    /\ runner \in Runners
    /\ source \in Builds /\ env \in Builds /\ image \in Builds /\ agent \in Builds /\ data \in Builds
    /\ hub \in BOOLEAN

\* Every part is of one build.
Whole(build) ==
    hub /\ source = build /\ env = build /\ image = build /\ agent = build /\ data = build

\* The request says that something was changed.
Started == request # None /\ request.started

\* What a request that changed nothing yet has recorded.
NothingChanged ==
    /\ ~Started => Whole(status.active)
    /\ request # None /\ ~request.started =>
         /\ request.current \in {0, source} /\ request.image \in {0, source}
         /\ request.action = "published" => request.to > source
         /\ request.action = "revert" => request.backup = request.to /\ request.failureBackup = source

\* What one that changed something can come back to.
ComesBack ==
    Started =>
      /\ request.current \in Builds
      /\ request.image = request.current /\ request.failureBackup = request.current
      /\ saved = request.current
      /\ request.action = "published" => request.to > request.current /\ status.previous \in Builds
      /\ request.action = "revert" => request.backup = request.to
      /\ status.phase \in Settled => Whole(request.current) /\ status.active = request.current

\* What a revert would go back to has its data.
RevertIsWhole ==
    /\ status.previous = status.backup
    /\ status.revertAvailable => status.previous \in Builds

\* Up to the claim.
ChecksAhead ==
    /\ runner.pc \in {"capture"} \cup Checking => request # None
    /\ runner.pc \in Checking => ~request.started /\ request.image = source /\ request.current = source
    /\ runner.pc \in {"previous", "save", "claim"} =>
         /\ request.failureBackup = source /\ status.phase = "preflight"
         /\ request.action = "published" => request.backup = source
    /\ runner.pc \in {"save", "claim"} /\ request.action = "published" => status.previous \in Builds
    /\ runner.pc = "claim" => saved = source

\* From the claim to the outcome.
SwitchedSoFar ==
    /\ runner.pc \in Switching \cup RollingBack \cup {"record", "forget", "rollback", "forgetRollback"} => Started
    /\ runner.pc = "switch" => Whole(request.current) /\ status.phase = "preflight"
    /\ runner.pc \in Switching \ {"switch"} => status.phase = "switching" /\ source = request.to
    /\ runner.pc = "refresh" => agent = request.current
    /\ runner.pc \in Switching \ {"switch", "refresh"} => agent = request.to
    /\ runner.pc \in {"refresh", "tags", "stopForRevert"} => hub /\ image = request.current /\ data = request.current
    /\ runner.pc \in {"refresh", "tags"} => env = request.current
    /\ runner.pc \in {"stopForRevert", "restoreForRevert", "recreate", "verify"} => env = request.to
    /\ runner.pc \in {"stopForRevert", "restoreForRevert"} => request.action = "revert"
    /\ runner.pc = "restoreForRevert" => ~hub
    /\ runner.pc = "recreate" =>
         \/ ~hub /\ data = request.to
         \/ hub /\ image = request.current /\ data = request.current /\ request.action = "published"
    /\ runner.pc = "verify" => image = request.to
    /\ runner.pc \in {"record", "forget"} => Whole(request.to) /\ status.phase = "verifying"
    /\ runner.pc = "forget" => status.active = request.to
    /\ runner.pc = "complete" => request = None

\* Up to the end of a rollback.
RolledBackSoFar ==
    /\ runner.pc \in RollingBack => status.phase = "rollback"
    /\ runner.pc \in RollingBack \ {"rolledBack", "rollbackFailed"} /\ runner.ok => source = request.current
    /\ runner.pc = "rollbackAgent" /\ runner.ok => env = request.current
    /\ runner.pc \in {"rollbackTags", "rollbackStop", "rollbackData", "rollbackStart", "rollbackHealth"} /\ runner.ok =>
         agent = request.current
    /\ runner.pc \in {"rollbackStop", "rollbackData", "rollbackStart", "rollbackHealth"} /\ runner.ok =>
         env = request.current
    /\ runner.pc \in {"rollbackData", "rollbackStart"} => runner.ok /\ ~hub /\ image = request.current
    /\ runner.pc = "rollbackStart" => data = request.current
    /\ runner.pc \in {"rolledBack", "forgetRollback"} => Whole(request.current)
    /\ runner.pc = "forgetRollback" => status.active = request.current

\* The Hub runs on data that it can use.
DataIsOld == hub => data <= image

\* The inductive invariant.
Inv ==
    /\ MaxBuild \in Nat
    /\ TypeOK /\ NothingChanged /\ ComesBack /\ RevertIsWhole
    /\ ChecksAhead /\ SwitchedSoFar /\ RolledBackSoFar /\ DataIsOld

-----------------------------------------------------------------------------
\* No request is no request.
LEMMA NoneFacts == None.action = "none" /\ None \notin Requested
<1>1. None.action = "none"
  BY DEF None
<1>2. \A r \in Requested : r.action \in {"published", "revert"}
  BY DEF Requested
<1>3. QED BY <1>1, <1>2

\* What a request has.
LEMMA RequestFacts ==
    ASSUME request \in Requested
    PROVE  /\ request.action \in {"published", "revert"} /\ request.to \in Builds /\ request.current \in OrNone
           /\ request.image \in OrNone /\ request.backup \in OrNone /\ request.failureBackup \in OrNone
           /\ request.started \in BOOLEAN /\ request # None
BY NoneFacts DEF Requested

\* A request as it is made has started nothing.
LEMMA Asked ==
    ASSUME NEW action \in {"published", "revert"}, NEW to \in Builds, NEW backup \in OrNone,
           NEW failureBackup \in OrNone, NEW current \in OrNone, MaxBuild \in Nat,
           request' = Request(action, to, backup, failureBackup, current)
    PROVE  /\ request' \in Requested /\ request' # None
           /\ request'.action = action /\ request'.to = to /\ request'.current = current /\ request'.image = 0
           /\ request'.backup = backup /\ request'.failureBackup = failureBackup /\ ~request'.started
<1>1. 0 \in OrNone
  BY DEF OrNone
<1>2. request' \in Requested
  BY <1>1 DEF Request, Requested
<1>3. QED BY <1>2, NoneFacts DEF Request

\* What the status has.
LEMMA StatusFacts ==
    ASSUME status \in Statuses
    PROVE  /\ status.phase \in Phases /\ status.active \in Builds /\ status.previous \in OrNone
           /\ status.backup \in OrNone /\ status.revertAvailable \in BOOLEAN
BY DEF Statuses

\* The steps of the runner.
LEMMA PCFacts ==
    {"preflight", "preflightFailed", "previous", "save", "claim", "switch", "refresh", "tags", "stopForRevert",
     "restoreForRevert", "recreate", "verify", "rollbackEnv", "rollbackAgent", "rollbackTags", "rollbackStop",
     "rollbackData", "rollbackStart", "rollbackHealth", "rolledBack", "rollbackFailed", "idle", "starting",
     "capture", "record", "forget", "complete", "exit", "rollback", "forgetRollback"} \subseteq PCs
BY DEF PCs, Checking, Switching, RollingBack

\* A runner that has ended.
LEMMA IdleFacts == Idle \in Runners /\ Idle.pc = "idle"
BY PCFacts DEF Idle, Runners

\* A step of the runner changes only where it is.
LEMMA Goes ==
    ASSUME runner \in Runners, NEW pc \in PCs, Goto(pc)
    PROVE  runner' \in Runners /\ runner'.pc = pc /\ runner'.ok = runner.ok
BY DEF Goto, Runners

\* A step of the rollback remembers that one failed.
LEMMA Tries ==
    ASSUME runner \in Runners, NEW pc \in PCs, NEW worked \in BOOLEAN, Try(worked, pc)
    PROVE  runner' \in Runners /\ runner'.pc = pc /\ (runner'.ok <=> runner.ok /\ worked)
BY DEF Try, Runners

\* A new phase leaves the rest of the status alone.
LEMMA PhaseIsSet ==
    ASSUME status \in Statuses, NEW phase \in Phases, status' = [status EXCEPT !.phase = phase]
    PROVE  /\ status' \in Statuses /\ status'.phase = phase /\ status'.active = status.active
           /\ status'.previous = status.previous /\ status'.backup = status.backup
           /\ status'.revertAvailable = status.revertAvailable
BY DEF Statuses

\* The phases, and which of them are settled.
LEMMA PhaseFacts ==
    /\ {"idle", "failed", "completed", "rolled-back", "preflight", "switching", "verifying",
        "rollback", "rollback-failed"} \subseteq Phases
    /\ Settled \cap {"preflight", "switching", "verifying", "rollback", "rollback-failed"} = {}
BY DEF Phases, Settled

\* A build is a number from one.
LEMMA BuildFacts ==
    ASSUME MaxBuild \in Nat
    PROVE  Builds \subseteq OrNone /\ 0 \in OrNone /\ 0 \notin Builds /\ OrNone \subseteq Nat
BY DEF Builds, OrNone

\* What an update does not read cannot break its invariant.
LEMMA UnchangedKeepsInv == ASSUME Inv, UNCHANGED <<request, saved, status, runner, source, env, image, agent, data, hub>> PROVE Inv'
<1>1. TypeOK'
  BY  DEF Inv, TypeOK
<1>2. NothingChanged'
  BY  DEF Inv, NothingChanged, Started, Whole
<1>3. ComesBack'
  BY  DEF Inv, ComesBack, Started, Whole
<1>4. RevertIsWhole'
  BY  DEF Inv, RevertIsWhole
<1>5. ChecksAhead'
  BY  DEF Inv, ChecksAhead, Checking
<1>6. SwitchedSoFar'
  BY  DEF Inv, SwitchedSoFar, Switching, RollingBack, Started, Whole
<1>7. RolledBackSoFar'
  BY  DEF Inv, RolledBackSoFar, RollingBack, Whole
<1>8. DataIsOld'
  BY  DEF Inv, DataIsOld
<1>9. QED BY <1>1, <1>2, <1>3, <1>4, <1>5, <1>6, <1>7, <1>8 DEF Inv

\* An update is to a newer build; a revert is to the build before, whose data has a
\* backup.
LEMMA AskKeepsInv == ASSUME Inv, Ask PROVE Inv'
<1> USE BuildFacts DEF Inv, TypeOK
<1>1. /\ runner' \in Runners /\ runner'.pc = "starting" /\ request = None
      /\ UNCHANGED <<saved, status, source, env, image, agent, data, hub>>
  BY PCFacts DEF Ask, Runners, parts
<1>2. Whole(status.active) /\ source = data
  BY <1>1 DEF NothingChanged, Started, Whole
<1>3. /\ request' \in Requested /\ request' # None /\ ~request'.started
      /\ request'.current = source /\ request'.image = 0
      /\ request'.action = "published" => request'.to > source
      /\ request'.action = "revert" => request'.backup = request'.to /\ request'.failureBackup = source
  <2>1. CASE source < MaxBuild /\ request' = Request("published", source + 1, 0, 0, source)
    <3>1. source + 1 \in Builds /\ source + 1 > source
      BY <2>1 DEF Builds
    <3>2. QED BY <2>1, <3>1, Asked
  <2>2. CASE status.revertAvailable /\ request' = Request("revert", status.previous, status.backup, data, source)
    <3>1. status.previous \in Builds /\ status.backup = status.previous
      BY <2>2 DEF RevertIsWhole
    <3>2. QED BY <1>2, <2>2, <3>1, Asked
  <2>3. QED BY <2>1, <2>2 DEF Ask
<1>4. TypeOK'
  BY <1>1, <1>3
<1>5. NothingChanged'
  BY <1>1, <1>2, <1>3 DEF NothingChanged, Started, Whole
<1>6. ComesBack' /\ RevertIsWhole' /\ DataIsOld'
  BY <1>1, <1>3 DEF ComesBack, Started, RevertIsWhole, DataIsOld
<1>7. ChecksAhead' /\ SwitchedSoFar' /\ RolledBackSoFar'
  BY <1>1 DEF ChecksAhead, Checking, SwitchedSoFar, Switching, RolledBackSoFar, RollingBack
<1>8. QED BY <1>4, <1>5, <1>6, <1>7

\* An update from the console captures the build to come back to later.
LEMMA AskCLIKeepsInv == ASSUME Inv, AskCLI PROVE Inv'
<1> USE BuildFacts DEF Inv, TypeOK
<1>1. /\ runner' \in Runners /\ runner'.pc = "capture" /\ request = None
      /\ UNCHANGED <<saved, status, source, env, image, agent, data, hub>>
  BY PCFacts DEF AskCLI, Runners, parts
<1>2. source + 1 \in Builds /\ source + 1 > source
  BY DEF AskCLI, Builds
<1>3. /\ request' \in Requested /\ request' # None /\ ~request'.started
      /\ request'.current = 0 /\ request'.image = 0
      /\ request'.action = "published" /\ request'.to > source
  BY <1>2, Asked DEF AskCLI
<1>4. TypeOK'
  BY <1>1, <1>3
<1>5. NothingChanged'
  BY <1>1, <1>3 DEF NothingChanged, Started, Whole
<1>6. ComesBack' /\ RevertIsWhole' /\ DataIsOld'
  BY <1>1, <1>3 DEF ComesBack, Started, RevertIsWhole, DataIsOld
<1>7. ChecksAhead' /\ SwitchedSoFar' /\ RolledBackSoFar'
  BY <1>1, <1>3 DEF ChecksAhead, Checking, SwitchedSoFar, Switching, RolledBackSoFar, RollingBack
<1>8. QED BY <1>4, <1>5, <1>6, <1>7

\* What waits, or ends, between two steps leaves what the request says.
LEMMA WaitsKeepsInv == ASSUME Inv, Resume \/ Killed \/ Exit PROVE Inv'
<1>1. runner' \in Runners /\ runner'.pc \in {"idle", "starting"}
  BY IdleFacts, PCFacts DEF Inv, TypeOK, Runners, Resume, Killed, Exit
<1>2. UNCHANGED <<request, saved, status, source, env, image, agent, data, hub>>
  BY DEF Resume, Killed, Exit, parts, files
<1>3. TypeOK'
  BY <1>1, <1>2 DEF Inv, TypeOK
<1>4. NothingChanged'
  BY <1>1, <1>2 DEF Inv, NothingChanged, Started, Whole
<1>5. ComesBack'
  BY <1>1, <1>2 DEF Inv, ComesBack, Started, Whole
<1>6. RevertIsWhole'
  BY <1>1, <1>2 DEF Inv, RevertIsWhole
<1>7. ChecksAhead'
  BY <1>1, <1>2 DEF Inv, ChecksAhead, Checking
<1>8. SwitchedSoFar'
  BY <1>1, <1>2 DEF Inv, SwitchedSoFar, Switching, RollingBack, Started, Whole
<1>9. RolledBackSoFar'
  BY <1>1, <1>2 DEF Inv, RolledBackSoFar, RollingBack, Whole
<1>10. DataIsOld'
  BY <1>1, <1>2 DEF Inv, DataIsOld
<1>11. QED BY <1>3, <1>4, <1>5, <1>6, <1>7, <1>8, <1>9, <1>10 DEF Inv

\* The runner starts only on a request.
LEMMA StartRunnerKeepsInv == ASSUME Inv, StartRunner PROVE Inv'
<1>1. runner \in Runners
  BY DEF Inv, TypeOK
<1>2. /\ runner' \in Runners /\ runner'.pc \in {"idle", "capture"}
      /\ runner'.pc = "capture" => request # None
  BY <1>1, IdleFacts, PCFacts, Goes DEF StartRunner
<1>3. UNCHANGED <<request, saved, status, source, env, image, agent, data, hub>>
  BY DEF StartRunner, parts, files
<1>4. TypeOK'
  BY <1>1, <1>2, <1>3 DEF Inv, TypeOK
<1>5. NothingChanged'
  BY <1>1, <1>2, <1>3 DEF Inv, NothingChanged, Started, Whole
<1>6. ComesBack'
  BY <1>1, <1>2, <1>3 DEF Inv, ComesBack, Started, Whole
<1>7. RevertIsWhole'
  BY <1>1, <1>2, <1>3 DEF Inv, RevertIsWhole
<1>8. ChecksAhead'
  BY <1>1, <1>2, <1>3 DEF Inv, ChecksAhead, Checking
<1>9. SwitchedSoFar'
  BY <1>1, <1>2, <1>3 DEF Inv, SwitchedSoFar, Switching, RollingBack, Started, Whole
<1>10. RolledBackSoFar'
  BY <1>1, <1>2, <1>3 DEF Inv, RolledBackSoFar, RollingBack, Whole
<1>11. DataIsOld'
  BY <1>1, <1>2, <1>3 DEF Inv, DataIsOld
<1>12. QED BY <1>4, <1>5, <1>6, <1>7, <1>8, <1>9, <1>10, <1>11 DEF Inv

\* The build to come back to is captured once: what was captured before is what runs
\* while nothing was started.
LEMMA CaptureKeepsInv == ASSUME Inv, Capture PROVE Inv'
<1>1. runner.pc = "capture" /\ runner \in Runners /\ request # None /\ request \in Requested
  BY DEF Capture, At, Inv, TypeOK, ChecksAhead, Checking
<1>2. request.started => request.image \in Builds /\ request.current \in Builds
  BY <1>1 DEF Inv, ComesBack, Started
<1>3. ~request.started => image = source /\ source \in Builds /\ request.current \in {0, source} /\ request.image \in {0, source}
  BY <1>1 DEF Inv, TypeOK, NothingChanged, Started, Whole
<1>4. UNCHANGED <<saved, status, source, env, image, agent, data, hub>> /\ source \in OrNone /\ image \in OrNone
  BY BuildFacts DEF Capture, parts, Inv, TypeOK
<1>5. /\ request' \in Requested /\ request' # None /\ request'.action = request.action /\ request'.to = request.to
      /\ request'.backup = request.backup /\ request'.failureBackup = request.failureBackup
      /\ request'.started = request.started
      /\ request'.image = IF request.image = 0 THEN image ELSE request.image
      /\ request'.current = IF request.current = 0 THEN source ELSE request.current
  BY <1>1, <1>4, NoneFacts DEF Capture, Requested
<1>6. request.started => request'.image = request.image /\ request'.current = request.current
  BY <1>2, <1>5, BuildFacts DEF Inv
<1>7. ~request.started => request'.image = source /\ request'.current = source
  BY <1>3, <1>5
<1>8. /\ runner' \in Runners /\ runner'.pc = IF request.started THEN "rollback" ELSE "preflight"
  BY <1>1, PCFacts, Goes DEF Capture
<1>9. TypeOK'
  BY <1>4, <1>5, <1>8 DEF Inv, TypeOK
<1>10. NothingChanged'
  BY <1>1, <1>4, <1>5, <1>7 DEF Inv, NothingChanged, Started, Whole
<1>11. ComesBack'
  BY <1>1, <1>4, <1>5, <1>6 DEF Inv, ComesBack, Started, Whole
<1>12. RevertIsWhole'
  BY <1>4 DEF Inv, RevertIsWhole
<1>13. ChecksAhead'
  BY <1>1, <1>4, <1>5, <1>7, <1>8 DEF ChecksAhead, Checking
<1>14. SwitchedSoFar'
  BY <1>1, <1>5, <1>8 DEF SwitchedSoFar, Switching, RollingBack, Started
<1>15. RolledBackSoFar'
  BY <1>8 DEF RolledBackSoFar, RollingBack
<1>16. DataIsOld'
  BY <1>4 DEF Inv, DataIsOld
<1>17. QED BY <1>9, <1>10, <1>11, <1>12, <1>13, <1>14, <1>15, <1>16 DEF Inv

\* The backup of an update is of the build that runs.
LEMMA PreflightKeepsInv == ASSUME Inv, Preflight PROVE Inv'
<1>1. runner.pc = "preflight" /\ runner \in Runners /\ status \in Statuses /\ request # None /\ request \in Requested
  BY DEF Preflight, At, Inv, TypeOK, ChecksAhead, Checking
<1>2. /\ ~request.started /\ request.image = source /\ request.current = source /\ source \in Builds
      /\ Whole(status.active)
  BY <1>1 DEF Inv, TypeOK, ChecksAhead, Checking, NothingChanged, Started
<1>3. UNCHANGED <<saved, source, env, image, agent, data, hub>>
  BY DEF Preflight, parts, files
<1>4. /\ status' \in Statuses /\ status'.phase = "preflight" /\ status'.active = status.active
      /\ status'.previous = status.previous /\ status'.backup = status.backup
      /\ status'.revertAvailable = status.revertAvailable
  BY <1>1, PhaseIsSet, PhaseFacts DEF Preflight
<1>5. /\ request' \in Requested /\ request' # None /\ ~request'.started /\ request'.action = request.action
      /\ request'.to = request.to /\ request'.image = source /\ request'.current = source
      /\ request.action = "revert" => request'.backup = request.backup /\ request'.failureBackup = request.failureBackup
  BY <1>1, <1>2, NoneFacts, BuildFacts DEF Preflight, Requested, Inv, TypeOK
<1>6. \/ /\ runner' \in Runners /\ runner'.pc = "previous"
         /\ request.action = "published" => request'.backup = data /\ request'.failureBackup = data
      \/ runner' \in Runners /\ runner'.pc = "preflightFailed"
  BY <1>1, PCFacts, Goes DEF Preflight, Requested
<1>7. source = data /\ request.action \in {"published", "revert"}
  BY <1>1, <1>2, RequestFacts DEF Whole
<1>8. TypeOK'
  BY <1>3, <1>4, <1>5, <1>6 DEF Inv, TypeOK
<1>9. NothingChanged'
  BY <1>1, <1>2, <1>3, <1>4, <1>5 DEF Inv, NothingChanged, Started, Whole
<1>10. ComesBack'
  BY <1>5 DEF ComesBack, Started
<1>11. RevertIsWhole'
  BY <1>1, <1>2, <1>3, <1>4, <1>5, <1>6, <1>7 DEF Inv, RevertIsWhole
<1>12. ChecksAhead'
  BY <1>1, <1>2, <1>3, <1>4, <1>5, <1>6, <1>7 DEF Inv, ChecksAhead, Checking, NothingChanged
<1>13. SwitchedSoFar'
  BY <1>1, <1>2, <1>3, <1>4, <1>5, <1>6, <1>7 DEF Inv, SwitchedSoFar, Switching, RollingBack, Started, Whole
<1>14. RolledBackSoFar'
  BY <1>1, <1>2, <1>3, <1>4, <1>5, <1>6, <1>7 DEF Inv, RolledBackSoFar, RollingBack, Whole
<1>15. DataIsOld'
  BY <1>1, <1>2, <1>3, <1>4, <1>5, <1>6, <1>7 DEF Inv, DataIsOld
<1>16. QED BY <1>8, <1>9, <1>10, <1>11, <1>12, <1>13, <1>14, <1>15 DEF Inv

\* Nothing was started, so the request can go.
LEMMA PreflightFailedKeepsInv == ASSUME Inv, PreflightFailed PROVE Inv'
<1>1. runner.pc = "preflightFailed" /\ runner \in Runners /\ status \in Statuses /\ request # None /\ request \in Requested
  BY DEF PreflightFailed, At, Inv, TypeOK, ChecksAhead, Checking
<1>2. /\ ~request.started /\ request.image = source /\ request.current = source /\ source \in Builds
      /\ Whole(status.active)
  BY <1>1 DEF Inv, TypeOK, ChecksAhead, Checking, NothingChanged, Started
<1>3. /\ request' = None /\ saved' = 0 /\ runner' = Idle
      /\ UNCHANGED <<source, env, image, agent, data, hub>>
  BY DEF PreflightFailed, parts
<1>4. /\ status' \in Statuses /\ status'.phase = "failed" /\ status'.active = status.active
      /\ status'.previous = status.previous /\ status'.backup = status.backup
      /\ status'.revertAvailable = status.revertAvailable
  BY <1>1, PhaseIsSet, PhaseFacts DEF PreflightFailed
<1>5. runner' \in Runners /\ runner'.pc = "idle" /\ 0 \in OrNone
  BY <1>3, IdleFacts, BuildFacts DEF Inv
<1>6. TypeOK'
  BY <1>1, <1>2, <1>3, <1>4, <1>5 DEF Inv, TypeOK
<1>7. NothingChanged'
  BY <1>1, <1>2, <1>3, <1>4, <1>5 DEF Inv, NothingChanged, Started, Whole
<1>8. ComesBack'
  BY <1>1, <1>2, <1>3, <1>4, <1>5 DEF Inv, ComesBack, Started, Whole
<1>9. RevertIsWhole'
  BY <1>1, <1>2, <1>3, <1>4, <1>5 DEF Inv, RevertIsWhole
<1>10. ChecksAhead'
  BY <1>1, <1>2, <1>3, <1>4, <1>5 DEF Inv, ChecksAhead, Checking
<1>11. SwitchedSoFar'
  BY <1>1, <1>2, <1>3, <1>4, <1>5 DEF Inv, SwitchedSoFar, Switching, RollingBack, Started, Whole
<1>12. RolledBackSoFar'
  BY <1>1, <1>2, <1>3, <1>4, <1>5 DEF Inv, RolledBackSoFar, RollingBack, Whole
<1>13. DataIsOld'
  BY <1>1, <1>2, <1>3, <1>4, <1>5 DEF Inv, DataIsOld
<1>14. QED BY <1>6, <1>7, <1>8, <1>9, <1>10, <1>11, <1>12, <1>13 DEF Inv

\* What a later revert goes back to has its backup.
LEMMA RecordPreviousKeepsInv == ASSUME Inv, RecordPrevious PROVE Inv'
<1>1. runner.pc = "previous" /\ runner \in Runners /\ status \in Statuses /\ request # None /\ request \in Requested
  BY DEF RecordPrevious, At, Inv, TypeOK, ChecksAhead, Checking
<1>2. /\ ~request.started /\ request.image = source /\ request.current = source /\ source \in Builds
      /\ Whole(status.active)
  BY <1>1 DEF Inv, TypeOK, ChecksAhead, Checking, NothingChanged, Started
<1>3. UNCHANGED <<request, saved, source, env, image, agent, data, hub>>
  BY DEF RecordPrevious, parts, files
<1>4. /\ status.phase = "preflight"
      /\ request.action = "published" => request.backup = source
  BY <1>1 DEF Inv, ChecksAhead
<1>5. /\ status' \in Statuses /\ status'.phase = status.phase /\ status'.active = status.active
      /\ status'.revertAvailable = status.revertAvailable
      /\ IF request.action = "published"
         THEN status'.previous = request.current /\ status'.backup = request.backup
         ELSE status'.previous = status.previous /\ status'.backup = status.backup
  BY <1>1, <1>2, <1>4, BuildFacts DEF RecordPrevious, Statuses, Inv
<1>6. runner' \in Runners /\ runner'.pc \in {"save", "preflightFailed"}
  BY <1>1, PCFacts, Goes DEF RecordPrevious
<1>7. TypeOK'
  BY <1>1, <1>2, <1>3, <1>4, <1>5, <1>6 DEF Inv, TypeOK
<1>8. NothingChanged'
  BY <1>1, <1>2, <1>3, <1>4, <1>5, <1>6 DEF Inv, NothingChanged, Started, Whole
<1>9. ComesBack'
  BY <1>1, <1>2, <1>3, <1>4, <1>5, <1>6 DEF Inv, ComesBack, Started, Whole
<1>10. RevertIsWhole'
  BY <1>1, <1>2, <1>3, <1>4, <1>5, <1>6 DEF Inv, RevertIsWhole
<1>11. ChecksAhead'
  BY <1>1, <1>2, <1>3, <1>4, <1>5, <1>6 DEF Inv, ChecksAhead, Checking
<1>12. SwitchedSoFar'
  BY <1>1, <1>2, <1>3, <1>4, <1>5, <1>6 DEF Inv, SwitchedSoFar, Switching, RollingBack, Started, Whole
<1>13. RolledBackSoFar'
  BY <1>1, <1>2, <1>3, <1>4, <1>5, <1>6 DEF Inv, RolledBackSoFar, RollingBack, Whole
<1>14. DataIsOld'
  BY <1>1, <1>2, <1>3, <1>4, <1>5, <1>6 DEF Inv, DataIsOld
<1>15. QED BY <1>7, <1>8, <1>9, <1>10, <1>11, <1>12, <1>13, <1>14 DEF Inv

\* The saved copies are of the build that runs.
LEMMA SaveCopiesKeepsInv == ASSUME Inv, SaveCopies PROVE Inv'
<1>1. runner.pc = "save" /\ runner \in Runners /\ status \in Statuses /\ request # None /\ request \in Requested
  BY DEF SaveCopies, At, Inv, TypeOK, ChecksAhead, Checking
<1>2. /\ ~request.started /\ request.image = source /\ request.current = source /\ source \in Builds
      /\ Whole(status.active)
  BY <1>1 DEF Inv, TypeOK, ChecksAhead, Checking, NothingChanged, Started
<1>3. UNCHANGED <<request, status, source, env, image, agent, data, hub>>
  BY DEF SaveCopies, parts, files
<1>4. saved' = env /\ env = source /\ env \in OrNone
  BY <1>2, BuildFacts DEF SaveCopies, Whole, Inv, TypeOK
<1>5. runner' \in Runners /\ runner'.pc = "claim"
  BY <1>1, PCFacts, Goes DEF SaveCopies
<1>6. TypeOK'
  BY <1>1, <1>2, <1>3, <1>4, <1>5 DEF Inv, TypeOK
<1>7. NothingChanged'
  BY <1>1, <1>2, <1>3, <1>4, <1>5 DEF Inv, NothingChanged, Started, Whole
<1>8. ComesBack'
  BY <1>1, <1>2, <1>3, <1>4, <1>5 DEF Inv, ComesBack, Started, Whole
<1>9. RevertIsWhole'
  BY <1>1, <1>2, <1>3, <1>4, <1>5 DEF Inv, RevertIsWhole
<1>10. ChecksAhead'
  BY <1>1, <1>2, <1>3, <1>4, <1>5 DEF Inv, ChecksAhead, Checking
<1>11. SwitchedSoFar'
  BY <1>1, <1>2, <1>3, <1>4, <1>5 DEF Inv, SwitchedSoFar, Switching, RollingBack, Started, Whole
<1>12. RolledBackSoFar'
  BY <1>1, <1>2, <1>3, <1>4, <1>5 DEF Inv, RolledBackSoFar, RollingBack, Whole
<1>13. DataIsOld'
  BY <1>1, <1>2, <1>3, <1>4, <1>5 DEF Inv, DataIsOld
<1>14. QED BY <1>6, <1>7, <1>8, <1>9, <1>10, <1>11, <1>12, <1>13 DEF Inv

\* From here the request says that the update started, and has all that its rollback
\* needs.
LEMMA ClaimKeepsInv == ASSUME Inv, Claim PROVE Inv'
<1>1. runner.pc = "claim" /\ runner \in Runners /\ status \in Statuses /\ request # None /\ request \in Requested
  BY DEF Claim, At, Inv, TypeOK, ChecksAhead, Checking
<1>2. /\ ~request.started /\ request.image = source /\ request.current = source /\ source \in Builds
      /\ Whole(status.active)
  BY <1>1 DEF Inv, TypeOK, ChecksAhead, Checking, NothingChanged, Started
<1>3. UNCHANGED <<saved, status, source, env, image, agent, data, hub>>
  BY DEF Claim, parts, files
<1>4. /\ request' \in Requested /\ request' # None /\ request'.started /\ request'.action = request.action
      /\ request'.to = request.to /\ request'.image = request.image /\ request'.current = request.current
      /\ request'.backup = request.backup /\ request'.failureBackup = request.failureBackup
  BY <1>1, NoneFacts DEF Claim, Requested
<1>5. runner' \in Runners /\ runner'.pc = "switch"
  BY <1>1, PCFacts, Goes DEF Claim
<1>6. /\ request.failureBackup = source /\ status.phase = "preflight" /\ saved = source /\ source = status.active
      /\ request.action = "published" => request.to > source /\ status.previous \in Builds
      /\ request.action = "revert" => request.backup = request.to
  BY <1>1, <1>2 DEF Inv, ChecksAhead, Checking, NothingChanged, Whole
<1>7. TypeOK'
  BY <1>1, <1>2, <1>3, <1>4, <1>5, <1>6 DEF Inv, TypeOK
<1>8. NothingChanged'
  BY <1>4 DEF NothingChanged, Started
<1>9. ComesBack'
  BY <1>1, <1>2, <1>3, <1>4, <1>5, <1>6, PhaseFacts DEF Inv, ComesBack, Started, Whole
<1>10. RevertIsWhole'
  BY <1>1, <1>2, <1>3, <1>4, <1>5, <1>6 DEF Inv, RevertIsWhole
<1>11. ChecksAhead'
  BY <1>1, <1>2, <1>3, <1>4, <1>5, <1>6 DEF Inv, ChecksAhead, Checking
<1>12. SwitchedSoFar'
  BY <1>1, <1>2, <1>3, <1>4, <1>5, <1>6 DEF Inv, SwitchedSoFar, Switching, RollingBack, Started, Whole
<1>13. RolledBackSoFar'
  BY <1>1, <1>2, <1>3, <1>4, <1>5, <1>6 DEF Inv, RolledBackSoFar, RollingBack, Whole
<1>14. DataIsOld'
  BY <1>1, <1>2, <1>3, <1>4, <1>5, <1>6 DEF Inv, DataIsOld
<1>15. QED BY <1>7, <1>8, <1>9, <1>10, <1>11, <1>12, <1>13, <1>14 DEF Inv

\* The status is open before the source changes.
LEMMA SwitchKeepsInv == ASSUME Inv, Switch PROVE Inv'
<1>1. /\ runner.pc = "switch" /\ runner \in Runners /\ status \in Statuses
      /\ request # None /\ request \in Requested /\ request.started
  BY DEF Switch, At, Inv, TypeOK, SwitchedSoFar, Switching, RollingBack, Started
<1>2. /\ request.to \in Builds /\ request.backup \in OrNone /\ request.current \in Builds
      /\ saved \in Builds /\ request.image \in Builds /\ request.failureBackup \in Builds
  BY <1>1, RequestFacts DEF Inv, ComesBack, Started
<1>3. /\ Whole(request.current)
      /\ status.phase = "preflight"
  BY <1>1 DEF Inv, SwitchedSoFar, Switching, Whole
<1>4. UNCHANGED <<request, saved, env, image, agent, data, hub>>
  BY DEF Switch, parts, files
<1>5. /\ status' \in Statuses /\ status'.phase = "switching" /\ status'.active = status.active
      /\ status'.previous = status.previous /\ status'.backup = status.backup
      /\ status'.revertAvailable = status.revertAvailable
  BY <1>1, PhaseIsSet, PhaseFacts DEF Switch
<1>6. /\ runner' \in Runners
      /\ \/ runner'.pc = "refresh" /\ source' = request.to
         \/ runner'.pc = "rollback" /\ source' = source
  BY <1>1, <1>2, <1>3, PCFacts, Goes DEF Switch
<1>7. TypeOK'
  BY <1>1, <1>2, <1>3, <1>4, <1>5, <1>6 DEF Inv, TypeOK
<1>8. NothingChanged'
  BY <1>1, <1>2, <1>3, <1>4, <1>5, <1>6 DEF Inv, NothingChanged, Started, Whole
<1>9. ComesBack'
  BY <1>1, <1>2, <1>3, <1>4, <1>5, <1>6, PhaseFacts DEF Inv, ComesBack, Started, Whole
<1>10. RevertIsWhole'
  BY <1>1, <1>2, <1>3, <1>4, <1>5, <1>6 DEF Inv, RevertIsWhole
<1>11. ChecksAhead'
  BY <1>1, <1>2, <1>3, <1>4, <1>5, <1>6 DEF Inv, ChecksAhead, Checking
<1>12. SwitchedSoFar'
  BY <1>1, <1>2, <1>3, <1>4, <1>5, <1>6 DEF Inv, SwitchedSoFar, Switching, RollingBack, Started, Whole
<1>13. RolledBackSoFar'
  BY <1>1, <1>2, <1>3, <1>4, <1>5, <1>6 DEF Inv, RolledBackSoFar, RollingBack, Whole
<1>14. DataIsOld'
  BY <1>1, <1>2, <1>3, <1>4, <1>5, <1>6 DEF Inv, DataIsOld
<1>15. QED BY <1>7, <1>8, <1>9, <1>10, <1>11, <1>12, <1>13, <1>14 DEF Inv

\* The Host Agent follows the source.
LEMMA RefreshAgentKeepsInv == ASSUME Inv, RefreshAgent PROVE Inv'
<1>1. /\ runner.pc = "refresh" /\ runner \in Runners /\ status \in Statuses
      /\ request # None /\ request \in Requested /\ request.started
  BY DEF RefreshAgent, At, Inv, TypeOK, SwitchedSoFar, Switching, RollingBack, Started
<1>2. /\ request.to \in Builds /\ request.backup \in OrNone /\ request.current \in Builds
      /\ saved \in Builds /\ request.image \in Builds /\ request.failureBackup \in Builds
  BY <1>1, RequestFacts DEF Inv, ComesBack, Started
<1>3. /\ status.phase = "switching"
      /\ source = request.to
      /\ agent = request.current
      /\ env = request.current
      /\ hub /\ image = request.current /\ data = request.current
  BY <1>1 DEF Inv, SwitchedSoFar, Switching, Whole
<1>4. UNCHANGED <<request, saved, status, source, env, image, data, hub>>
  BY DEF RefreshAgent, parts, files
<1>5. runner' \in Runners /\ runner'.pc \in {"tags", "rollback"} /\ agent' = request.to
  BY <1>1, <1>2, <1>3, PCFacts, Goes DEF RefreshAgent
<1>6. TypeOK'
  BY <1>1, <1>2, <1>3, <1>4, <1>5 DEF Inv, TypeOK
<1>7. NothingChanged'
  BY <1>1, <1>2, <1>3, <1>4, <1>5 DEF Inv, NothingChanged, Started, Whole
<1>8. ComesBack'
  BY <1>1, <1>2, <1>3, <1>4, <1>5, PhaseFacts DEF Inv, ComesBack, Started, Whole
<1>9. RevertIsWhole'
  BY <1>1, <1>2, <1>3, <1>4, <1>5 DEF Inv, RevertIsWhole
<1>10. ChecksAhead'
  BY <1>1, <1>2, <1>3, <1>4, <1>5 DEF Inv, ChecksAhead, Checking
<1>11. SwitchedSoFar'
  BY <1>1, <1>2, <1>3, <1>4, <1>5 DEF Inv, SwitchedSoFar, Switching, RollingBack, Started, Whole
<1>12. RolledBackSoFar'
  BY <1>1, <1>2, <1>3, <1>4, <1>5 DEF Inv, RolledBackSoFar, RollingBack, Whole
<1>13. DataIsOld'
  BY <1>1, <1>2, <1>3, <1>4, <1>5 DEF Inv, DataIsOld
<1>14. QED BY <1>6, <1>7, <1>8, <1>9, <1>10, <1>11, <1>12, <1>13 DEF Inv

\* The tags follow; a Hub that runs is still the old one.
LEMMA SetTagsKeepsInv == ASSUME Inv, SetTags PROVE Inv'
<1>1. /\ runner.pc = "tags" /\ runner \in Runners /\ status \in Statuses
      /\ request # None /\ request \in Requested /\ request.started
  BY DEF SetTags, At, Inv, TypeOK, SwitchedSoFar, Switching, RollingBack, Started
<1>2. /\ request.to \in Builds /\ request.backup \in OrNone /\ request.current \in Builds
      /\ saved \in Builds /\ request.image \in Builds /\ request.failureBackup \in Builds
  BY <1>1, RequestFacts DEF Inv, ComesBack, Started
<1>3. /\ status.phase = "switching"
      /\ source = request.to
      /\ agent = request.to
      /\ env = request.current
      /\ hub /\ image = request.current /\ data = request.current
  BY <1>1 DEF Inv, SwitchedSoFar, Switching, Whole
<1>4. UNCHANGED <<request, saved, status, source, agent, image, data, hub>>
  BY DEF SetTags, parts, files
<1>5. request.action \in {"published", "revert"}
  BY <1>1, RequestFacts
<1>6. /\ runner' \in Runners /\ env' = request.to
      /\ \/ runner'.pc = IF request.action = "revert" THEN "stopForRevert" ELSE "recreate"
         \/ runner'.pc = "rollback"
  BY <1>1, <1>2, <1>3, PCFacts, Goes DEF SetTags
<1>7. TypeOK'
  BY <1>1, <1>2, <1>3, <1>4, <1>5, <1>6 DEF Inv, TypeOK
<1>8. NothingChanged'
  BY <1>1, <1>2, <1>3, <1>4, <1>5, <1>6 DEF Inv, NothingChanged, Started, Whole
<1>9. ComesBack'
  BY <1>1, <1>2, <1>3, <1>4, <1>5, <1>6, PhaseFacts DEF Inv, ComesBack, Started, Whole
<1>10. RevertIsWhole'
  BY <1>1, <1>2, <1>3, <1>4, <1>5, <1>6 DEF Inv, RevertIsWhole
<1>11. ChecksAhead'
  BY <1>1, <1>2, <1>3, <1>4, <1>5, <1>6 DEF Inv, ChecksAhead, Checking
<1>12. SwitchedSoFar'
  BY <1>1, <1>2, <1>3, <1>4, <1>5, <1>6 DEF Inv, SwitchedSoFar, Switching, RollingBack, Started, Whole
<1>13. RolledBackSoFar'
  BY <1>1, <1>2, <1>3, <1>4, <1>5, <1>6 DEF Inv, RolledBackSoFar, RollingBack, Whole
<1>14. DataIsOld'
  BY <1>1, <1>2, <1>3, <1>4, <1>5, <1>6 DEF Inv, DataIsOld
<1>15. QED BY <1>7, <1>8, <1>9, <1>10, <1>11, <1>12, <1>13, <1>14 DEF Inv

\* A revert restores data only under a stopped Hub.
LEMMA StopForRevertKeepsInv == ASSUME Inv, StopForRevert PROVE Inv'
<1>1. /\ runner.pc = "stopForRevert" /\ runner \in Runners /\ status \in Statuses
      /\ request # None /\ request \in Requested /\ request.started
  BY DEF StopForRevert, At, Inv, TypeOK, SwitchedSoFar, Switching, RollingBack, Started
<1>2. /\ request.to \in Builds /\ request.backup \in OrNone /\ request.current \in Builds
      /\ saved \in Builds /\ request.image \in Builds /\ request.failureBackup \in Builds
  BY <1>1, RequestFacts DEF Inv, ComesBack, Started
<1>3. /\ status.phase = "switching" /\ request.action = "revert"
      /\ source = request.to
      /\ agent = request.to
      /\ env = request.to
      /\ hub /\ image = request.current /\ data = request.current
  BY <1>1 DEF Inv, SwitchedSoFar, Switching, Whole
<1>4. UNCHANGED <<request, saved, status, source, agent, env, data>>
  BY DEF StopForRevert, parts, files
<1>5. /\ runner' \in Runners /\ hub' \in BOOLEAN
      /\ \/ runner'.pc = "restoreForRevert" /\ ~hub' /\ image' = request.to
         \/ runner'.pc = "rollback" /\ image' = image
  BY <1>1, <1>2, <1>3, PCFacts, Goes DEF StopForRevert
<1>6. TypeOK'
  BY <1>1, <1>2, <1>3, <1>4, <1>5 DEF Inv, TypeOK
<1>7. NothingChanged'
  BY <1>1, <1>2, <1>3, <1>4, <1>5 DEF Inv, NothingChanged, Started, Whole
<1>8. ComesBack'
  BY <1>1, <1>2, <1>3, <1>4, <1>5, PhaseFacts DEF Inv, ComesBack, Started, Whole
<1>9. RevertIsWhole'
  BY <1>1, <1>2, <1>3, <1>4, <1>5 DEF Inv, RevertIsWhole
<1>10. ChecksAhead'
  BY <1>1, <1>2, <1>3, <1>4, <1>5 DEF Inv, ChecksAhead, Checking
<1>11. SwitchedSoFar'
  BY <1>1, <1>2, <1>3, <1>4, <1>5 DEF Inv, SwitchedSoFar, Switching, RollingBack, Started, Whole
<1>12. RolledBackSoFar'
  BY <1>1, <1>2, <1>3, <1>4, <1>5 DEF Inv, RolledBackSoFar, RollingBack, Whole
<1>13. DataIsOld'
  BY <1>1, <1>2, <1>3, <1>4, <1>5 DEF Inv, DataIsOld
<1>14. QED BY <1>6, <1>7, <1>8, <1>9, <1>10, <1>11, <1>12, <1>13 DEF Inv

\* The backup of a revert is of the build that it goes to.
LEMMA RestoreForRevertKeepsInv == ASSUME Inv, RestoreForRevert PROVE Inv'
<1>1. /\ runner.pc = "restoreForRevert" /\ runner \in Runners /\ status \in Statuses
      /\ request # None /\ request \in Requested /\ request.started
  BY DEF RestoreForRevert, At, Inv, TypeOK, SwitchedSoFar, Switching, RollingBack, Started
<1>2. /\ request.to \in Builds /\ request.backup \in OrNone /\ request.current \in Builds
      /\ saved \in Builds /\ request.image \in Builds /\ request.failureBackup \in Builds
  BY <1>1, RequestFacts DEF Inv, ComesBack, Started
<1>3. /\ status.phase = "switching" /\ request.action = "revert"
      /\ source = request.to
      /\ agent = request.to
      /\ env = request.to
      /\ ~hub
  BY <1>1 DEF Inv, SwitchedSoFar, Switching, Whole
<1>4. UNCHANGED <<request, saved, status, source, agent, env, image, hub>>
  BY DEF RestoreForRevert, parts, files
<1>5. request.backup = request.to
  BY <1>1, <1>3 DEF Inv, ComesBack, Started
<1>6. /\ runner' \in Runners /\ data' \in Builds
      /\ \/ runner'.pc = "recreate" /\ data' = request.to
         \/ runner'.pc = "rollback"
  BY <1>1, <1>2, <1>5, PCFacts, Goes DEF RestoreForRevert, Inv, TypeOK
<1>7. TypeOK'
  BY <1>1, <1>2, <1>3, <1>4, <1>5, <1>6 DEF Inv, TypeOK
<1>8. NothingChanged'
  BY <1>1, <1>2, <1>3, <1>4, <1>5, <1>6 DEF Inv, NothingChanged, Started, Whole
<1>9. ComesBack'
  BY <1>1, <1>2, <1>3, <1>4, <1>5, <1>6, PhaseFacts DEF Inv, ComesBack, Started, Whole
<1>10. RevertIsWhole'
  BY <1>1, <1>2, <1>3, <1>4, <1>5, <1>6 DEF Inv, RevertIsWhole
<1>11. ChecksAhead'
  BY <1>1, <1>2, <1>3, <1>4, <1>5, <1>6 DEF Inv, ChecksAhead, Checking
<1>12. SwitchedSoFar'
  BY <1>1, <1>2, <1>3, <1>4, <1>5, <1>6 DEF Inv, SwitchedSoFar, Switching, RollingBack, Started, Whole
<1>13. RolledBackSoFar'
  BY <1>1, <1>2, <1>3, <1>4, <1>5, <1>6 DEF Inv, RolledBackSoFar, RollingBack, Whole
<1>14. DataIsOld'
  BY <1>1, <1>2, <1>3, <1>4, <1>5, <1>6 DEF Inv, DataIsOld
<1>15. QED BY <1>7, <1>8, <1>9, <1>10, <1>11, <1>12, <1>13, <1>14 DEF Inv

\* The Hub starts on data that is of its build or older.
LEMMA RecreateKeepsInv == ASSUME Inv, Recreate PROVE Inv'
<1>1. /\ runner.pc = "recreate" /\ runner \in Runners /\ status \in Statuses
      /\ request # None /\ request \in Requested /\ request.started
  BY DEF Recreate, At, Inv, TypeOK, SwitchedSoFar, Switching, RollingBack, Started
<1>2. /\ request.to \in Builds /\ request.backup \in OrNone /\ request.current \in Builds
      /\ saved \in Builds /\ request.image \in Builds /\ request.failureBackup \in Builds
  BY <1>1, RequestFacts DEF Inv, ComesBack, Started
<1>3. /\ status.phase = "switching"
      /\ source = request.to
      /\ agent = request.to
      /\ env = request.to
      /\ \/ ~hub /\ data = request.to
         \/ hub /\ image = request.current /\ data = request.current /\ request.action = "published"
  BY <1>1 DEF Inv, SwitchedSoFar, Switching, Whole
<1>4. UNCHANGED <<request, saved, status, source, agent, env, data>>
  BY DEF Recreate, parts, files
<1>5. data <= request.to
  BY <1>1, <1>2, <1>3 DEF Inv, ComesBack, Started, Builds
<1>6. /\ runner' \in Runners /\ hub' \in BOOLEAN
      /\ \/ runner'.pc = "verify" /\ image' = request.to /\ hub'
         \/ runner'.pc = "rollback" /\ image' \in {image, request.to} /\ ~hub'
         \/ runner'.pc = "rollback" /\ UNCHANGED <<image, hub>>
  BY <1>1, <1>2, <1>3, PCFacts, Goes DEF Recreate, Inv, TypeOK
<1>7. TypeOK'
  BY <1>1, <1>2, <1>3, <1>4, <1>5, <1>6 DEF Inv, TypeOK
<1>8. NothingChanged'
  BY <1>1, <1>2, <1>3, <1>4, <1>5, <1>6 DEF Inv, NothingChanged, Started, Whole
<1>9. ComesBack'
  BY <1>1, <1>2, <1>3, <1>4, <1>5, <1>6, PhaseFacts DEF Inv, ComesBack, Started, Whole
<1>10. RevertIsWhole'
  BY <1>1, <1>2, <1>3, <1>4, <1>5, <1>6 DEF Inv, RevertIsWhole
<1>11. ChecksAhead'
  BY <1>1, <1>2, <1>3, <1>4, <1>5, <1>6 DEF Inv, ChecksAhead, Checking
<1>12. SwitchedSoFar'
  BY <1>1, <1>2, <1>3, <1>4, <1>5, <1>6 DEF Inv, SwitchedSoFar, Switching, RollingBack, Started, Whole
<1>13. RolledBackSoFar'
  BY <1>1, <1>2, <1>3, <1>4, <1>5, <1>6 DEF Inv, RolledBackSoFar, RollingBack, Whole
<1>14. DataIsOld'
  BY <1>1, <1>2, <1>3, <1>4, <1>5, <1>6 DEF Inv, DataIsOld
<1>15. QED BY <1>7, <1>8, <1>9, <1>10, <1>11, <1>12, <1>13, <1>14 DEF Inv

\* A migration needs data older than the build, so it is within an update that started.
LEMMA MigrateKeepsInv == ASSUME Inv, Migrate PROVE Inv'
<1>1. UNCHANGED <<request, saved, status, runner, source, env, image, agent, hub>> /\ data' = image /\ hub
  BY DEF Migrate, files, parts
<1>2. \A build \in Builds : ~Whole(build)
  <2> SUFFICES ASSUME NEW build \in Builds, Whole(build) PROVE FALSE
    OBVIOUS
  <2>1. data < data /\ data \in Nat
    BY BuildFacts DEF Whole, Migrate, Inv, TypeOK
  <2>2. QED BY <2>1
<1>3. data # image /\ image \in Builds /\ image \in Nat /\ data \in Nat
  BY BuildFacts DEF Migrate, Inv, TypeOK
<1>4. Started /\ (Started)'
  BY <1>1, <1>2 DEF Inv, TypeOK, Statuses, NothingChanged, Started
<1>5. request.current \in Builds /\ request.to \in Builds
  BY <1>4, RequestFacts DEF Inv, TypeOK, ComesBack, Started
<1>6. TypeOK' /\ RevertIsWhole' /\ ChecksAhead' /\ DataIsOld'
  BY <1>1, <1>3 DEF Inv, TypeOK, RevertIsWhole, ChecksAhead, DataIsOld
<1>7. NothingChanged'
  BY <1>1, <1>4 DEF NothingChanged, Started
<1>8. ComesBack'
  BY <1>1, <1>2, <1>5 DEF Inv, ComesBack, Started, Whole
<1>9. SwitchedSoFar'
  <2>1. runner.pc \notin {"switch", "refresh", "tags", "stopForRevert", "recreate", "record", "forget"}
    BY <1>1, <1>2, <1>3, <1>5 DEF Inv, SwitchedSoFar, Switching
  <2>2. QED BY <1>1, <1>4, <2>1 DEF Inv, SwitchedSoFar, Switching, RollingBack, Whole, Started
<1>10. RolledBackSoFar'
  <2>1. runner.pc \notin {"rollbackStart", "rolledBack", "forgetRollback"}
    BY <1>1, <1>2, <1>5 DEF Inv, RolledBackSoFar
  <2>2. QED BY <1>1, <2>1 DEF Inv, RolledBackSoFar, RollingBack, Whole
<1>11. QED BY <1>6, <1>7, <1>8, <1>9, <1>10 DEF Inv

\* Only a whole update is recorded.
LEMMA VerifyKeepsInv == ASSUME Inv, Verify PROVE Inv'
<1>1. /\ runner.pc = "verify" /\ runner \in Runners /\ status \in Statuses
      /\ request # None /\ request \in Requested /\ request.started
  BY DEF Verify, At, Inv, TypeOK, SwitchedSoFar, Switching, RollingBack, Started
<1>2. /\ request.to \in Builds /\ request.backup \in OrNone /\ request.current \in Builds
      /\ saved \in Builds /\ request.image \in Builds /\ request.failureBackup \in Builds
  BY <1>1, RequestFacts DEF Inv, ComesBack, Started
<1>3. /\ source = request.to
      /\ agent = request.to
      /\ env = request.to
  BY <1>1 DEF Inv, SwitchedSoFar, Switching, Whole
<1>4. UNCHANGED <<request, saved, source, env, image, agent, data, hub>>
  BY DEF Verify, parts, files
<1>5. /\ status' \in Statuses /\ status'.phase = "verifying" /\ status'.active = status.active
      /\ status'.previous = status.previous /\ status'.backup = status.backup
      /\ status'.revertAvailable = status.revertAvailable
  BY <1>1, PhaseIsSet, PhaseFacts DEF Verify
<1>6. /\ runner' \in Runners
      /\ \/ runner'.pc = "record" /\ hub /\ data = image /\ image = request.to
         \/ runner'.pc = "rollback"
  BY <1>1, <1>2, <1>3, PCFacts, Goes DEF Verify, Healthy
<1>7. TypeOK'
  BY <1>1, <1>2, <1>3, <1>4, <1>5, <1>6 DEF Inv, TypeOK
<1>8. NothingChanged'
  BY <1>1, <1>2, <1>3, <1>4, <1>5, <1>6 DEF Inv, NothingChanged, Started, Whole
<1>9. ComesBack'
  BY <1>1, <1>2, <1>3, <1>4, <1>5, <1>6, PhaseFacts DEF Inv, ComesBack, Started, Whole
<1>10. RevertIsWhole'
  BY <1>1, <1>2, <1>3, <1>4, <1>5, <1>6 DEF Inv, RevertIsWhole
<1>11. ChecksAhead'
  BY <1>1, <1>2, <1>3, <1>4, <1>5, <1>6 DEF Inv, ChecksAhead, Checking
<1>12. SwitchedSoFar'
  BY <1>1, <1>2, <1>3, <1>4, <1>5, <1>6 DEF Inv, SwitchedSoFar, Switching, RollingBack, Started, Whole
<1>13. RolledBackSoFar'
  BY <1>1, <1>2, <1>3, <1>4, <1>5, <1>6 DEF Inv, RolledBackSoFar, RollingBack, Whole
<1>14. DataIsOld'
  BY <1>1, <1>2, <1>3, <1>4, <1>5, <1>6 DEF Inv, DataIsOld
<1>15. QED BY <1>7, <1>8, <1>9, <1>10, <1>11, <1>12, <1>13, <1>14 DEF Inv

\* The status is written before the request goes, and is open still.
LEMMA RecordKeepsInv == ASSUME Inv, Record PROVE Inv'
<1>1. /\ runner.pc = "record" /\ runner \in Runners /\ status \in Statuses
      /\ request # None /\ request \in Requested /\ request.started
  BY DEF Record, At, Inv, TypeOK, SwitchedSoFar, Switching, RollingBack, Started
<1>2. /\ request.to \in Builds /\ request.backup \in OrNone /\ request.current \in Builds
      /\ saved \in Builds /\ request.image \in Builds /\ request.failureBackup \in Builds
  BY <1>1, RequestFacts DEF Inv, ComesBack, Started
<1>3. /\ Whole(request.to)
      /\ status.phase = "verifying"
  BY <1>1 DEF Inv, SwitchedSoFar, Switching, Whole
<1>4. UNCHANGED <<request, saved, source, env, image, agent, data, hub>>
  BY DEF Record, parts, files
<1>5. /\ status' \in Statuses /\ status'.phase = "verifying" /\ status'.active = request.to
      /\ \/ ~status'.revertAvailable /\ status'.previous = 0 /\ status'.backup = 0 /\ request.action = "revert"
         \/ /\ status'.previous = status.previous /\ status'.backup = status.backup /\ request.action = "published"
            /\ status.previous \in Builds
  BY <1>1, <1>2, <1>3, RequestFacts, BuildFacts DEF Record, Statuses, Inv, ComesBack, Started
<1>6. runner' \in Runners /\ runner'.pc \in {"forget", "exit"}
  BY <1>1, PCFacts, Goes DEF Record
<1>7. TypeOK'
  BY <1>1, <1>2, <1>3, <1>4, <1>5, <1>6 DEF Inv, TypeOK
<1>8. NothingChanged'
  BY <1>1, <1>2, <1>3, <1>4, <1>5, <1>6 DEF Inv, NothingChanged, Started, Whole
<1>9. ComesBack'
  BY <1>1, <1>2, <1>3, <1>4, <1>5, <1>6, PhaseFacts DEF Inv, ComesBack, Started, Whole
<1>10. RevertIsWhole'
  BY <1>1, <1>2, <1>3, <1>4, <1>5, <1>6 DEF Inv, RevertIsWhole
<1>11. ChecksAhead'
  BY <1>1, <1>2, <1>3, <1>4, <1>5, <1>6 DEF Inv, ChecksAhead, Checking
<1>12. SwitchedSoFar'
  BY <1>1, <1>2, <1>3, <1>4, <1>5, <1>6 DEF Inv, SwitchedSoFar, Switching, RollingBack, Started, Whole
<1>13. RolledBackSoFar'
  BY <1>1, <1>2, <1>3, <1>4, <1>5, <1>6 DEF Inv, RolledBackSoFar, RollingBack, Whole
<1>14. DataIsOld'
  BY <1>1, <1>2, <1>3, <1>4, <1>5, <1>6 DEF Inv, DataIsOld
<1>15. QED BY <1>7, <1>8, <1>9, <1>10, <1>11, <1>12, <1>13, <1>14 DEF Inv

\* With the request gone the build that is recorded is the one that runs.
LEMMA ForgetKeepsInv == ASSUME Inv, Forget PROVE Inv'
<1>1. /\ runner.pc = "forget" /\ runner \in Runners /\ status \in Statuses
      /\ request # None /\ request \in Requested /\ request.started
  BY DEF Forget, At, Inv, TypeOK, SwitchedSoFar, Switching, RollingBack, Started
<1>2. /\ request.to \in Builds /\ request.backup \in OrNone /\ request.current \in Builds
      /\ saved \in Builds /\ request.image \in Builds /\ request.failureBackup \in Builds
  BY <1>1, RequestFacts DEF Inv, ComesBack, Started
<1>3. /\ Whole(request.to)
      /\ status.active = request.to
  BY <1>1 DEF Inv, SwitchedSoFar, Switching, Whole
<1>4. UNCHANGED <<status, source, env, image, agent, data, hub>>
  BY DEF Forget, parts, files
<1>5. request' = None /\ saved' = 0 /\ 0 \in OrNone
  BY BuildFacts DEF Forget, Inv
<1>6. runner' \in Runners /\ runner'.pc = "complete"
  BY <1>1, PCFacts, Goes DEF Forget
<1>7. TypeOK'
  BY <1>1, <1>2, <1>3, <1>4, <1>5, <1>6 DEF Inv, TypeOK
<1>8. NothingChanged'
  BY <1>1, <1>2, <1>3, <1>4, <1>5, <1>6 DEF Inv, NothingChanged, Started, Whole
<1>9. ComesBack'
  BY <1>1, <1>2, <1>3, <1>4, <1>5, <1>6 DEF Inv, ComesBack, Started, Whole
<1>10. RevertIsWhole'
  BY <1>1, <1>2, <1>3, <1>4, <1>5, <1>6 DEF Inv, RevertIsWhole
<1>11. ChecksAhead'
  BY <1>1, <1>2, <1>3, <1>4, <1>5, <1>6 DEF Inv, ChecksAhead, Checking
<1>12. SwitchedSoFar'
  BY <1>1, <1>2, <1>3, <1>4, <1>5, <1>6 DEF Inv, SwitchedSoFar, Switching, RollingBack, Started, Whole
<1>13. RolledBackSoFar'
  BY <1>1, <1>2, <1>3, <1>4, <1>5, <1>6 DEF Inv, RolledBackSoFar, RollingBack, Whole
<1>14. DataIsOld'
  BY <1>1, <1>2, <1>3, <1>4, <1>5, <1>6 DEF Inv, DataIsOld
<1>15. QED BY <1>7, <1>8, <1>9, <1>10, <1>11, <1>12, <1>13, <1>14 DEF Inv

\* The status is settled last.
LEMMA CompleteKeepsInv == ASSUME Inv, Complete PROVE Inv'
<1>1. runner.pc = "complete" /\ status \in Statuses /\ request = None
  BY DEF Complete, At, Inv, TypeOK, SwitchedSoFar
<1>2. UNCHANGED <<request, saved, source, env, image, agent, data, hub>>
  BY DEF Complete, parts, files
<1>3. /\ status' \in Statuses /\ status'.phase = "completed" /\ status'.active = status.active
      /\ status'.previous = status.previous /\ status'.backup = status.backup
      /\ status'.revertAvailable = status.revertAvailable
  BY <1>1, PhaseIsSet, PhaseFacts DEF Complete
<1>4. runner' \in Runners /\ runner'.pc = "idle"
  BY IdleFacts DEF Complete
<1>5. TypeOK'
  BY <1>1, <1>2, <1>3, <1>4 DEF Inv, TypeOK
<1>6. NothingChanged'
  BY <1>1, <1>2, <1>3, <1>4 DEF Inv, NothingChanged, Started, Whole
<1>7. ComesBack'
  BY <1>1, <1>2, <1>3, <1>4 DEF Inv, ComesBack, Started, Whole
<1>8. RevertIsWhole'
  BY <1>1, <1>2, <1>3, <1>4 DEF Inv, RevertIsWhole
<1>9. ChecksAhead'
  BY <1>1, <1>2, <1>3, <1>4 DEF Inv, ChecksAhead, Checking
<1>10. SwitchedSoFar'
  BY <1>1, <1>2, <1>3, <1>4 DEF Inv, SwitchedSoFar, Switching, RollingBack, Started, Whole
<1>11. RolledBackSoFar'
  BY <1>1, <1>2, <1>3, <1>4 DEF Inv, RolledBackSoFar, RollingBack, Whole
<1>12. DataIsOld'
  BY <1>1, <1>2, <1>3, <1>4 DEF Inv, DataIsOld
<1>13. QED BY <1>5, <1>6, <1>7, <1>8, <1>9, <1>10, <1>11, <1>12 DEF Inv

\* The rollback opens the status before it changes the source.
LEMMA RollbackSourceKeepsInv == ASSUME Inv, RollbackSource PROVE Inv'
<1>1. /\ runner.pc = "rollback" /\ runner \in Runners /\ status \in Statuses
      /\ request # None /\ request \in Requested /\ request.started
  BY DEF RollbackSource, At, Inv, TypeOK, SwitchedSoFar, Switching, RollingBack, Started
<1>2. /\ request.to \in Builds /\ request.backup \in OrNone /\ request.current \in Builds
      /\ saved \in Builds /\ request.image \in Builds /\ request.failureBackup \in Builds
  BY <1>1, RequestFacts DEF Inv, ComesBack, Started
<1>3. UNCHANGED <<request, saved, env, image, agent, data, hub>>
  BY DEF RollbackSource, parts, files
<1>4. /\ status' \in Statuses /\ status'.phase = "rollback" /\ status'.active = status.active
      /\ status'.previous = status.previous /\ status'.backup = status.backup
      /\ status'.revertAvailable = status.revertAvailable
  BY <1>1, PhaseIsSet, PhaseFacts DEF RollbackSource
<1>5. /\ runner' \in Runners /\ runner'.pc = "rollbackEnv"
      /\ source' = request.current \/ (source' = source /\ ~runner'.ok)
  BY <1>1, <1>2, <1>3, PCFacts, Tries DEF RollbackSource
<1>6. TypeOK'
  BY <1>1, <1>2, <1>3, <1>4, <1>5 DEF Inv, TypeOK
<1>7. NothingChanged'
  BY <1>1, <1>2, <1>3, <1>4, <1>5 DEF Inv, NothingChanged, Started, Whole
<1>8. ComesBack'
  BY <1>1, <1>2, <1>3, <1>4, <1>5, PhaseFacts DEF Inv, ComesBack, Started, Whole
<1>9. RevertIsWhole'
  BY <1>1, <1>2, <1>3, <1>4, <1>5 DEF Inv, RevertIsWhole
<1>10. ChecksAhead'
  BY <1>1, <1>2, <1>3, <1>4, <1>5 DEF Inv, ChecksAhead, Checking
<1>11. SwitchedSoFar'
  BY <1>1, <1>2, <1>3, <1>4, <1>5 DEF Inv, SwitchedSoFar, Switching, RollingBack, Started, Whole
<1>12. RolledBackSoFar'
  BY <1>1, <1>2, <1>3, <1>4, <1>5 DEF Inv, RolledBackSoFar, RollingBack, Whole
<1>13. DataIsOld'
  BY <1>1, <1>2, <1>3, <1>4, <1>5 DEF Inv, DataIsOld
<1>14. QED BY <1>6, <1>7, <1>8, <1>9, <1>10, <1>11, <1>12, <1>13 DEF Inv

\* The saved copies are of the build before.
LEMMA RollbackEnvKeepsInv == ASSUME Inv, RollbackEnv PROVE Inv'
<1>1. /\ runner.pc = "rollbackEnv" /\ runner \in Runners /\ status \in Statuses
      /\ request # None /\ request \in Requested /\ request.started
  BY DEF RollbackEnv, At, Inv, TypeOK, SwitchedSoFar, Switching, RollingBack, Started
<1>2. /\ request.to \in Builds /\ request.backup \in OrNone /\ request.current \in Builds
      /\ saved \in Builds /\ request.image \in Builds /\ request.failureBackup \in Builds
  BY <1>1, RequestFacts DEF Inv, ComesBack, Started
<1>3. /\ status.phase = "rollback"
      /\ runner.ok => source = request.current
  BY <1>1 DEF Inv, RolledBackSoFar, RollingBack, Whole
<1>4. UNCHANGED <<request, saved, status, source, image, agent, data, hub>>
  BY DEF RollbackEnv, parts, files
<1>5. saved = request.current
  BY <1>1 DEF Inv, ComesBack, Started
<1>6. /\ runner' \in Runners /\ runner'.pc = "rollbackAgent" /\ (runner'.ok => runner.ok)
      /\ env' = saved \/ (env' = env /\ ~runner'.ok)
  BY <1>1, <1>2, <1>3, PCFacts, Tries DEF RollbackEnv
<1>7. TypeOK'
  BY <1>1, <1>2, <1>3, <1>4, <1>5, <1>6 DEF Inv, TypeOK
<1>8. NothingChanged'
  BY <1>1, <1>2, <1>3, <1>4, <1>5, <1>6 DEF Inv, NothingChanged, Started, Whole
<1>9. ComesBack'
  BY <1>1, <1>2, <1>3, <1>4, <1>5, <1>6, PhaseFacts DEF Inv, ComesBack, Started, Whole
<1>10. RevertIsWhole'
  BY <1>1, <1>2, <1>3, <1>4, <1>5, <1>6 DEF Inv, RevertIsWhole
<1>11. ChecksAhead'
  BY <1>1, <1>2, <1>3, <1>4, <1>5, <1>6 DEF Inv, ChecksAhead, Checking
<1>12. SwitchedSoFar'
  BY <1>1, <1>2, <1>3, <1>4, <1>5, <1>6 DEF Inv, SwitchedSoFar, Switching, RollingBack, Started, Whole
<1>13. RolledBackSoFar'
  BY <1>1, <1>2, <1>3, <1>4, <1>5, <1>6 DEF Inv, RolledBackSoFar, RollingBack, Whole
<1>14. DataIsOld'
  BY <1>1, <1>2, <1>3, <1>4, <1>5, <1>6 DEF Inv, DataIsOld
<1>15. QED BY <1>7, <1>8, <1>9, <1>10, <1>11, <1>12, <1>13, <1>14 DEF Inv

\* The Host Agent is of the source that was put back, or the rollback has failed.
LEMMA RollbackAgentKeepsInv == ASSUME Inv, RollbackAgent PROVE Inv'
<1>1. /\ runner.pc = "rollbackAgent" /\ runner \in Runners /\ status \in Statuses
      /\ request # None /\ request \in Requested /\ request.started
  BY DEF RollbackAgent, At, Inv, TypeOK, SwitchedSoFar, Switching, RollingBack, Started
<1>2. /\ request.to \in Builds /\ request.backup \in OrNone /\ request.current \in Builds
      /\ saved \in Builds /\ request.image \in Builds /\ request.failureBackup \in Builds
  BY <1>1, RequestFacts DEF Inv, ComesBack, Started
<1>3. /\ status.phase = "rollback"
      /\ runner.ok => source = request.current /\ env = request.current
  BY <1>1 DEF Inv, RolledBackSoFar, RollingBack, Whole
<1>4. UNCHANGED <<request, saved, status, source, image, env, data, hub>>
  BY DEF RollbackAgent, parts, files
<1>5. /\ runner' \in Runners /\ runner'.pc = "rollbackTags" /\ (runner'.ok => runner.ok)
      /\ agent' = source \/ (agent' \in {agent, source} /\ ~runner'.ok)
  BY <1>1, <1>2, <1>3, PCFacts, Tries DEF RollbackAgent
<1>6. TypeOK'
  BY <1>1, <1>2, <1>3, <1>4, <1>5 DEF Inv, TypeOK
<1>7. NothingChanged'
  BY <1>1, <1>2, <1>3, <1>4, <1>5 DEF Inv, NothingChanged, Started, Whole
<1>8. ComesBack'
  BY <1>1, <1>2, <1>3, <1>4, <1>5, PhaseFacts DEF Inv, ComesBack, Started, Whole
<1>9. RevertIsWhole'
  BY <1>1, <1>2, <1>3, <1>4, <1>5 DEF Inv, RevertIsWhole
<1>10. ChecksAhead'
  BY <1>1, <1>2, <1>3, <1>4, <1>5 DEF Inv, ChecksAhead, Checking
<1>11. SwitchedSoFar'
  BY <1>1, <1>2, <1>3, <1>4, <1>5 DEF Inv, SwitchedSoFar, Switching, RollingBack, Started, Whole
<1>12. RolledBackSoFar'
  BY <1>1, <1>2, <1>3, <1>4, <1>5 DEF Inv, RolledBackSoFar, RollingBack, Whole
<1>13. DataIsOld'
  BY <1>1, <1>2, <1>3, <1>4, <1>5 DEF Inv, DataIsOld
<1>14. QED BY <1>6, <1>7, <1>8, <1>9, <1>10, <1>11, <1>12, <1>13 DEF Inv

\* The tags are of the image that was captured.
LEMMA RollbackTagsKeepsInv == ASSUME Inv, RollbackTags PROVE Inv'
<1>1. /\ runner.pc = "rollbackTags" /\ runner \in Runners /\ status \in Statuses
      /\ request # None /\ request \in Requested /\ request.started
  BY DEF RollbackTags, At, Inv, TypeOK, SwitchedSoFar, Switching, RollingBack, Started
<1>2. /\ request.to \in Builds /\ request.backup \in OrNone /\ request.current \in Builds
      /\ saved \in Builds /\ request.image \in Builds /\ request.failureBackup \in Builds
  BY <1>1, RequestFacts DEF Inv, ComesBack, Started
<1>3. /\ status.phase = "rollback"
      /\ runner.ok => source = request.current /\ agent = request.current
  BY <1>1 DEF Inv, RolledBackSoFar, RollingBack, Whole
<1>4. UNCHANGED <<request, saved, status, source, image, agent, data, hub>>
  BY DEF RollbackTags, parts, files
<1>5. request.image = request.current
  BY <1>1 DEF Inv, ComesBack, Started
<1>6. /\ runner' \in Runners /\ runner'.pc = "rollbackStop" /\ (runner'.ok => runner.ok)
      /\ env' = request.image \/ (env' = env /\ ~runner'.ok)
  BY <1>1, <1>2, <1>3, PCFacts, Tries DEF RollbackTags
<1>7. TypeOK'
  BY <1>1, <1>2, <1>3, <1>4, <1>5, <1>6 DEF Inv, TypeOK
<1>8. NothingChanged'
  BY <1>1, <1>2, <1>3, <1>4, <1>5, <1>6 DEF Inv, NothingChanged, Started, Whole
<1>9. ComesBack'
  BY <1>1, <1>2, <1>3, <1>4, <1>5, <1>6, PhaseFacts DEF Inv, ComesBack, Started, Whole
<1>10. RevertIsWhole'
  BY <1>1, <1>2, <1>3, <1>4, <1>5, <1>6 DEF Inv, RevertIsWhole
<1>11. ChecksAhead'
  BY <1>1, <1>2, <1>3, <1>4, <1>5, <1>6 DEF Inv, ChecksAhead, Checking
<1>12. SwitchedSoFar'
  BY <1>1, <1>2, <1>3, <1>4, <1>5, <1>6 DEF Inv, SwitchedSoFar, Switching, RollingBack, Started, Whole
<1>13. RolledBackSoFar'
  BY <1>1, <1>2, <1>3, <1>4, <1>5, <1>6 DEF Inv, RolledBackSoFar, RollingBack, Whole
<1>14. DataIsOld'
  BY <1>1, <1>2, <1>3, <1>4, <1>5, <1>6 DEF Inv, DataIsOld
<1>15. QED BY <1>7, <1>8, <1>9, <1>10, <1>11, <1>12, <1>13, <1>14 DEF Inv

\* The data is restored only under a stopped Hub, and only if every step worked.
LEMMA RollbackStopKeepsInv == ASSUME Inv, RollbackStop PROVE Inv'
<1>1. /\ runner.pc = "rollbackStop" /\ runner \in Runners /\ status \in Statuses
      /\ request # None /\ request \in Requested /\ request.started
  BY DEF RollbackStop, At, Inv, TypeOK, SwitchedSoFar, Switching, RollingBack, Started
<1>2. /\ request.to \in Builds /\ request.backup \in OrNone /\ request.current \in Builds
      /\ saved \in Builds /\ request.image \in Builds /\ request.failureBackup \in Builds
  BY <1>1, RequestFacts DEF Inv, ComesBack, Started
<1>3. /\ status.phase = "rollback"
      /\ runner.ok => source = request.current /\ agent = request.current /\ env = request.current
  BY <1>1 DEF Inv, RolledBackSoFar, RollingBack, Whole
<1>4. UNCHANGED <<request, saved, status, source, env, agent, data>>
  BY DEF RollbackStop, parts, files
<1>5. /\ runner' \in Runners /\ hub' \in BOOLEAN
      /\ \/ runner'.pc = "rollbackData" /\ runner.ok /\ runner'.ok /\ ~hub' /\ image' = env
         \/ runner'.pc = "rollbackHealth" /\ ~runner'.ok /\ hub' \in {hub, FALSE} /\ image' = image
  BY <1>1, <1>2, <1>3, PCFacts, Tries DEF RollbackStop, Inv, TypeOK
<1>6. TypeOK'
  BY <1>1, <1>2, <1>3, <1>4, <1>5 DEF Inv, TypeOK
<1>7. NothingChanged'
  BY <1>1, <1>2, <1>3, <1>4, <1>5 DEF Inv, NothingChanged, Started, Whole
<1>8. ComesBack'
  BY <1>1, <1>2, <1>3, <1>4, <1>5, PhaseFacts DEF Inv, ComesBack, Started, Whole
<1>9. RevertIsWhole'
  BY <1>1, <1>2, <1>3, <1>4, <1>5 DEF Inv, RevertIsWhole
<1>10. ChecksAhead'
  BY <1>1, <1>2, <1>3, <1>4, <1>5 DEF Inv, ChecksAhead, Checking
<1>11. SwitchedSoFar'
  BY <1>1, <1>2, <1>3, <1>4, <1>5 DEF Inv, SwitchedSoFar, Switching, RollingBack, Started, Whole
<1>12. RolledBackSoFar'
  BY <1>1, <1>2, <1>3, <1>4, <1>5 DEF Inv, RolledBackSoFar, RollingBack, Whole
<1>13. DataIsOld'
  BY <1>1, <1>2, <1>3, <1>4, <1>5 DEF Inv, DataIsOld
<1>14. QED BY <1>6, <1>7, <1>8, <1>9, <1>10, <1>11, <1>12, <1>13 DEF Inv

\* The backup of the failed update is of the build before.
LEMMA RollbackDataKeepsInv == ASSUME Inv, RollbackData PROVE Inv'
<1>1. /\ runner.pc = "rollbackData" /\ runner \in Runners /\ status \in Statuses
      /\ request # None /\ request \in Requested /\ request.started
  BY DEF RollbackData, At, Inv, TypeOK, SwitchedSoFar, Switching, RollingBack, Started
<1>2. /\ request.to \in Builds /\ request.backup \in OrNone /\ request.current \in Builds
      /\ saved \in Builds /\ request.image \in Builds /\ request.failureBackup \in Builds
  BY <1>1, RequestFacts DEF Inv, ComesBack, Started
<1>3. /\ status.phase = "rollback" /\ ~hub /\ image = request.current
      /\ runner.ok /\ source = request.current /\ agent = request.current /\ env = request.current
  BY <1>1 DEF Inv, RolledBackSoFar, RollingBack, Whole
<1>4. UNCHANGED <<request, saved, status, source, env, image, agent, hub>>
  BY DEF RollbackData, parts, files
<1>5. request.failureBackup = request.current
  BY <1>1 DEF Inv, ComesBack, Started
<1>6. /\ runner' \in Runners /\ data' \in Builds
      /\ \/ runner'.pc = "rollbackStart" /\ runner'.ok /\ data' = request.current
         \/ runner'.pc = "rollbackHealth" /\ ~runner'.ok
  BY <1>1, <1>2, <1>3, <1>5, PCFacts, Tries DEF RollbackData, Inv, TypeOK
<1>7. TypeOK'
  BY <1>1, <1>2, <1>3, <1>4, <1>5, <1>6 DEF Inv, TypeOK
<1>8. NothingChanged'
  BY <1>1, <1>2, <1>3, <1>4, <1>5, <1>6 DEF Inv, NothingChanged, Started, Whole
<1>9. ComesBack'
  BY <1>1, <1>2, <1>3, <1>4, <1>5, <1>6, PhaseFacts DEF Inv, ComesBack, Started, Whole
<1>10. RevertIsWhole'
  BY <1>1, <1>2, <1>3, <1>4, <1>5, <1>6 DEF Inv, RevertIsWhole
<1>11. ChecksAhead'
  BY <1>1, <1>2, <1>3, <1>4, <1>5, <1>6 DEF Inv, ChecksAhead, Checking
<1>12. SwitchedSoFar'
  BY <1>1, <1>2, <1>3, <1>4, <1>5, <1>6 DEF Inv, SwitchedSoFar, Switching, RollingBack, Started, Whole
<1>13. RolledBackSoFar'
  BY <1>1, <1>2, <1>3, <1>4, <1>5, <1>6 DEF Inv, RolledBackSoFar, RollingBack, Whole
<1>14. DataIsOld'
  BY <1>1, <1>2, <1>3, <1>4, <1>5, <1>6 DEF Inv, DataIsOld
<1>15. QED BY <1>7, <1>8, <1>9, <1>10, <1>11, <1>12, <1>13, <1>14 DEF Inv

\* The Hub of the build before starts on the data of that build.
LEMMA RollbackStartKeepsInv == ASSUME Inv, RollbackStart PROVE Inv'
<1>1. /\ runner.pc = "rollbackStart" /\ runner \in Runners /\ status \in Statuses
      /\ request # None /\ request \in Requested /\ request.started
  BY DEF RollbackStart, At, Inv, TypeOK, SwitchedSoFar, Switching, RollingBack, Started
<1>2. /\ request.to \in Builds /\ request.backup \in OrNone /\ request.current \in Builds
      /\ saved \in Builds /\ request.image \in Builds /\ request.failureBackup \in Builds
  BY <1>1, RequestFacts DEF Inv, ComesBack, Started
<1>3. /\ status.phase = "rollback" /\ ~hub /\ image = request.current /\ data = request.current
      /\ runner.ok /\ source = request.current /\ agent = request.current /\ env = request.current
  BY <1>1 DEF Inv, RolledBackSoFar, RollingBack, Whole
<1>4. UNCHANGED <<request, saved, status, source, env, image, agent, data>>
  BY DEF RollbackStart, parts, files
<1>5. /\ runner' \in Runners /\ runner'.pc = "rollbackHealth" /\ hub' \in BOOLEAN
      /\ hub' \/ ~runner'.ok
  BY <1>1, <1>2, <1>3, PCFacts, Tries DEF RollbackStart, Inv, TypeOK
<1>6. TypeOK'
  BY <1>1, <1>2, <1>3, <1>4, <1>5 DEF Inv, TypeOK
<1>7. NothingChanged'
  BY <1>1, <1>2, <1>3, <1>4, <1>5 DEF Inv, NothingChanged, Started, Whole
<1>8. ComesBack'
  BY <1>1, <1>2, <1>3, <1>4, <1>5, PhaseFacts DEF Inv, ComesBack, Started, Whole
<1>9. RevertIsWhole'
  BY <1>1, <1>2, <1>3, <1>4, <1>5 DEF Inv, RevertIsWhole
<1>10. ChecksAhead'
  BY <1>1, <1>2, <1>3, <1>4, <1>5 DEF Inv, ChecksAhead, Checking
<1>11. SwitchedSoFar'
  BY <1>1, <1>2, <1>3, <1>4, <1>5 DEF Inv, SwitchedSoFar, Switching, RollingBack, Started, Whole
<1>12. RolledBackSoFar'
  BY <1>1, <1>2, <1>3, <1>4, <1>5 DEF Inv, RolledBackSoFar, RollingBack, Whole
<1>13. DataIsOld'
  BY <1>1, <1>2, <1>3, <1>4, <1>5, BuildFacts DEF Inv, DataIsOld
<1>14. QED BY <1>6, <1>7, <1>8, <1>9, <1>10, <1>11, <1>12, <1>13 DEF Inv

\* A rollback is whole only if every step of it worked.
LEMMA RollbackHealthKeepsInv == ASSUME Inv, RollbackHealth PROVE Inv'
<1>1. /\ runner.pc = "rollbackHealth" /\ runner \in Runners /\ status \in Statuses
      /\ request # None /\ request \in Requested /\ request.started
  BY DEF RollbackHealth, At, Inv, TypeOK, SwitchedSoFar, Switching, RollingBack, Started
<1>2. /\ request.to \in Builds /\ request.backup \in OrNone /\ request.current \in Builds
      /\ saved \in Builds /\ request.image \in Builds /\ request.failureBackup \in Builds
  BY <1>1, RequestFacts DEF Inv, ComesBack, Started
<1>3. /\ status.phase = "rollback"
      /\ runner.ok => source = request.current /\ agent = request.current /\ env = request.current
  BY <1>1 DEF Inv, RolledBackSoFar, RollingBack, Whole
<1>4. UNCHANGED <<request, saved, status, source, env, image, agent, data, hub>>
  BY DEF RollbackHealth, parts, files
<1>5. request.image = request.current
  BY <1>1 DEF Inv, ComesBack, Started
<1>6. /\ runner' \in Runners
      /\ \/ runner'.pc = "rolledBack" /\ runner.ok /\ hub /\ data = image /\ image = request.image
         \/ runner'.pc = "rollbackFailed"
  BY <1>1, <1>2, <1>3, PCFacts, Tries DEF RollbackHealth, Restored, Healthy
<1>7. TypeOK'
  BY <1>1, <1>2, <1>3, <1>4, <1>5, <1>6 DEF Inv, TypeOK
<1>8. NothingChanged'
  BY <1>1, <1>2, <1>3, <1>4, <1>5, <1>6 DEF Inv, NothingChanged, Started, Whole
<1>9. ComesBack'
  BY <1>1, <1>2, <1>3, <1>4, <1>5, <1>6, PhaseFacts DEF Inv, ComesBack, Started, Whole
<1>10. RevertIsWhole'
  BY <1>1, <1>2, <1>3, <1>4, <1>5, <1>6 DEF Inv, RevertIsWhole
<1>11. ChecksAhead'
  BY <1>1, <1>2, <1>3, <1>4, <1>5, <1>6 DEF Inv, ChecksAhead, Checking
<1>12. SwitchedSoFar'
  BY <1>1, <1>2, <1>3, <1>4, <1>5, <1>6 DEF Inv, SwitchedSoFar, Switching, RollingBack, Started, Whole
<1>13. RolledBackSoFar'
  BY <1>1, <1>2, <1>3, <1>4, <1>5, <1>6 DEF Inv, RolledBackSoFar, RollingBack, Whole
<1>14. DataIsOld'
  BY <1>1, <1>2, <1>3, <1>4, <1>5, <1>6 DEF Inv, DataIsOld
<1>15. QED BY <1>7, <1>8, <1>9, <1>10, <1>11, <1>12, <1>13, <1>14 DEF Inv

\* The outcome is written when every part is of the build before.
LEMMA RolledBackKeepsInv == ASSUME Inv, RolledBack PROVE Inv'
<1>1. /\ runner.pc = "rolledBack" /\ runner \in Runners /\ status \in Statuses
      /\ request # None /\ request \in Requested /\ request.started
  BY DEF RolledBack, At, Inv, TypeOK, SwitchedSoFar, Switching, RollingBack, Started
<1>2. /\ request.to \in Builds /\ request.backup \in OrNone /\ request.current \in Builds
      /\ saved \in Builds /\ request.image \in Builds /\ request.failureBackup \in Builds
  BY <1>1, RequestFacts DEF Inv, ComesBack, Started
<1>3. /\ status.phase = "rollback"
      /\ Whole(request.current)
  BY <1>1 DEF Inv, RolledBackSoFar, RollingBack, Whole
<1>4. UNCHANGED <<request, saved, source, env, image, agent, data, hub>>
  BY DEF RolledBack, parts, files
<1>5. /\ status' \in Statuses /\ status'.phase = "rolled-back" /\ status'.active = request.current
      /\ status'.previous = status.previous /\ status'.backup = status.backup
      /\ status'.revertAvailable = status.revertAvailable
  BY <1>1, <1>2, PhaseFacts DEF RolledBack, Statuses
<1>6. runner' \in Runners /\ runner'.pc = "forgetRollback"
  BY <1>1, PCFacts, Goes DEF RolledBack
<1>7. TypeOK'
  BY <1>1, <1>2, <1>3, <1>4, <1>5, <1>6 DEF Inv, TypeOK
<1>8. NothingChanged'
  BY <1>1, <1>2, <1>3, <1>4, <1>5, <1>6 DEF Inv, NothingChanged, Started, Whole
<1>9. ComesBack'
  BY <1>1, <1>2, <1>3, <1>4, <1>5, <1>6, PhaseFacts DEF Inv, ComesBack, Started, Whole
<1>10. RevertIsWhole'
  BY <1>1, <1>2, <1>3, <1>4, <1>5, <1>6 DEF Inv, RevertIsWhole
<1>11. ChecksAhead'
  BY <1>1, <1>2, <1>3, <1>4, <1>5, <1>6 DEF Inv, ChecksAhead, Checking
<1>12. SwitchedSoFar'
  BY <1>1, <1>2, <1>3, <1>4, <1>5, <1>6 DEF Inv, SwitchedSoFar, Switching, RollingBack, Started, Whole
<1>13. RolledBackSoFar'
  BY <1>1, <1>2, <1>3, <1>4, <1>5, <1>6 DEF Inv, RolledBackSoFar, RollingBack, Whole
<1>14. DataIsOld'
  BY <1>1, <1>2, <1>3, <1>4, <1>5, <1>6 DEF Inv, DataIsOld
<1>15. QED BY <1>7, <1>8, <1>9, <1>10, <1>11, <1>12, <1>13, <1>14 DEF Inv

\* With the request gone the build that is recorded is the one that runs.
LEMMA ForgetRollbackKeepsInv == ASSUME Inv, ForgetRollback PROVE Inv'
<1>1. /\ runner.pc = "forgetRollback" /\ runner \in Runners /\ status \in Statuses
      /\ request # None /\ request \in Requested /\ request.started
  BY DEF ForgetRollback, At, Inv, TypeOK, SwitchedSoFar, Switching, RollingBack, Started
<1>2. /\ request.to \in Builds /\ request.backup \in OrNone /\ request.current \in Builds
      /\ saved \in Builds /\ request.image \in Builds /\ request.failureBackup \in Builds
  BY <1>1, RequestFacts DEF Inv, ComesBack, Started
<1>3. /\ Whole(request.current)
      /\ status.active = request.current
  BY <1>1 DEF Inv, RolledBackSoFar, RollingBack, Whole
<1>4. request' = None /\ saved' = 0 /\ 0 \in OrNone
  BY BuildFacts DEF ForgetRollback, Inv
<1>5. UNCHANGED <<status, source, env, image, agent, data, hub>>
  BY DEF ForgetRollback, parts, files
<1>6. runner' \in Runners /\ runner'.pc = "idle"
  BY IdleFacts DEF ForgetRollback
<1>7. TypeOK'
  BY <1>1, <1>2, <1>3, <1>4, <1>5, <1>6 DEF Inv, TypeOK
<1>8. NothingChanged'
  BY <1>1, <1>2, <1>3, <1>4, <1>5, <1>6 DEF Inv, NothingChanged, Started, Whole
<1>9. ComesBack'
  BY <1>1, <1>2, <1>3, <1>4, <1>5, <1>6 DEF Inv, ComesBack, Started, Whole
<1>10. RevertIsWhole'
  BY <1>1, <1>2, <1>3, <1>4, <1>5, <1>6 DEF Inv, RevertIsWhole
<1>11. ChecksAhead'
  BY <1>1, <1>2, <1>3, <1>4, <1>5, <1>6 DEF Inv, ChecksAhead, Checking
<1>12. SwitchedSoFar'
  BY <1>1, <1>2, <1>3, <1>4, <1>5, <1>6 DEF Inv, SwitchedSoFar, Switching, RollingBack, Started, Whole
<1>13. RolledBackSoFar'
  BY <1>1, <1>2, <1>3, <1>4, <1>5, <1>6 DEF Inv, RolledBackSoFar, RollingBack, Whole
<1>14. DataIsOld'
  BY <1>1, <1>2, <1>3, <1>4, <1>5, <1>6 DEF Inv, DataIsOld
<1>15. QED BY <1>7, <1>8, <1>9, <1>10, <1>11, <1>12, <1>13, <1>14 DEF Inv

\* A rollback that failed leaves its request, and a status that is open.
LEMMA RollbackFailedKeepsInv == ASSUME Inv, RollbackFailed PROVE Inv'
<1>1. /\ runner.pc = "rollbackFailed" /\ runner \in Runners /\ status \in Statuses
      /\ request # None /\ request \in Requested /\ request.started
  BY DEF RollbackFailed, At, Inv, TypeOK, SwitchedSoFar, Switching, RollingBack, Started
<1>2. /\ request.to \in Builds /\ request.backup \in OrNone /\ request.current \in Builds
      /\ saved \in Builds /\ request.image \in Builds /\ request.failureBackup \in Builds
  BY <1>1, RequestFacts DEF Inv, ComesBack, Started
<1>3. UNCHANGED <<request, saved, source, env, image, agent, data, hub>>
  BY DEF RollbackFailed, parts, files
<1>4. /\ status' \in Statuses /\ status'.phase = "rollback-failed" /\ status'.active = status.active
      /\ status'.previous = status.previous /\ status'.backup = status.backup
      /\ status'.revertAvailable = status.revertAvailable
  BY <1>1, PhaseIsSet, PhaseFacts DEF RollbackFailed
<1>5. runner' \in Runners /\ runner'.pc = "idle"
  BY IdleFacts DEF RollbackFailed
<1>6. TypeOK'
  BY <1>1, <1>2, <1>3, <1>4, <1>5 DEF Inv, TypeOK
<1>7. NothingChanged'
  BY <1>1, <1>2, <1>3, <1>4, <1>5 DEF Inv, NothingChanged, Started, Whole
<1>8. ComesBack'
  BY <1>1, <1>2, <1>3, <1>4, <1>5, PhaseFacts DEF Inv, ComesBack, Started, Whole
<1>9. RevertIsWhole'
  BY <1>1, <1>2, <1>3, <1>4, <1>5 DEF Inv, RevertIsWhole
<1>10. ChecksAhead'
  BY <1>1, <1>2, <1>3, <1>4, <1>5 DEF Inv, ChecksAhead, Checking
<1>11. SwitchedSoFar'
  BY <1>1, <1>2, <1>3, <1>4, <1>5 DEF Inv, SwitchedSoFar, Switching, RollingBack, Started, Whole
<1>12. RolledBackSoFar'
  BY <1>1, <1>2, <1>3, <1>4, <1>5 DEF Inv, RolledBackSoFar, RollingBack, Whole
<1>13. DataIsOld'
  BY <1>1, <1>2, <1>3, <1>4, <1>5 DEF Inv, DataIsOld
<1>14. QED BY <1>6, <1>7, <1>8, <1>9, <1>10, <1>11, <1>12, <1>13 DEF Inv
-----------------------------------------------------------------------------
\* The first build, or one that was installed by an update.
LEMMA InitInv == ASSUME MaxBuild \in Nat, Init PROVE Inv
<1>1. PICK build \in 1 .. 2 :
        /\ build <= MaxBuild
        /\ status = [phase |-> "idle", active |-> build, previous |-> build - 1, backup |-> build - 1,
                     revertAvailable |-> build > 1]
        /\ source = build /\ env = build /\ image = build /\ agent = build /\ data = build
  BY DEF Init
<1>2. request = None /\ saved = 0 /\ runner = Idle /\ hub = TRUE
  BY DEF Init
<1>3. /\ build \in Builds /\ build - 1 \in OrNone /\ (build > 1 => build - 1 \in Builds)
      /\ 0 \in OrNone /\ build \in Nat
  BY <1>1 DEF Builds, OrNone
<1>4. /\ status \in Statuses /\ status.active = build /\ status.previous = build - 1 /\ status.backup = build - 1
      /\ (status.revertAvailable <=> build > 1)
  <2> DEFINE before == build - 1  reverts == build > 1
  <2>1. /\ status = [phase |-> "idle", active |-> build, previous |-> before, backup |-> before,
                     revertAvailable |-> reverts]
        /\ before \in OrNone /\ reverts \in BOOLEAN /\ build \in Builds /\ "idle" \in Phases
    BY <1>1, <1>3, PhaseFacts
  <2> HIDE DEF before, reverts
  <2>2. /\ status \in Statuses /\ status.active = build /\ status.previous = before /\ status.backup = before
        /\ status.revertAvailable = reverts
    BY <2>1 DEF Statuses
  <2>3. QED BY <2>2 DEF before, reverts
<1>5. runner \in Runners /\ runner.pc = "idle"
  BY <1>2, IdleFacts
<1>6. TypeOK
  BY <1>1, <1>2, <1>3, <1>4, <1>5 DEF TypeOK
<1>7. NothingChanged /\ ComesBack /\ RevertIsWhole /\ DataIsOld
  BY <1>1, <1>2, <1>3, <1>4 DEF NothingChanged, ComesBack, RevertIsWhole, DataIsOld, Started, Whole
<1>8. ChecksAhead /\ SwitchedSoFar /\ RolledBackSoFar
  BY <1>5 DEF ChecksAhead, Checking, SwitchedSoFar, Switching, RolledBackSoFar, RollingBack
<1>9. QED BY <1>6, <1>7, <1>8 DEF Inv

\* Every step keeps the invariant.
LEMMA NextKeepsInv == ASSUME Inv, [Next]_state PROVE Inv'
<1>1. CASE UNCHANGED state
  BY <1>1, UnchangedKeepsInv DEF state, files, parts
<1>2. CASE Ask \/ AskCLI \/ Resume \/ Killed \/ Migrate
  BY <1>2, AskKeepsInv, AskCLIKeepsInv, WaitsKeepsInv, MigrateKeepsInv
<1>3. CASE Step
  BY <1>3, StartRunnerKeepsInv, CaptureKeepsInv, PreflightKeepsInv, PreflightFailedKeepsInv, RecordPreviousKeepsInv,
     SaveCopiesKeepsInv, ClaimKeepsInv, SwitchKeepsInv, SetTagsKeepsInv, StopForRevertKeepsInv,
     RestoreForRevertKeepsInv, RecreateKeepsInv, VerifyKeepsInv, RecordKeepsInv, ForgetKeepsInv, CompleteKeepsInv,
     WaitsKeepsInv, RollbackSourceKeepsInv, RollbackEnvKeepsInv, RollbackTagsKeepsInv, RollbackStopKeepsInv,
     RollbackDataKeepsInv, RollbackStartKeepsInv, RollbackHealthKeepsInv, RolledBackKeepsInv,
     ForgetRollbackKeepsInv, RollbackFailedKeepsInv DEF Step
<1>4. CASE AgentStep
  BY <1>4, RefreshAgentKeepsInv, RollbackAgentKeepsInv DEF AgentStep
<1>5. QED BY <1>1, <1>2, <1>3, <1>4 DEF Next

\* The invariant holds throughout, for any number of builds.
THEOREM Invariance == ASSUME MaxBuild \in Nat PROVE Spec => []Inv
<1>1. Init => Inv
  BY InitInv
<1>2. Inv /\ [Next]_state => Inv'
  BY NextKeepsInv
<1>3. QED BY <1>1, <1>2, PTL DEF Spec

\* The Hub of an older build never runs on the data of a newer one, and an update that
\* started has the backup of the build to come back to (rollback, restore_safety_backup).
THEOREM DataKept == ASSUME MaxBuild \in Nat PROVE Spec => []OldBuildsKeepTheirData
<1>1. Inv => OldBuildsKeepTheirData
  BY DEF Inv, DataIsOld, ComesBack, Started, OldBuildsKeepTheirData
<1>2. QED BY <1>1, Invariance, PTL

-----------------------------------------------------------------------------
\* The status is not settled.
Open == status.phase \notin Settled

\* What the status records of the parts.
RecordHolds ==
    /\ Open => Recorded = Unknown
    /\ ~Open => Recorded = Deployed /\ Deployed \in Builds
    /\ Deployed \in Builds \cup {Mixed}

\* What a settled status says is active is what is deployed.
LEMMA RecordedFacts == Inv => RecordHolds
<1> SUFFICES ASSUME Inv PROVE RecordHolds
  OBVIOUS
<1>1. image \in Builds /\ status.active \in Builds
  BY StatusFacts DEF Inv, TypeOK
<1>2. Deployed \in Builds \cup {Mixed}
  BY <1>1 DEF Deployed
<1>3. ~Open => Whole(status.active)
  BY DEF Inv, NothingChanged, ComesBack, Open
<1>4. \A build : Whole(build) => Deployed = build
  BY DEF Whole, Deployed
<1>5. Open => Recorded = Unknown
  BY DEF Open, Settled, Recorded
<1>6. ~Open => Recorded = status.active
  BY DEF Open, Settled, Recorded
<1>7. QED BY <1>1, <1>2, <1>3, <1>4, <1>5, <1>6 DEF RecordHolds

\* The same, after a step.
LEMMA RecordedFactsNext == Inv' => RecordHolds'
BY RecordedFacts, PTL

\* The data is migrated only while the status is open.
LEMMA MigrateIsOpen == ASSUME Inv, Migrate PROVE Open /\ Open'
<1>1. data < image /\ data \in Nat
  BY BuildFacts DEF Migrate, Inv, TypeOK
<1>2. \A build : ~Whole(build)
  BY <1>1 DEF Whole
<1>3. Open
  BY <1>2 DEF Inv, NothingChanged, ComesBack, Open
<1>4. QED BY <1>3 DEF Migrate, files, Open

\* A step changes a part only while the status is open, before and after it.
LEMMA ChangesAreJournaled ==
    ASSUME Inv, Next
    PROVE  UNCHANGED <<parts, data, hub>> \/ (Open /\ Open')
<1>1. CASE Switch
  <2>1. status.phase = "preflight" /\ status' = [status EXCEPT !.phase = "switching"] /\ status \in Statuses
    BY <1>1 DEF Switch, At, Inv, SwitchedSoFar, TypeOK
  <2>2. QED BY <2>1, PhaseIsSet, PhaseFacts DEF Open
<1>2. CASE RefreshAgent \/ SetTags \/ StopForRevert \/ RestoreForRevert \/ Recreate
  <2>1. status.phase = "switching" /\ status' = status
    BY <1>2 DEF RefreshAgent, SetTags, StopForRevert, RestoreForRevert, Recreate, At, files, Inv,
       SwitchedSoFar, Switching
  <2>2. QED BY <2>1, PhaseFacts DEF Open
<1>3. CASE RollbackEnv \/ RollbackAgent \/ RollbackTags \/ RollbackStop \/ RollbackData \/ RollbackStart
  <2>1. status.phase = "rollback" /\ status' = status
    BY <1>3 DEF RollbackEnv, RollbackAgent, RollbackTags, RollbackStop, RollbackData, RollbackStart, At, files, Inv,
       RolledBackSoFar, RollingBack
  <2>2. QED BY <2>1, PhaseFacts DEF Open
<1>4. CASE RollbackSource
  <2>1. /\ status' = [status EXCEPT !.phase = "rollback"] /\ status \in Statuses
        /\ UNCHANGED <<env, image, agent, data, hub>> /\ source' \in {source, request.current}
        /\ request.started /\ request # None
    BY <1>4 DEF RollbackSource, At, Inv, TypeOK, SwitchedSoFar, Started
  <2>2. Open'
    BY <2>1, PhaseIsSet, PhaseFacts DEF Open
  <2>3. ~Open => source = request.current
    BY <2>1 DEF Open, Inv, ComesBack, Started, Whole
  <2>4. QED BY <2>1, <2>2, <2>3 DEF parts
<1>5. CASE Migrate
  BY <1>5, MigrateIsOpen
<1>6. CASE Ask \/ AskCLI \/ Resume \/ Killed
  BY <1>6 DEF Ask, AskCLI, Resume, Killed
<1>7. CASE \/ StartRunner \/ Capture \/ Preflight \/ PreflightFailed \/ RecordPrevious \/ SaveCopies \/ Claim
           \/ Verify \/ Record \/ Forget \/ Complete \/ Exit
           \/ RollbackHealth \/ RolledBack \/ ForgetRollback \/ RollbackFailed
  BY <1>7 DEF StartRunner, Capture, Preflight, PreflightFailed, RecordPrevious, SaveCopies, Claim,
     Verify, Record, Forget, Complete, Exit, RollbackHealth, RolledBack, ForgetRollback, RollbackFailed
<1>8. QED BY <1>1, <1>2, <1>3, <1>4, <1>5, <1>6, <1>7 DEF Next, Step, AgentStep

\* Every step is one of AllOrNothing, or leaves what it is about.
LEMMA StepIsAllOrNothing ==
    ASSUME Inv, Inv', [Next]_state
    PROVE  [Change!Next]_<<Deployed, Recorded>>
<1>1. RecordHolds /\ RecordHolds' /\ Builds' = Builds /\ Unknown' = Unknown /\ Mixed' = Mixed
  BY RecordedFacts, RecordedFactsNext
<1>2. CASE Deployed' = Deployed
  BY <1>1, <1>2 DEF RecordHolds, Change!Next, Change!Begin, Change!Settle
<1>3. CASE Open /\ Open'
  BY <1>1, <1>3 DEF RecordHolds, Change!Next, Change!Change
<1>4. UNCHANGED <<parts, data, hub>> => Deployed' = Deployed
  BY DEF parts, Deployed
<1>5. QED BY <1>2, <1>3, <1>4, ChangesAreJournaled DEF state

\* An update of the application is all or nothing: when its status is settled, the
\* source, the tags, the Hub, the Host Agent and the data are all of the build that the
\* status says is active.
THEOREM AllOrNothing == ASSUME MaxBuild \in Nat PROVE Spec => Change!Spec
<1>1. Init => Change!Init
  <2> SUFFICES ASSUME Init PROVE Change!Init
    OBVIOUS
  <2>1. Inv /\ status.phase = "idle"
    BY InitInv DEF Init
  <2>2. ~Open
    BY <2>1 DEF Open, Settled
  <2>3. QED BY <2>1, <2>2, RecordedFacts DEF RecordHolds, Change!Init
<1>2. Inv /\ Inv' /\ [Next]_state => [Change!Next]_<<Deployed, Recorded>>
  BY StepIsAllOrNothing
<1>3. QED
  BY <1>1, <1>2, Invariance, PTL DEF Spec, Change!Spec

==============================================================================
