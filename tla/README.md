# RoomGoblin in TLA+

RoomGoblin is a classroom appliance: one Node.js process, the *Hub* (`src/src/server.js`
and the modules beside it), drives the displays, televisions, lights, music players and
lab computers of a school, by command of operators and by a schedule.  This directory
holds TLA+ models of the parts of the Hub, and of the Host Agent beside it, that are hard
to test, the TLC runs that check them on small instances, and TLAPS proofs of the
properties that matter most, for every value of the constants.  Paths below are relative to the repository (`src/...`).

## The system

The Hub is single-threaded: a handler, timer or continuation runs until its next `await`.
All the concurrency is in what happens between two awaits, and all the failure is in what
an awaited call may answer, in saves that throw, and in the process ending at any await.
State is kept in memory and, in part, in SQLite (`storage.js`); a save is atomic and may
fail.

| Component | Source | State | Operations | Hard behaviour |
|---|---|---|---|---|
| Veyon command queue | `veyon-command-queue.js`, wired at `server.js:3114` | jobs and their tasks, intents, owned locks and broadcasts (journaled), wanted broadcasts | `enqueue`, `enqueueModeCleanup`, `cancel`, `tick`, `run`, `reconcile`, the constructor after a restart | a command is superseded at any of four awaits; a write whose answer is lost; a crash between write and journal; queue and journal at their limits |
| Automation runs | `server.js:1972-2165, 6235-6345, 6450-6560, 9319-9474`, `automation-runtime.js:181-232` | run ledger and saved stops, execution marks, registries of running occurrences, cancellations | claim, start, supersede, cancel, recover, Resume, manual runs, one-shot tests | ownership of displays through chains of replacements; stops that must survive crashes and truncation; claims that must not be repeated |
| Export freeze and drain | `server.js:98-106, 5109-5119, 5262-5295, 9533-9570`, `application-drain.js` | freeze requested/active and its lease, counters of pending mutations, shutdown flags | freeze, thaw, expire, admit, shut down | a mutation that is under way when the freeze is acquired; an aborted request whose handler still runs |
| Morning Announcements | `server.js:755-1306, 1587-1600` | active session, targets, release targets, deferred automations, watcher generation | watcher tick, start, release, retry, volume | takeover and release interleaved with operators, schedule and failures of displays |
| Display state | `server.js:4900-5088` | what each display shows, acknowledgements, priority targets | `executeCommand`, reconciliation of a display that connects | priority checked before and after awaits; commands that are superseded in flight |
| Presentations | `server.js:2270-2620` | library of rendered decks, the live session and its queue | start, control, stop, rebuild, remove, automatic advance | the timer and the operator move the same slides; a display refuses a slide |
| Veyon sessions | `server.js:3000-3148`, `veyon-transport.js` | cache of sessions, requests in flight, counters of their users | authenticate, request, close, sweep | a session is closed while someone uses it, or kept by nobody |
| Background music, manual media priority | `server.js:7100-7480`, `background-music.js` | session generation, recovery backoff, paused players | start, stop, tick, priority pause and release | stale continuations of an older session |
| Uploads | `resumable-upload.js` | session files, locks, completion receipt | create, put chunk, assemble, retire, cancel, clean up | retries of a completion, a crash between publishing and registering, expiry of an active session |
| Learning retry queue | `learning-retry-queue.js`, `learning.js:150-330` | pending grading rows, reviews | enqueue, drain, remove, submit, approve | a newer answer replaces the row that is being graded |
| Integration updates | `integration-updates.js` | policy, attempts, firmware jobs | check, install, reconcile, tick | a flash must not be sent twice, whatever crashes or is not confirmed |
| Sports | `sports-service.js` | configuration revision, source status | save, undo, refresh | a refresh in flight must not overwrite an edit |
| Media plane | `media-plane-process.js`, `media-server.js` | the child process | start, stop, exit | signals, forced termination, the pair's common fate |
| ESPHome, Ubuntu displays, displays' own agents | `esphome.js`, `esphome/worker.py`, `ubuntu-displays.js`, `agents/`, `windows-agent/` | device generations, leases | enrol, command, reconnect | stale generations |
| Learning platform, schedule, planning | `learning*.js`, `planning*.js`, `school-schedule.js`, `automation-schema.js` | courses, plans, calendars | pure computations and CRUD | calendars and boundaries of time |
| Storage, startup recovery | `storage.js`, `startup-recovery.js` | the database | transactions, migrations | idempotence |
| Host Agent | `src/host-agent` | the appliance lock, journals on disk, containers, files | upgrade, restart a service, full recovery, update, export freeze, startup recovery | the Host Agent or the host ends between any two steps of a procedure on files |
| Maintenance agent, deployment | `src/maintenance-agent`, `src/deploy` | backups, releases | backup, recovery, install | long procedures on files |

How they interact: the operator's HTTP requests are admitted by one middleware that counts
mutations (export freeze, shutdown) and call handlers; handlers and the 15-second scheduler
start *runs*; runs call `executeCommand` for displays and adapters for the rest; Morning
Announcements and manual media take priority over runs, by locks on displays and by
cancelling runs; the Veyon queue runs beside, driven by its own timer and by transport
events (`reconcileHost`).  All of them save through SQLite and all are counted by the
export freeze.

What makes each correct:

* **Veyon queue**: whatever the Hub activates on a student's computer (a lock, a broadcast)
  is in the durable journal as long as it is active there, so it is released in the end,
  after crashes too; a lock is never written after the unlock that superseded it; the Hub
  never adopts someone else's lock; commands for a computer keep their order; limits never
  leave a cleanup half queued; a frozen queue stays quiet.
* **Morning Announcements**: music is paused exactly for the displays that an announcement
  or its unfinished release owns; whatever fails, the lock ends and the displays are given
  back in the end; no display is left showing the stream; content that is newer than the
  announcement is never cleared; the watcher never dies, never acts on a configuration that
  was replaced, and releases only after the configured number of offline answers.
* **Host Agent**: a change is whole or undone, whatever is interrupted and by what; what is
  needed to undo it is there until it is settled; a restart is not repeated; the lock is
  always given up, unless an administrator is needed.
* **Uploads**: an acknowledged chunk is not lost, an upload is listed at most once, and
  leaves the library only when an operator asks.
* **Firmware and upgrades**: what may have been sent is not sent again by itself.
* **Edits** (sports, learning, music): what was begun earlier never replaces what was asked
  for later.
* **Displays**: a display shows what its owner sent; a slide session and the screens agree;
  a receiver that reconnects shows what the Hub has saved.
* **Automation runs**: never two runs on one display; a stop is durable before it takes
  effect and final afterwards; an occurrence is run at most once; a waiting run is always
  released; an export reads quiet state; Resume waits for the manual runs it stops.

## Modules

| Module | What it is |
|---|---|
| `VeyonQueue` | the command queue, the computers it commands, and restarts |
| `MCVeyonQueue` | its small instances, with two configurations |
| `VeyonQueueProofs` | its two inductive invariants and theorems |
| `AutomationRuns` | runs, ledger, Resume, export freeze and shutdown |
| `MCAutomationRuns` | its small instances, with four configurations |
| `AutomationRunsProofs` | its inductive invariant and theorems |
| `MorningAnnouncements` | watcher, takeover, release and retries, with the schedule and operators beside them |
| `MCMorningAnnouncements` | its small instances, with three configurations |
| `MorningAnnouncementsProofs` | its inductive invariant and theorems |
| `MusicUpdates` | the Host Agent's upgrade of Music Assistant and the restart of a service that is stuck |
| `FullRecovery` | replacement of the appliance's roots by those of an archive |
| `AppUpdate` | the application's updater, its request, its rollback, and the revert |
| `AllOrNothing` | what a change of the appliance promises, abstractly |
| `HostMaintenance`, `MCHostMaintenance` | the three under one lock, with ends and starts of the Host Agent |
| `MusicUpdatesProofs`, `FullRecoveryProofs`, `AppUpdateProofs` | the inductive invariant of each, and that each implements `AllOrNothing` |
| `HostMaintenanceProofs` | that each goes on within the whole as it does alone, and what follows |
| `ResumableUpload` | uploads in pieces, and the library they end in |
| `LibraryItem` | what the library promises of one upload, abstractly |
| `LearningReview` | one student's answer, its grading and its retries |
| `IntegrationUpdates` | the Hub's side of upgrades and of firmware |
| `SportsService` | the sports workspace |
| `BackgroundMusic` | background music under schedule, operators and priority audio |
| `DisplayCommands` | the router of commands to displays |
| `PresentationSession` | slides: library, live session, automatic advance |
| `VeyonConnections` | the pool of sessions with the Veyon WebAPI |
| `RoomServices` | the last three as services of the classroom's devices |
| `HubServices`, `MCHubServices` | all these services of the Hub with restarts and the full export |
| `HubServicesProofs` | the inductive invariant of each service, what follows, and the refinement of `LibraryItem` |

### VeyonQueue

A job of the code is an id in `queue` with its immutable fields in `job` and one `task` per
computer; the insertion order of the code's `Map` is the relation `before`.  `intents`,
`owned`, `activeModes` are the code's fields of the same names; `journal` is the preference
`veyon.lock-ownership`.  Each await of `run()` is a value of a task's `pc` (`eligible`,
`read`, `execute`, `confirm`); each continuation is an action: `Eligible`, `Read`,
`Observe`, `Execute`, `Confirm` when the awaited call gives what the code hopes for,
`NotEligible`, `NotRead`, `NotConfirmed` for the early returns and the catch.  A loop the
code runs without awaiting (`tick`, `reconcile`, `enqueueModeCleanup`, the constructor) is
a sequence of actions during which `at` is not `"idle"`, and no other handler can run.
`Restart` ends the process at any point: writes in flight are made or lost, and the
constructor loads the journal and enqueues the releases it owes.

`endpoint` is what is really active on the computers, which `Outside` may change;
`ours` and `wish` are history: which activations are the Hub's doing, and what the newest
command of an operator for a feature asks.

Abstractions: arguments, names and texts are left out; a record's id and ip are one value;
`authorize`, `lookup` and `eligible` read stores that change between any two awaits, so
their answers are left open; the seven final states of a task are one (`done`), because
nothing in the queue distinguishes them; times are reduced to `expired`, `backoff` and
"older than an hour"; `reconcile`'s limit of sixteen jobs and its cursor are left out (at
most sixteen intents are confirmed in the instances); a request id that was seen before is
no step.  An answer that comes after a timeout is modelled as a write that is made although
`execute()` failed; that it is made *later*, after the next command, is not modelled.

### AutomationRuns

`Scheduled` are occurrence ids (an automation on a date at a time for a class or block),
`Continuous` those whose sequence loops, `Manual` the ids of managed manual runs, `Tests`
one-shot manual tests.  `Uses[x]` is what `automationResourceKeys` returns for x.  The
ledger is `claimed` (an id has a row that blocks a claim) and `stops`
(`cancelledOccurrences`); any write may drop older rows, as the bounded history does.
`saved`/`marked` are `lastExecByClass` on disk and in memory.  `owners`, `flagged` and
`waits` are the registries of `server.js:9319-9323` and the promises a run awaits.
`pc` is where a run is: `waiting` for predecessors, `ready` at an action boundary or in
a delay, `acting` while an adapter has not answered.

Every handler is an action; where it awaits it is several (`ResumeRequested`,
`ResumeCancels`, `ResumeCancelled`, `ResumeReconciles`, `ResumeRecovers`).  `Admit` and
`Abort` are the arrival of a request that changes state and the disappearance of its
client; `Handle` is the guard of every handler of such a request.

Abstractions: which of the recoverable occurrences own all they use is any set of them that
share nothing (the code computes it from priorities, times and displays); the tick handles
one due occurrence per action, where the code loops over all of them without awaiting; one
request and one Resume at a time are in progress; `allowed` is the scheduler being enabled,
the day not suppressed and the test clock allowing commands; the end of a class is one of
the reasons of `Finish`; the actions that reconciliation itself dispatches belong to no run
and are left out.

### MorningAnnouncements

The lifecycle tasks of the code (a tick of the watcher, start, stop, release retry, Resume)
run one at a time: `tasks` is their queue, `Head(tasks)` the one that runs and `job` its
locals.  A step of a task is the code between two awaits, and `job.pc` names the await:
`probe`, the two commands of `assertMorningAnnouncements` (`takeover`, `show`), the
conditional clears of a release (`clear`, one command for each group of entries), and the
resynchronisation of the displays with the schedule (`resync`, one planned winner at a
time).  Every awaited command may fail, before or after it changed the displays.  `mode`,
`targets`, `offline`, `pending` are fields of `morningAnnouncementsRuntime`; `hold`,
`release`, `retry`, `deferred` are `morningAnnouncementsPriorityTargets`,
`morningAnnouncementsReleaseTargets`, the retry timer and
`deferredAnnouncementAutomations`.  `generation` stands for the identity of the saved
configuration object, which the code compares (`config !== ...`).

`screen[d]` is what display d was last told to show: the identity of its content
(`audioContentId`), by which the code recognises that something newer was written, and what
it is (an announcement, an occurrence, an operator's content).  Identities are random UUIDs
in the code; the model takes the smallest number that nothing refers to.

Beside the lifecycle run the scheduler (`OccurrenceDue`, `OccurrenceDispatches`), operators
(`OperatorWrites`), configuration changes, the diagnostic check, the clock and the export
freeze.  An occurrence is a number, larger when it is due later; all have one priority, so
that the winner of a display is the newest.

Abstractions: an occurrence has one display step; the runtime's `live` flag, texts and
times are left out, and so are the volume route and audio retries, learning reservations,
the validation of URLs, shutdown and restarts (the session is in memory only).  The offline
counter is kept no further than it is compared.

### HostMaintenance, MusicUpdates, FullRecovery, AppUpdate

The Host Agent (`host-agent/server.py`) answers requests of the Hub by long procedures on
files and containers.  `MusicUpdates` and `FullRecovery` are threads of it: `worker.pc`
names the call that comes next, and every call may fail, with or without its effect where
the code cannot tell.  `AppUpdate` is `app-update-runner.sh`, a systemd unit of its own; its
steps are the phases of the script, its request file is the journal, and it restarts the
Host Agent in the middle (`Replaced`).  Each has a journal on disk; what a step leaves
between two writes of the journal is a state of the model, because `Crash` (the Host
Agent) and `HostCrash` (everything) may come there.

Contents are names: a data directory is `"old"`, `"new"` (migrated by the new image),
`"part"` (a copy that was cut short); the parts of the application are the build they come from, and data that a
newer build has migrated is not for an older one.  `HostMaintenance` adds the lock
(`appliance_mutation_lock`), the export lease, and the start of the Host Agent: `boot` is
how far `serve()` has come.

`AllOrNothing` is the abstract specification: nothing changes before a record says so; what
is recorded at the end is what is deployed, whole.  `ChangesAreAllOrNothing` says that each
of the three implements it, by the refinement mappings at the end of their modules.

Left out: what fills the staged archive (extraction, checks of its manifest), package
updates of the operating system, Veyon's updates, image pulls as such, and the maintenance
agent that makes backups, external to these modules.

What the models follow and a reader of the code may not expect: a page's update that meets
a busy lock is deferred without a word (`app-update-runner.sh:288-293`); a failed update
has already overwritten the saved point of return (`487`), so the revert that was possible
before is not; after a rollback that failed the lock is free, since startup recovery takes
none.

### HubServices

`HubServices` puts services that share no state but the process and the full export
(`server.js:5262-5295`) side by side.  A service's module has the variable `paused` ("an
export was asked for") and is instantiated there; requests are guarded by `~paused` where
the admission middleware guards them, timers where their code asks `canRun`.  `Restart`
ends all of them at any await.  Since a step of one service never reads another's state,
one instance uses one service (`MaxUsed = 1`): what they share, export and restart, meets
each of them in every state.

* `ResumableUpload`: `requests[u]` is the chain of promises that owns a session
  (`locked`), `fileWork[u]` the one that owns a file (`withMediaFileWrite`); their heads
  run.  Writes that one handler makes without awaiting are one action with a parameter: how
  many of them were made before an error or the end of the process.  `LibraryItem` is what
  it implements.  Left out: PDF conversion, the read-only outcome of a cancel, the legacy
  upload in one request.
* `LearningReview`: one student and one activity.  `pending` is the row of the queue,
  `job` the row that `drain` has taken and the await it is at.  Left out: hidden posts, an
  explicit choice of an older reply, closed activities, a missing key, the gradebook.  A
  reader may not expect that switching grading off and on again grades an old pending row,
  and that a row of the same fingerprint that is submitted during the gradebook's await
  (`learning.js:309`) is removed with the older one.
* `IntegrationUpdates`: `install` and `tick` are the two flows that keep a copy of the
  saved state across awaits.  `firmware`, `flash`, `host` are the devices and the Host
  Agent; deliveries may take effect without an answer.  Left out: bindings of players, the
  identity of the Music Assistant server.
* `SportsService`: `refresh` is the copy that a refresh works on.  The providers' parsers
  are left out: a provider publishes a version or fails.
* `BackgroundMusic`: every operation in flight is a record with the await it is at, and
  `fresh` says that its generation is the current one.  Left out: a change of output, the
  sleep timer, volume, media played by hand that pauses all players, the counters of
  `PlaybackRecovery`.  What the model follows: a stop that fails at the end of the
  schedule's window is not tried again, as `scheduleActive` and `startedKey` are cleared
  before (`server.js:7422-7423`); a takeover that joins an older request for the player's
  status acts on it (`word` is `"unknown"` then, until the next tick corrects it, and it
  does not while `manualStopped` is set).
* `DisplayCommands`: a command is a record with the displays it is for and its await.
  Contents are numbers, larger for later commands; what a media command clears first has a
  number of its own.  `screens` are receivers by WebSocket, `mqtt` those by MQTT.  Left
  out: acknowledgements, audio, names of displays and groups.  The publishes of an
  unconditional command go from display to display and look at nothing between
  (`server.js:5008-5017`), so an MQTT receiver may end with the older of two commands;
  `ReceiversFollow` speaks of the WebSocket receivers.
* `PresentationSession`: `tasks` is the promise chain `withPresentationSession`, `todo` what
  the running task has still to send.  Left out: folders, displays dedicated to a
  leaderboard, rendering itself.
* `VeyonConnections`: `cache` and `flight` are the code's maps, `call` where a request is,
  `sweep` what a closing loop has still to close.  Left out: settings that change during an
  authentication, the choice of keys.

## What the runs check

| Run | Instance | Properties | States |
|---|---|---|---|
| `veyon_locks` | 1 computer, 1 lock, 3 job ids, 2 attempts; fairness | `TypeOK`, `JournalCoversOurs`, `ConfirmedIsOwned`, `NoStaleLock`, `Released` | 81,232 |
| `veyon_modes` | 1 computer, 2 broadcasts, a queue of 2 jobs, a journal of 1 record, export freeze | `WantedModesWereAsked`, `StopsAlwaysFit`, `NoOvertaking`, `DrainedStaysDrained` | 201,932 |
| `automation_stops` | s1 loops, s2; crashes, dropped rows, failed saves | `StopsAreSaved`, `StopIsTerminal`, `AtMostOnce` | 1,346,480 |
| `automation_owners` | s1, s2, manual m1 | `ExclusiveOwners`, `ResumeDrainsManualRuns` | 2,118,588 |
| `automation_drain` | s1, m1, test t1; aborted requests, freeze, shutdown; fairness | `FrozenIsQuiet`, `WaitersGetOn`, `ShutdownDrains` | 143,086 |
| `automation_tests` | s2, t1 | `ResumeEndsTests` (violated) | |
| `announcements_displays` | 2 displays, an occurrence, 2 requests, 2 failures, exports | `MusicIsHeld`, `HoldsHaveOwners`, `PendingIsRetried`, `NothingLeftShowing`, `FrozenIsQuiet` | 2,189,228 |
| `announcements_watch` | 1 display, 2 configurations, diagnostic checks, 2 confirmations, 1 failure; fairness | `WatcherLives`, `StreamEndIsConfirmed`, `DisabledNeverStarts`, `StopEndsSession`, `HoldEnds`, `DisabledEnds` | 420,416 |
| `announcements_newest` | 2 displays, 2 occurrences | `ShowsNewest` (violated) | |
| `host_changes` | a root that exists and one that does not, 2 builds, 2 jobs and 2 ends, or 3 in all; fairness | `WayBackIsKept`, `RestartsAreNotRepeated`, `ChangesAreAllOrNothing`, `InterruptedWorkIsSettled`, `LockIsReleased` | 145,753 |
| `hub_services` | each service alone with the export and one restart; fairness | `UploadsAreKept`, `UncertainWorkIsNotRepeated`, `NewerWorkIsKept`, `DisplaysShowWhatTheyShould`, `SessionsAreKept`, `ExportedDataIsStill`, `WorkEnds` | 224,285 |
| `learning_retry` | one student, one reply | `AcceptedWritingIsKept` (violated) | |

Bounds.  Two commands for one key and a third that a loop issues are what the races of the
queue need: one in flight, one superseding it, one of recovery; ids are reused when nothing
refers to them, so an execution may have any number of jobs.  Ownership needs chains of
three (a run that acts, one that waits for it, one that replaces both): s1, s2, m1 share a
display.  Announcements need a display that the failed command reached and one that it did
not, a session to extend, a second one during a pending release, and a failure in each; the
requests of an instance are starts, stops, Resume, exports and writes of operators, in any
order, and a failure is of any command or save.  `MaxRequests`, `MaxGenerations` and
`MaxFailures` bound them; the proofs hold for every value.  The limits of the code (128 jobs, 1024 tasks, 512 records, 8 attempts, 6
concurrent tasks) are constants that the instances make small, so that they are reached.

The `MC` modules restrict some runs by action constraints (no export, requests handled at once, no edits, no
dropped rows, a clock that stays) to keep them small; each restriction is named and commented there, and the proofs, which have none,
cover what it leaves out.

`host_changes`: an update of the application and another change have only the lock in
common, so `Apart` lets an update come first or after an interrupted upgrade; two ends of
the Host Agent are what a rollback that is itself interrupted needs.  `FullRecovery` needs a
root that exists and one that does not, as their renames differ.

`hub_services`: one service at a time (see above).  `OneProduct`: an Apollo device and
Music Assistant are maintained by turns and share the catalog only.  `UntilExported`,
`UntilUnanswered`, `FewCommands`, `FewTasks`, `FewSweeps` bound one service each and are
commented in `MCHubServices`; two chunks are what an order among them needs, two commands
and an announcement what an overtaken command needs, a second session what an orphan
needs.  A state constraint cuts behaviours off, so `WorkEnds` speaks of those that stay
within it; the constraints do not bound how long an upload or an update may take, only how
many requests meet it.  As one service is at work, and one upload,
`WorkEnds` is one formula, in `MCHubServices`.  Sports needs one source: each is fetched and merged by itself.

### Disagreements with the documentation

`docs/AUTOMATION-FRAMEWORK.md:180` promises that "A manual test that is not currently
scheduled must never repaint displays after Resume completes."  Managed manual runs (those
that loop) keep this: `ResumeDrainsManualRuns` is checked and proved.  A one-shot Run Now
(`server.js:6475-6483, 6548-6559`) is not registered anywhere, so Resume neither cancels
nor awaits it, and its next action may come after Resume has completed: `automation_tests`
finds the behaviour.  (`docs/AI-CONTEXT.md` bounds draft tests with looping actions to
one pass; the code runs them as managed manual runs, as `AUTOMATION-FRAMEWORK.md` says.)

`docs/CONFIGURATION.md:269` says that "Locked display actions are deferred and re-evaluated
at release", and `docs/AI-CONTEXT.md:385` that the newest currently applicable automation is
selected for each display.  `releaseMorningAnnouncements` computes the winners
(`server.js:1182`) and applies them while the lock is still held; an occurrence that comes
due during those awaits is deferred (`server.js:9452`) or loses its locked displays
(`server.js:2107`), and its deferral is not looked at again before the lock ends
(`server.js:1268`).  `announcements_newest` finds the behaviour: the announcement is over,
nothing is pending, and the display goes on showing the older occurrence until something
else writes it.

`docs/LEARNING-DISCUSSIONS.md:214` says that "a newer revision replaces the pending
snapshot".  When the review of an older snapshot fails for a moment, its own retry
(`learning.js:307`) goes through the same `enqueue`, whose `ON CONFLICT` replaces the
student's only row (`learning-retry-queue.js:17`): the newer reply that was queued meanwhile
loses its row and is never graded.  `learning_retry` finds the behaviour.

Three more were met while modelling, and are stated here without a run.  The timer that
removes expired uploads ignores the export freeze (`server.js:8592`;
`docs/DATABASE-FIRST-RECOVERY.md:338-340`), which is why `ExportedDataIsStill` names
`UploadCleanup` as an exception.  Media that was clearing the screens when a display was
dedicated to a leaderboard is shown there nevertheless (`server.js:4981-4998`;
`docs/LEARNING-ARCADE-DISPLAY.md:16-19`).  Manual media switches the schedule of the music
off as a saved preference (`server.js:7352-7378`); after a restart, Resume does not switch
it on again (`docs/OPERATIONS.md:124`).

## Fairness

`VeyonQueue`: the loops and timers of the Hub run (`Loops`, `Tick`, `BackoffEnds`: timers of
one process); an export freeze ends (its lease expires, `server.js:5280`); and a computer
that is asked again and again sometimes answers as hoped, at every await.  The last is
strong fairness of the good answers: nothing is promised for a computer that is off for
ever.  `Released` also supposes that the Hub does not restart for ever.

`AutomationRuns`: `Begin`, `Acted` and `Stop` are weakly fair: continuations of settled
promises run, adapters have timeouts, and `waitSeconds` checks every 500 ms
(`server.js:2010-2017`).  Nothing is assumed of `Finish`: a sequence may loop for ever, so
`WaitersGetOn` and `ShutdownDrains` rest on cancellation alone.

`MorningAnnouncements`: a task that runs gets on (`Lifecycle`: probes and publishes have
deadlines, and the queue of promises runs its next task whatever became of the last); the
two timers fire (`WatcherFires`, `RetryFires`); a started occurrence reaches its displays;
an export's lease expires.  Nothing is assumed of requests, the clock, what a probe answers
or whether a command succeeds; failures of commands are finitely many (`MaxFailures`), as a
display that fails for ever keeps its release pending for ever.

`HostMaintenance`: `FairSpec` asks only that the appliance does not stand still while a
thread, the runner, systemd or the end of a lease can go on (`Work`): a supervised process
is started again, every external call has a timeout, and a lease ends.  Crashes are
finitely many (`MaxCrashes`).

`HubServices`: continuations of an upload go on, since a body ends or its connection is
closed (`UploadStep`, `FileStep`); so do the flows of an update (`InstallStep`, `TickStep`)
and its timer, every thirty seconds; deliveries grow old and the Host Agent's work ends; an
export is answered or given up after thirty seconds, and its lease ends.  Strong fairness is
asked of one thing, that the Host Agent answers a status request now and then: it is a
supervised service, and an update whose outcome can never be read stays active for ever.
Nothing is assumed of requests, devices, providers and students.

## What is proved

`VeyonQueueProofs` (assuming `QueueAssumption`: finite non-empty `Hosts`, disjoint kinds of
features, positive limits; and, for `StopsAlwaysFit` and what rests on it,
`LimitsAssumption`: the stateful features, of which the code has five, are no more than
the 128 jobs of the queue, and the journal's 512 records no more than its 1024 tasks):

* `JournalInvariant`: `JournalInv` is invariant.  `JournalCoversOurs` is not inductive: an
  `Execute` could activate a feature that is not in the journal.  What excludes it is that a
  task at the await `execute` that activates something is of an owned key
  (`WritesAreOwned`), that owned keys are journaled and active ones of ours owned
  (`OursAreOwned`), and that ownership is given up only by a task that has just seen the
  feature inactive while no other task runs on that computer (`QueueInv`: one running task
  per computer, no task outside the queue).
* `TypeCorrect`, `JournalCovers`, `OneTaskPerComputer` follow.
* `PromisesInvariant`: `PromisesInv`, which is `JournalInv` and `Promises`, is invariant.
  What the properties leave open is how a task, the intent of its key and the operator's
  wish are related.  A lock task carries its own intent unless it re-asserts a confirmed
  lock, only a running one can be outlived by a newer intent, and no unlock that is still to
  be made has a confirmed intent against it (`LockTask`).  A start of a broadcast that no
  stop has marked is wished (`StartTask`).  The journal never exceeds its limit (`RoomInv`),
  and the loops that enqueue and start begin only in a queue that is not frozen
  (`LoopsRun`).  The conjuncts lean on each other: `WantedModesWereAsked` and `NoStaleLock`
  need `StopsAlwaysFit`, since a stop that is refused half way would leave tasks against
  the operator's wish; `ConfirmedIsOwned` needs that a computer runs one task at a time.
* `KeepsOrder`, `ReassertsItsOwn`, `WantedWasAsked`, `StopsFit` follow, and with it the
  action properties `NoLockAfterUnlock` (a lock is written only by a task that has just
  compared its intent, `OnlyReadsWrite`) and `DrainedIsStill`.

`AutomationRunsProofs` (assuming only `RunsAssumption`: the kinds of ids are disjoint):

* `RunsInvariant`: `RunsInv` is invariant.  `Registered` (only registered runs are past
  "none"), `Ordered` (of two owners sharing a resource one waits for the other, which is
  what makes chains of replacements exclusive), `StopsAreFlagged` (a saved stop that is
  registered is flagged), `MarkedOnDisk` (what has begun, or waits to begin, is marked on
  disk or loops), `Sealed` (a freeze admits nothing), `BygoneIsAwaited`.
* `TypesHold`, `OwnersExclude`, `StopsPersist`, `StopsAreTerminal`, `BegunAtMostOnce`,
  `ExportsReadQuietState`, `ResumeWaitsForManualRuns` follow.

`MorningAnnouncementsProofs` (assuming `DisplaysFinite` and `OccurrencesAreTimed`):

* `AnnouncementsInvariant`: `IInv` is invariant.  The properties are not inductive by
  themselves: that music stays held while a takeover fails rests on what the running task
  has in its locals (`TaskInv`: during a takeover the targets are those of the attempt and
  of the session it extends); that no display is left showing the stream rests on an
  account of every display that shows it (`ShowInv`: it is playing, or the release has an
  entry that is not settled and covers what it shows) and of the groups that a release has
  still to clear (`ClearInv`).
* `MusicStaysHeld`, `HoldsAreOwned`, `ReleasesAreRetried`, `WatcherStaysAlive`,
  `DisplaysAreGivenBack`, `DisabledStaysOff`, `EndsAreConfirmed`,
  `ExportsReadQuietDisplays` follow.

`MusicUpdatesProofs`, `FullRecoveryProofs`, `AppUpdateProofs` prove of each component by
itself, for any ends of the process at any step: an inductive invariant (`Invariance`), that
the data is kept (`DataKept`, `RootsKept`), and `AllOrNothing`.  None of the properties is
inductive, as the rollback is decided by what the next start reads:

* *Music Assistant*: what the journal claims is true of the disk, or is about to be made
  true by the worker, whichever is ahead (`Vouches`, `JournalIsAhead`); a snapshot exists
  before anything that could spoil the data (`DataIsSafe`); an outcome that was saved holds
  (`OutcomeHolds`); a restart is not made before its claim (`RestartsAreClaimed`).
* *Full recovery*, for any number of roots: the marks in the journal, with what exists under
  the two names of a root, say for every root whether it was moved, replaced or neither
  (`RootsAreKept`, `RootsAreWhole`), up to and including the one that is being renamed
  (`Activates`).
* *Application updates*, for any number of builds: a request that has started names a build
  with an environment, an image and a backup to come back to (`ComesBack`); how far the
  switch and the rollback have come, step by step (`SwitchedSoFar`, `RolledBackSoFar`); the
  Hub only runs on data that is not newer than it (`DataIsOld`).

`HostMaintenanceProofs` (assuming `RootsAssumption`: a recovery has at least one root, as it
always replaces the environment, the data and the master key; and `BoundsAssumption`):

* `MusicRuns`, `FullRuns`, `AppRuns`: every step of the Host Agent is a step of the component
  or leaves its state alone, so the theorems about the component carry over.  Neither the
  lock nor the order of the start is needed for that: each component is safe against any
  interleaving, and the lock and the order only keep two changes from running into each
  other.  The theorems are about `Spec`, without `Apart` and for any number of jobs and ends.
* `WayBack`, `RestartedOnce`, and `AllOrNothing` (the three refinements) follow.

`HubServicesProofs` (assuming `NamesAreDistinct`, `ActorsAreDistinct`: the names of devices,
computers and requests are not those that the modules use beside them; and
`BoundsAssumption`: the bounds are numbers).  A step of the Hub is, for one service, one of
its own steps or none (the lemmas `...Turns`), so each service has an invariant of its own,
at the end of its module.  TLC checks one service at a time; the proofs are about any of
them side by side.

* `ServicesAreWell`: `ServicesInv`, which is all of them and `FrozenIsDrained`, is invariant.
* `SentOnce`, from `UpdatesInv`: `sent[d] <= 1` alone says nothing of the two flows that save
  copies of a state they have read before.  What keeps it is that a device which is not
  uncertain has nothing unsettled (`DeliveriesAreSaved`), that the copy an installation will
  save has the current attempts and settles no job too early (`CopyIsCurrent`), that up to
  the delivery nothing is under way to the device (`NothingUnderWay`), and that saved
  attempts only move on to newer releases (`AttemptsAreKnown`).
* `UploadsKeep`, from `UploadsInv`: a request waits for its file at most once and nothing
  else waits in its name (`WaitsForItself`), what a request has read of its session is
  current but for a deletion's mark (`OwnsSession`), what was assembled, registered or
  deleted had all its chunks (`WholeOnceAssembled`), and what was listed is there until its
  session is retired (`ListedUntilDeleted`).  The refinement of `LibraryItem` is proved step
  by step: an accepted registration is `Add`, a deletion that got as far as the file is
  `Drop`, an operator's request to delete is `Ask`, and everything else stutters.
* `NewerKept`, of three services.  A grade: `Graded` asks again after its await
  (`StillWanted`), which with the types is enough.  Sports, from `SportsInv`: memory is what
  is saved and what was acknowledged last, and a page or a refresh that is not out of date
  has the current content.  Music, from `MusicInv`: after silence nothing that begins
  playback is fresh (`SilenceIsKept`), and while the player plays although it should not
  there is an operation in flight that silences it, or looks (`SilenceIsComing`).
* `DisplaysAreRight`, from `DisplaysInv` (only media clears a screen first, and a release
  owns the contents of streams only) and `SlidesInv`: the last that a task has still to send
  is what the session shows (`SlideIsComing`); the session on disk is of the same
  presentation, and who removes one has ended its session (`SavedIsSession`).
* `SessionsKept`, from `PoolInv`: who authenticates closes what was in the pool first, and
  nobody else puts a session there meanwhile (`PlaceIsFree`).
* `ExportIsStill`, from `ServicesInv`: while the data is copied nothing that the export
  waited for has begun again, so the only steps left are those of devices, of time, of
  sessions with the WebAPI, and the cleanup of expired uploads.

Only model-checked: every liveness property (`Released`, `WaitersGetOn`, `ShutdownDrains`,
`HoldEnds`, `DisabledEnds`, `StopEndsSession`, `InterruptedWorkIsSettled`, `LockIsReleased`,
`WorkEnds`): the prover does not handle `ENABLED`, hence no fairness.  The three findings are
counterexamples, which need no proof.

## Plan

1. *Done*: `VeyonQueue`, `AutomationRuns`, their runs, proofs of the journal and of ownership.
2. *Done*: `MorningAnnouncements`: watcher, takeover, release with retries, deferred
   automations, and proofs of its safety properties.
3. *Done*: `ResumableUpload`, `LearningReview`, `IntegrationUpdates`, `SportsService`; of the
   small state machines `MediaPlane` is left.
4. *Done*: `BackgroundMusic`: session generations and priority pauses.
5. *Done*: `DisplayCommands`, `PresentationSession`, `VeyonConnections`, and the composition
   with restarts and the full export in `HubServices`.
6. *Done*: the Host Agent: `MusicUpdates`, `FullRecovery`, `AppUpdate`, their composition and
   the abstract specification they implement.
7. Algorithms as operators against reference definitions: winners of displays
   (`currentAutomationDisplayWinners`), due actions, action passes, cycle days.
8. *Done*: proofs of all safety properties that the runs check, and of the refinements of
   `AllOrNothing` and `LibraryItem`.

## Not modelled

HTTP, authentication, rendering, formats and parsers; the browser applications; the agents
on Windows, Android and Ubuntu, which appear only as answers that come, fail or are lost;
installation and deployment.

Hazards that were looked at and have no property: broadcasts of one teacher that are started
twice may start out of order (`server.js:8097`); an occurrence is claimed and the save that
supersedes its predecessors fails (`server.js:9454`); the actions that reconciliation
dispatches itself belong to no run (`server.js:6322`); Veyon's settings are changed during an
authentication, whose `finally` then deletes the newer flight (`server.js:6842`); the Hub
stops between the two renames of a rebuilt presentation, which stays "ready" without slides
(`server.js:2440-2448`); a stop of a presentation whose save fails, and its removal, leave a
saved session of a presentation that is gone (`PresentationSession.unsaved`).  `PROJECT.json` lists every component with the reason.
