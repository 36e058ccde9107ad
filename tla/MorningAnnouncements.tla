------------------------ MODULE MorningAnnouncements ------------------------
(***************************************************************************)
(* The Morning Announcements lifecycle of src/server.js: the watcher that  *)
(* probes the stream, the takeover of the displays, its release with the   *)
(* resynchronisation of the scheduled automations, the release retries,    *)
(* Resume Scheduled State, and what runs beside them: the automation       *)
(* scheduler, operators who change displays, configuration changes and the *)
(* export freeze.                                                          *)
(*                                                                         *)
(* Lifecycle tasks run one at a time (serializeMorningAnnouncements-       *)
(* Lifecycle); a step of a task is the code between two awaits, so that    *)
(* everything else can happen in between.  A display command updates the   *)
(* displays' state and may then fail on its transports.                    *)
(*                                                                         *)
(* A scheduled occurrence is a number: a larger one is due later.          *)
(***************************************************************************)
EXTENDS Integers, FiniteSets, Sequences

CONSTANTS
  Displays,              \* the enabled displays
  TargetsOf,             \* TargetsOf[o]: the displays occurrence o writes
  OfflineConfirmations,  \* morningAnnouncements.offlineConfirmations
  MaxRequests,           \* bound: starts, stops, resumes, exports, writes of operators
  MaxGenerations,        \* bound: saved configurations
  MaxFailures            \* bound: commands and saves that fail

Occurrences == DOMAIN TargetsOf

ASSUME DisplaysFinite == IsFiniteSet(Displays)
ASSUME OccurrencesAreTimed ==
  /\ TargetsOf \in Seq(SUBSET Displays)
  /\ OfflineConfirmations \in Nat \ {0}
  /\ {MaxRequests, MaxGenerations, MaxFailures} \subseteq Nat

VARIABLES
  mode,        \* runtime.active and runtime.mode: "none" when not active
  targets,     \* runtime.targets
  offline,     \* runtime.offlineCount, no further than it is compared
  pending,     \* runtime.releaseReconcilePending
  hold,        \* morningAnnouncementsPriorityTargets: music is paused for these
  release,     \* morningAnnouncementsReleaseTargets: display -> entry
  retry,       \* morningAnnouncementsReleaseRetryTimer is armed
  tasks,       \* the lifecycle queue, its head the task that runs
  job,         \* the locals of the running task
  enabled,     \* morningAnnouncements.enabled
  generation,  \* identifies the configuration object and its watcher
  watcher,     \* morningAnnouncementsTimer is armed
  check,       \* the configuration a diagnostic check began with, 0 for none
  inWindow,    \* the clock is in the watch window of a school day
  screen,      \* persistentState.displays: content identity and what it is
  due,         \* the occurrences 1..due have come due
  running,     \* started occurrences that have not written their displays
  deferred,    \* deferredAnnouncementAutomations
  freeze,      \* fullExportFreeze: "off", "requested" or "held"
  heard,       \* periodic offline answers in a row (only properties read it)
  used         \* how much of each bound is spent

lifecycle == <<mode, targets, pending, hold, release, retry>>
watch     == <<offline, heard, enabled, generation, watcher, check, inWindow>>
schedule  == <<due, running, deferred>>
vars      == <<lifecycle, watch, schedule, tasks, job, screen, freeze, used>>

Nothing == 0
Announcement == -1
Other == -2

Active == mode # "none"
Locked(S) == IF Active THEN S \cap targets ELSE {}

NoJob == [pc |-> "idle", targets |-> {}, clearId |-> 0, contentId |-> 0, prevMode |-> "none",
          prevTargets |-> {}, groups |-> {}, plan |-> [d \in Displays |-> 0],
          failed |-> FALSE, incomplete |-> FALSE]

Task(k, g, S) == [kind |-> k, gen |-> g, targets |-> S]
Kind == Head(tasks).kind
Idle == tasks = <<>>

(***************************************************************************)
(* Content identities are random UUIDs; here the smallest one not in use.  *)
(* 0 is the empty identity of a display that never had content.            *)
(***************************************************************************)
UsedIds == {screen[d].id : d \in Displays} \cup {job.clearId, job.contentId}
             \cup {release[d].content : d \in DOMAIN release}
             \cup {release[d].clear : d \in DOMAIN release}
FreshId(S) == CHOOSE i \in 1..(Cardinality(S) + 1) : i \notin S
commandId == FreshId(UsedIds)
secondId == FreshId(UsedIds \cup {commandId})

Written(S, i, what) ==
  [d \in Displays |-> IF d \in S THEN [id |-> i, shows |-> what] ELSE screen[d]]

MayFail == used.failures < MaxFailures
CountFailure == used' = [used EXCEPT !.failures = @ + 1]

-----------------------------------------------------------------------------
(***************************************************************************)
(* Ends of tasks.  A watcher's tick re-arms its timer whatever happened,   *)
(* unless a newer configuration owns the watcher.                          *)
(***************************************************************************)
EndTask ==
  /\ tasks' = Tail(tasks)
  /\ job' = NoJob
  /\ watcher' = (watcher \/ (Kind = "tick" /\ Head(tasks).gen = generation))

(* An error reaches the tick's catch: the offline guard starts again.      *)
ForgetOffline == offline' = IF Kind = "tick" /\ Head(tasks).gen = generation
                            THEN 0 ELSE offline

scheduleMorningAnnouncementsReleaseRetry == retry' = TRUE

-----------------------------------------------------------------------------
(***************************************************************************)
(* assertMorningAnnouncements: take the lock and the music hold, clear the *)
(* displays, show the stream.                                              *)
(***************************************************************************)
assertMorningAnnouncements(S, m) ==
  /\ mode' = m
  /\ targets' = S \cup (IF Active THEN targets ELSE {})
  /\ hold' = hold \cup S
  /\ job' = [NoJob EXCEPT !.pc = "takeover", !.targets = S,
                          !.clearId = commandId, !.contentId = secondId,
                          !.prevMode = mode, !.prevTargets = targets]
  /\ UNCHANGED <<pending, release, retry, tasks, watcher>>

queueMorningAnnouncementsReleaseTargets(S, now, clearId) ==
  release' = [d \in S \cup DOMAIN release |->
                IF d \in S
                THEN [content |-> now[d].id, clear |-> clearId, cleared |-> FALSE]
                ELSE release[d]]

(* The catch of the takeover: keep what the attempt changed for the        *)
(* conditional cleanup, drop the holds of what it did not.                 *)
OnlyCleared(now) == {d \in job.targets : now[d].id = job.clearId}
OwnedContent(now) == {d \in job.targets : now[d].id \in {job.clearId, job.contentId}}

ForgetsPrevious == {}
StillPlaying == IF job.prevMode = "none" THEN {} ELSE job.prevTargets

TakeoverFails(now) ==
  /\ queueMorningAnnouncementsReleaseTargets(OwnedContent(now), now, commandId)
  /\ mode' = job.prevMode
  /\ targets' = IF job.prevMode = "none" THEN {}
                ELSE job.prevTargets \cup OwnedContent(now)
  /\ IF DOMAIN release' # {}
     THEN pending' = TRUE /\ scheduleMorningAnnouncementsReleaseRetry
     ELSE UNCHANGED <<pending, retry>>
  /\ hold' = hold \ (job.targets \ (DOMAIN release' \cup StillPlaying))
  /\ ForgetOffline
  /\ CountFailure
  /\ EndTask

TakeoverClear ==
  /\ job.pc = "takeover"
  /\ screen' = Written(job.targets, job.clearId, Nothing)
  /\ job' = [job EXCEPT !.pc = "show"]
  /\ UNCHANGED <<lifecycle, watch, schedule, tasks, freeze, used>>

TakeoverShow ==
  /\ job.pc = "show"
  /\ screen' = Written(job.targets, job.contentId, Announcement)
  /\ EndTask
  /\ UNCHANGED <<lifecycle, offline, heard, enabled, generation, check,
                 inWindow, schedule, freeze, used>>

TakeoverCommandFails ==
  /\ job.pc \in {"takeover", "show"}
  /\ MayFail
  /\ \/ UNCHANGED screen
     \/ job.pc = "takeover" /\ screen' = Written(job.targets, job.clearId, Nothing)
     \/ job.pc = "show" /\ screen' = Written(job.targets, job.contentId, Announcement)
  /\ TakeoverFails(screen')
  /\ UNCHANGED <<heard, enabled, generation, check, inWindow, schedule, freeze>>

-----------------------------------------------------------------------------
(***************************************************************************)
(* clearMorningAnnouncementsReleaseTargets: entries whose display has      *)
(* newer content are settled, the others are cleared, one command for the  *)
(* entries of one release.                                                 *)
(***************************************************************************)
ClearEntries(r) ==
  LET stale(d) == screen[d].id \notin {r[d].content, r[d].clear}
      left == [d \in DOMAIN r |-> [r[d] EXCEPT !.cleared = @ \/ stale(d)]]
  IN  /\ release' = left
      /\ job' = [NoJob EXCEPT !.pc = "clear",
                   !.groups = {left[d].clear : d \in {x \in DOMAIN r : ~left[x].cleared}}]

GroupOf(g) == {d \in DOMAIN release : release[d].clear = g /\ ~release[d].cleared}
Owned(g) == {d \in GroupOf(g) : screen[d].id \in {release[d].content, g}}

ClearGroup(g) ==
  /\ job.pc = "clear" /\ g \in job.groups
  /\ screen' = Written(Owned(g), g, Nothing)
  /\ release' = [d \in DOMAIN release |->
                   [release[d] EXCEPT !.cleared = @ \/ d \in GroupOf(g)]]
  /\ job' = [job EXCEPT !.groups = @ \ {g}]
  /\ UNCHANGED <<mode, targets, pending, hold, retry, watch, schedule, tasks,
                 freeze, used>>

ClearGroupFails(g) ==
  /\ job.pc = "clear" /\ g \in job.groups
  /\ MayFail /\ CountFailure
  /\ \/ UNCHANGED screen
     \/ screen' = Written(Owned(g), g, Nothing)
  /\ job' = [job EXCEPT !.groups = @ \ {g}, !.failed = TRUE]
  /\ UNCHANGED <<lifecycle, watch, schedule, tasks, freeze>>

(* The first half of releaseMorningAnnouncements: remember what to clear.  *)
releaseMorningAnnouncements ==
  /\ ClearEntries([d \in targets \cup DOMAIN release |->
                     IF d \in targets
                     THEN [content |-> screen[d].id, clear |-> commandId,
                           cleared |-> FALSE]
                     ELSE release[d]])
  /\ UNCHANGED <<mode, targets, pending, hold, retry, tasks, watcher>>

-----------------------------------------------------------------------------
(***************************************************************************)
(* After the clears: consumeDeferredAnnouncementAutomations, and the plan  *)
(* of resyncCurrentDisplayAutomationsAfterAnnouncements.  A retry gives up *)
(* at its first error, a release carries on and remembers it.              *)
(***************************************************************************)
Newest(d) ==
  LET S == {o \in 1..due : d \in TargetsOf[o]}
  IN  IF S = {} THEN 0 ELSE CHOOSE o \in S : \A p \in S : p <= o

currentAutomationDisplayWinners == [d \in Displays |-> Newest(d)]

RetryForgotten ==
  EndTask /\ UNCHANGED lifecycle
RetryFails ==
  /\ scheduleMorningAnnouncementsReleaseRetry
  /\ EndTask
  /\ UNCHANGED <<mode, targets, pending, hold, release>>

PlanResync(failed) ==
  job' = [job EXCEPT !.pc = "resync", !.plan = currentAutomationDisplayWinners,
                     !.failed = failed]

AfterClears == job.pc = "clear" /\ job.groups = {}

consumeDeferredAnnouncementAutomations ==
  /\ AfterClears /\ ~(Kind = "retry" /\ job.failed)
  /\ deferred' = {}
  /\ PlanResync(job.failed)
  /\ UNCHANGED <<lifecycle, watch, due, running, tasks, screen, freeze, used>>

ConsumeFails ==
  /\ AfterClears /\ Kind # "retry" /\ deferred # {}
  /\ MayFail /\ CountFailure
  /\ PlanResync(TRUE)
  /\ UNCHANGED <<lifecycle, watch, schedule, tasks, screen, freeze>>

RetryGivesUp ==
  /\ AfterClears /\ Kind = "retry"
  /\ \/ job.failed /\ UNCHANGED used
     \/ ~job.failed /\ deferred # {} /\ MayFail /\ CountFailure
  /\ RetryFails
  /\ UNCHANGED <<offline, heard, enabled, generation, check, inWindow, schedule,
                 screen, freeze>>

-----------------------------------------------------------------------------
(***************************************************************************)
(* runDisplayAutomationResync, one planned winner at a time, earliest      *)
(* first; a failed row may have cleared its displays.                      *)
(***************************************************************************)
WonBy(o) == {d \in Displays : job.plan[d] = o}
LeftToApply == {o \in Occurrences : WonBy(o) # {}}
IsNext(o) == \A p \in LeftToApply : o <= p
Without(o) == [d \in Displays |-> IF job.plan[d] = o THEN 0 ELSE job.plan[d]]

ResyncWinner ==
  /\ job.pc = "resync"
  /\ \E o \in LeftToApply :
       /\ IsNext(o)
       /\ job' = [job EXCEPT !.plan = Without(o)]
       /\ screen' = Written(WonBy(o), commandId, o)
  /\ UNCHANGED <<lifecycle, watch, schedule, tasks, freeze, used>>

ResyncWinnerFails ==
  /\ job.pc = "resync"
  /\ MayFail /\ CountFailure
  /\ \E o \in LeftToApply :
       /\ IsNext(o)
       /\ job' = [job EXCEPT !.plan = Without(o), !.incomplete = TRUE]
       /\ \/ UNCHANGED screen
          \/ screen' = Written(WonBy(o), commandId, Nothing)
  /\ UNCHANGED <<lifecycle, watch, schedule, tasks, freeze>>

(* Saving the execution markers of the winners ends the resync, and it may *)
(* fail.                                                                   *)
ResyncEnds(failed) ==
  /\ job.pc = "resync" /\ LeftToApply = {}
  /\ \/ ~failed /\ UNCHANGED used
     \/ failed /\ due > 0 /\ MayFail /\ CountFailure

ReleasesOnlyTargets ==
  /\ hold' = hold \ targets
  /\ release' = [d \in {} |-> 0]
  /\ pending' = FALSE
  /\ UNCHANGED retry
ReleaseComplete ==
  /\ hold' = hold \ DOMAIN release
  /\ release' = [d \in {} |-> 0]
  /\ pending' = FALSE
  /\ UNCHANGED retry

NotTriedAgain ==
  pending' = TRUE /\ UNCHANGED <<hold, release, retry>>
ReleaseIncomplete ==
  /\ pending' = TRUE
  /\ scheduleMorningAnnouncementsReleaseRetry
  /\ UNCHANGED <<hold, release>>

(* The lock ends whatever failed.                                          *)
KeepsLockOnError ==
  IF job.failed THEN UNCHANGED <<mode, targets>> ELSE mode' = "none" /\ targets' = {}
Unlock == mode' = "none" /\ targets' = {}

(* The end of releaseMorningAnnouncements, called by a stop or by a tick.  *)
FinishRelease ==
  \E failed \in BOOLEAN :
    /\ ResyncEnds(failed) /\ Kind \in {"stop", "tick"}
    /\ Unlock
    /\ IF failed \/ job.failed \/ job.incomplete
       THEN ReleaseIncomplete ELSE ReleaseComplete
    /\ IF failed \/ job.failed THEN ForgetOffline ELSE UNCHANGED offline
    /\ EndTask
    /\ UNCHANGED <<heard, enabled, generation, check, inWindow, schedule, screen,
                   freeze>>

FinishRetry ==
  \E failed \in BOOLEAN :
    /\ ResyncEnds(failed) /\ Kind = "retry"
    /\ IF failed \/ job.incomplete
       THEN RetryFails
       ELSE ReleaseComplete /\ EndTask /\ UNCHANGED <<mode, targets>>
    /\ UNCHANGED <<offline, heard, enabled, generation, check, inWindow, schedule,
                   screen, freeze>>

FinishResume ==
  \E failed \in BOOLEAN :
    /\ ResyncEnds(failed) /\ Kind = "resume"
    /\ EndTask
    /\ UNCHANGED <<lifecycle, offline, heard, enabled, generation, check,
                   inWindow, schedule, screen, freeze>>

-----------------------------------------------------------------------------
(***************************************************************************)
(* Tasks begin.                                                            *)
(***************************************************************************)
Begins(k) == job.pc = "idle" /\ ~Idle /\ Kind = k

BeginStart ==
  /\ Begins("start")
  /\ assertMorningAnnouncements(Head(tasks).targets, "manual")
  /\ UNCHANGED <<offline, heard, enabled, generation, check, inWindow, schedule,
                 screen, freeze, used>>

BeginStop ==
  /\ Begins("stop")
  /\ IF Active THEN releaseMorningAnnouncements
               ELSE EndTask /\ UNCHANGED lifecycle
  /\ UNCHANGED <<offline, heard, enabled, generation, check, inWindow, schedule,
                 screen, freeze, used>>

(* The callback of the release retry timer.                                *)
BeginRetry ==
  /\ Begins("retry")
  /\ IF Active \/ DOMAIN release = {}
     THEN EndTask /\ UNCHANGED lifecycle
     ELSE /\ ClearEntries(release)
          /\ UNCHANGED <<mode, targets, pending, hold, retry, tasks, watcher>>
  /\ UNCHANGED <<offline, heard, enabled, generation, check, inWindow, schedule,
                 screen, freeze, used>>

(* reconcileScheduledAutomationState, its displays.                        *)
BeginResume ==
  /\ Begins("resume")
  /\ IF Active
     THEN assertMorningAnnouncements(targets, mode)
     ELSE PlanResync(FALSE) /\ UNCHANGED <<lifecycle, tasks, watcher>>
  /\ UNCHANGED <<offline, heard, enabled, generation, check, inWindow, schedule,
                 screen, freeze, used>>

(* A tick of a retired watcher, during an export, or while an operator's   *)
(* announcement has the displays does nothing.                             *)
IdleWhenDisabled == Head(tasks).gen # generation \/ freeze # "off" \/ ~enabled
TickIsIdle == \/ Head(tasks).gen # generation
              \/ freeze # "off"
              \/ mode = "manual"

afterTick == <<enabled, generation, check, inWindow, schedule, screen, freeze, used>>

TickSkips ==
  /\ Begins("tick") /\ TickIsIdle
  /\ EndTask
  /\ UNCHANGED <<lifecycle, offline, heard, afterTick>>

TickProbes ==
  /\ Begins("tick") /\ ~TickIsIdle /\ enabled /\ inWindow
  /\ job' = [NoJob EXCEPT !.pc = "probe"]
  /\ UNCHANGED <<lifecycle, tasks, watcher, offline, heard, afterTick>>

TickOutside ==
  /\ Begins("tick") /\ ~TickIsIdle /\ ~(enabled /\ inWindow)
  /\ offline' = 0 /\ heard' = 0
  /\ IF Active THEN releaseMorningAnnouncements
               ELSE EndTask /\ UNCHANGED lifecycle
  /\ UNCHANGED afterTick

(* The answer of the probe; it is dropped when the configuration changed   *)
(* meanwhile.                                                              *)
AnyConfiguration == job.pc = "probe"
Probed == job.pc = "probe" /\ Head(tasks).gen = generation

ProbeRetired ==
  /\ job.pc = "probe" /\ Head(tasks).gen # generation
  /\ EndTask
  /\ UNCHANGED <<lifecycle, offline, heard, afterTick>>

ProbeUnknown ==
  /\ Probed
  /\ offline' = 0 /\ heard' = 0
  /\ EndTask
  /\ UNCHANGED <<lifecycle, afterTick>>

ProbeLive ==
  /\ Probed
  /\ offline' = 0 /\ heard' = 0
  /\ IF Active THEN EndTask /\ UNCHANGED lifecycle
               ELSE assertMorningAnnouncements(Displays, "automatic")
  /\ UNCHANGED afterTick

UpTo(n) == IF n < OfflineConfirmations THEN n + 1 ELSE n

ProbeOffline ==
  /\ Probed
  /\ offline' = UpTo(offline) /\ heard' = UpTo(heard)
  /\ IF Active /\ offline' >= OfflineConfirmations
     THEN releaseMorningAnnouncements
     ELSE EndTask /\ UNCHANGED lifecycle
  /\ UNCHANGED afterTick

-----------------------------------------------------------------------------
(***************************************************************************)
(* What runs beside the lifecycle: timers, requests, the diagnostic check, *)
(* the clock.  A request is refused while an export is requested or held.  *)
(***************************************************************************)
Submit(t) == tasks' = Append(tasks, t)

WatcherFires ==
  /\ watcher /\ watcher' = FALSE
  /\ Submit(Task("tick", generation, {}))
  /\ UNCHANGED <<lifecycle, offline, heard, enabled, generation, check, inWindow,
                 schedule, job, screen, freeze, used>>

(* During an export the callback only arms the timer again.                *)
RetryFires ==
  /\ retry /\ freeze = "off" /\ retry' = FALSE
  /\ Submit(Task("retry", 0, {}))
  /\ UNCHANGED <<mode, targets, pending, hold, release, watch, schedule, job,
                 screen, freeze, used>>

Request(t) ==
  /\ freeze = "off" /\ used.requests < MaxRequests
  /\ used' = [used EXCEPT !.requests = @ + 1]
  /\ Submit(t)
  /\ UNCHANGED <<lifecycle, watch, schedule, job, screen, freeze>>

RequestStart == \E S \in SUBSET Displays \ {{}} : Request(Task("start", 0, S))
RequestStop == Request(Task("stop", 0, {}))
RequestResume == Request(Task("resume", 0, {}))

(* PUT of the configuration: a new object, and a new watcher that owns the *)
(* timer.                                                                  *)
NeedsArmedTimer == generation' = generation + 1 /\ UNCHANGED watcher
restartMorningAnnouncementsWatcher == generation' = generation + 1 /\ watcher' = TRUE

SaveConfiguration ==
  /\ freeze = "off" /\ generation < MaxGenerations
  /\ enabled' \in BOOLEAN
  /\ restartMorningAnnouncementsWatcher
  /\ UNCHANGED <<lifecycle, offline, heard, check, inWindow, schedule, tasks, job,
                 screen, freeze, used>>

BeginCheck ==
  /\ freeze = "off" /\ check = 0 /\ check' = generation
  /\ UNCHANGED <<lifecycle, offline, heard, enabled, generation, watcher, inWindow,
                 schedule, tasks, job, screen, freeze, used>>

(* An offline answer must not bring the release nearer.                    *)
CountsChecks(live) == IF live = "offline" THEN UpTo(offline) ELSE 0
AfterCheck(live) == IF live = "offline" THEN offline ELSE 0

EndCheck(live) ==
  /\ check # 0 /\ check' = 0
  /\ offline' = IF check = generation THEN AfterCheck(live) ELSE offline
  /\ UNCHANGED <<lifecycle, heard, enabled, generation, watcher, inWindow,
                 schedule, tasks, job, screen, freeze, used>>

ClockMoves ==
  /\ inWindow' = ~inWindow
  /\ UNCHANGED <<lifecycle, offline, heard, enabled, generation, watcher, check,
                 schedule, tasks, job, screen, freeze, used>>

-----------------------------------------------------------------------------
(***************************************************************************)
(* The scheduler, as far as displays are concerned: an occurrence that     *)
(* comes due is deferred when one of its displays is locked; it supersedes *)
(* the older runs that share a display with it, and later writes those of  *)
(* its displays that are not locked then.                                  *)
(***************************************************************************)
OccurrenceDue ==
  /\ freeze = "off" /\ due < Len(TargetsOf)
  /\ LET o == due + 1 IN
     /\ due' = o
     /\ running' = {p \in running : TargetsOf[p] \cap TargetsOf[o] = {}} \cup {o}
     /\ deferred' = IF Locked(TargetsOf[o]) # {} THEN deferred \cup {o} ELSE deferred
  /\ UNCHANGED <<lifecycle, watch, tasks, job, screen, freeze, used>>

OccurrenceDispatches ==
  /\ \E o \in running :
       /\ running' = running \ {o}
       /\ screen' = Written(TargetsOf[o] \ Locked(TargetsOf[o]), commandId, o)
  /\ UNCHANGED <<lifecycle, watch, due, deferred, tasks, job, freeze, used>>

(* An unprotected command, such as Clear Classroom.                        *)
OperatorWrites ==
  /\ freeze = "off" /\ used.requests < MaxRequests
  /\ used' = [used EXCEPT !.requests = @ + 1]
  /\ \E d \in Displays : screen' = Written({d}, commandId, Other)
  /\ UNCHANGED <<lifecycle, watch, schedule, tasks, job, freeze>>

(* The export freeze is acquired when nothing is under way.                *)
OnlyRunsDrained == running = {}
Drained == Idle /\ running = {}

FreezeRequested ==
  /\ freeze = "off" /\ freeze' = "requested"
  /\ used.requests < MaxRequests /\ used' = [used EXCEPT !.requests = @ + 1]
  /\ UNCHANGED <<lifecycle, watch, schedule, tasks, job, screen>>

FreezeAcquired ==
  /\ freeze = "requested" /\ Drained
  /\ freeze' = "held"
  /\ UNCHANGED <<lifecycle, watch, schedule, tasks, job, screen, used>>

FreezeEnds ==
  /\ freeze # "off" /\ freeze' = "off"
  /\ UNCHANGED <<lifecycle, watch, schedule, tasks, job, screen, used>>

-----------------------------------------------------------------------------
Init ==
  /\ mode = "none" /\ targets = {} /\ offline = 0 /\ pending = FALSE
  /\ hold = {} /\ release = [d \in {} |-> 0] /\ retry = FALSE
  /\ tasks = <<>> /\ job = NoJob
  /\ enabled \in BOOLEAN /\ generation = 1 /\ watcher = TRUE /\ check = 0
  /\ inWindow \in BOOLEAN
  /\ screen = [d \in Displays |-> [id |-> 0, shows |-> Nothing]]
  /\ due = 0 /\ running = {} /\ deferred = {}
  /\ freeze = "off" /\ heard = 0
  /\ used = [requests |-> 0, failures |-> 0]

Begin == BeginStart \/ BeginStop \/ BeginRetry \/ BeginResume

Tick == TickSkips \/ TickProbes \/ TickOutside

Takeover == TakeoverClear \/ TakeoverShow \/ TakeoverCommandFails

Clearing == \E g \in job.groups : ClearGroup(g) \/ ClearGroupFails(g)

Resync ==
  \/ consumeDeferredAnnouncementAutomations \/ ConsumeFails \/ RetryGivesUp
  \/ ResyncWinner \/ ResyncWinnerFails
  \/ FinishRelease \/ FinishRetry \/ FinishResume

Probe == ProbeRetired \/ ProbeUnknown \/ ProbeLive \/ ProbeOffline

Lifecycle == Begin \/ Tick \/ Probe \/ Takeover \/ Clearing \/ Resync

Timers == WatcherFires \/ RetryFires

Requests == RequestStart \/ RequestStop \/ RequestResume \/ SaveConfiguration

Checks == BeginCheck \/ \E live \in {"live", "offline", "unknown"} : EndCheck(live)

Scheduler == OccurrenceDue \/ OccurrenceDispatches

Export == FreezeRequested \/ FreezeAcquired \/ FreezeEnds

Next == \/ Lifecycle \/ Timers \/ Requests \/ Checks \/ Scheduler
        \/ OperatorWrites \/ ClockMoves \/ Export

Spec == Init /\ [][Next]_vars

(***************************************************************************)
(* Awaits of the lifecycle end (probes and publishes have deadlines),      *)
(* timers fire, started runs reach their displays, an export's lease       *)
(* expires.  Nothing is assumed of requests, of the clock or of answers.   *)
(***************************************************************************)
Fairness == /\ WF_vars(Lifecycle)
            /\ WF_vars(WatcherFires) /\ WF_vars(RetryFires)
            /\ WF_vars(OccurrenceDispatches) /\ WF_vars(FreezeEnds)

FairSpec == Spec /\ Fairness

-----------------------------------------------------------------------------
(***************************************************************************)
(* Properties.                                                             *)
(***************************************************************************)
Entry == [content : Nat, clear : Nat, cleared : BOOLEAN]
Modes == {"none", "automatic", "manual"}

(* Every variable keeps its type; targets exist only while active.         *)
TypeOK ==
  /\ mode \in Modes /\ targets \subseteq Displays /\ (Active \/ targets = {})
  /\ offline \in 0..OfflineConfirmations /\ heard \in 0..OfflineConfirmations
  /\ hold \subseteq Displays
  /\ DOMAIN release \subseteq Displays
  /\ \A d \in DOMAIN release : release[d] \in Entry
  /\ {pending, retry, enabled, watcher, inWindow} \subseteq BOOLEAN
  /\ \A i \in DOMAIN tasks :
       /\ tasks[i].kind \in {"tick", "start", "stop", "resume", "retry"}
       /\ tasks[i].targets \subseteq Displays
  /\ job.pc \in {"idle", "probe", "takeover", "show", "clear", "resync"}
  /\ screen \in [Displays -> [id : Nat,
                              shows : {Nothing, Announcement, Other} \cup Occurrences]]
  /\ due \in 0..Len(TargetsOf)
  /\ running \subseteq 1..due /\ deferred \subseteq 1..due

(* Music is held paused for every display an announcement owns, from the   *)
(* moment it takes the display until its release, through failed and       *)
(* extended takeovers, release retries and Resume.                         *)
MusicIsHeld == targets \subseteq hold

(* No music hold is orphaned: each belongs to a display of the active      *)
(* announcement or to a release that is on record.                         *)
HoldsHaveOwners == hold \subseteq targets \cup DOMAIN release

(* A release that did not finish is on record and will be tried again,     *)
(* unless an announcement is active, whose own release completes it.       *)
PendingIsRetried ==
  ~Active /\ DOMAIN release # {}
    => pending /\ (retry \/ \E i \in DOMAIN tasks : tasks[i].kind = "retry")

(* Once released, no display still shows the announcement, whatever failed *)
(* during takeovers and releases.                                          *)
NothingLeftShowing ==
  ~Active /\ ~pending => \A d \in Displays : screen[d].shows # Announcement

(* The watcher never dies: its timer is armed or its tick is in the queue, *)
(* however configuration changes interleave with a running tick.           *)
WatcherLives ==
  watcher \/ \E i \in DOMAIN tasks : tasks[i].kind = "tick" /\ tasks[i].gen = generation

(* The stream's end releases the displays only after as many periodic      *)
(* offline answers in a row as configured: diagnostic checks never bring   *)
(* it nearer.                                                              *)
StreamEndIsConfirmed ==
  [][job.pc = "probe" /\ job'.pc = "clear" => heard' = OfflineConfirmations]_vars

(* The watcher never takes the displays while announcements are disabled,  *)
(* not even with an answer it waited for when they were disabled.          *)
DisabledNeverStarts == [][~Active /\ mode' = "automatic" => enabled]_vars

(* While an export is held nothing of the announcements' state or of what  *)
(* the displays show changes.                                              *)
FrozenIsQuiet ==
  [][freeze = "held" => UNCHANGED <<mode, targets, pending, hold, release, screen,
                                    deferred>>]_vars

(* A stop ends the announcement even if every command of its release fails. *)
StopEndsSession ==
  (\E i \in DOMAIN tasks : tasks[i].kind = "stop") ~> ~Active

(* A pending release comes to its end, and the music can resume, unless    *)
(* another announcement takes over.                                        *)
HoldEnds == (pending /\ ~Active) ~> (Active \/ (~pending /\ hold = {}))

(* An automatic announcement ends after it has been disabled.              *)
DisabledEnds == (~enabled /\ mode = "automatic") ~> (enabled \/ mode # "automatic")

(* After announcements are over and every run has reached its displays, a  *)
(* display shows the newest occurrence that came due for it, unless an     *)
(* operator wrote it since.                                                *)
ShowsNewest ==
  Idle /\ ~Active /\ ~pending /\ running = {} =>
    \A d \in Displays : Newest(d) = 0 \/ screen[d].shows \in {Newest(d), Other}
=============================================================================
