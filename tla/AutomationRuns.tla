--------------------------- MODULE AutomationRuns ---------------------------
(* The runs of Classroom Automation (src/server.js, with the ledger of        *)
(* src/automation-runtime.js).  A run belongs to a scheduled occurrence, a     *)
(* managed manual run or a one-shot manual test; it performs its actions one   *)
(* by one, checking before each whether it may still go on.  A run that starts *)
(* cancels the older ones that use its displays, TVs or lights, and waits      *)
(* until they have settled.  Claims, cancellations and execution marks are     *)
(* persisted, so that a restarted Hub neither repeats a run nor revives one    *)
(* that was stopped.                                                           *)
(*                                                                             *)
(* The Hub runs one handler at a time: an action is the code between two       *)
(* awaits.  Any save may fail.                                                 *)
EXTENDS FiniteSets

CONSTANTS
    Scheduled,   \* occurrence ids: automation, class or block, date and time
    Continuous,  \* those of sequences with actions that loop continually
    Manual,      \* ids of managed manual runs; one is reused when nothing refers to it
    Tests,       \* one-shot manual tests in progress, likewise
    Uses         \* the resource keys of a run (automationResourceKeys)

Owners == Scheduled \cup Manual
Runs == Owners \cup Tests

ASSUME RunsAssumption ==
    /\ Continuous \subseteq Scheduled
    /\ Scheduled \cap Manual = {} /\ Scheduled \cap Tests = {} /\ Manual \cap Tests = {}

VARIABLES
    claimed,    \* ledger: occurrences with a row "claimed", "running" or "succeeded"
    stops,      \* ledger: cancelledOccurrences, the stops kept when rows are dropped
    saved,      \* lastExecByClass on disk
    marked,     \* lastExecByClass in memory
    owners,     \* the keys of automationRunningOccurrences(Meta)
    waits,      \* the tasks a run waits for before it executes
    pc,         \* where a run is
    flagged,    \* automationCancelledOccurrences
    stale,      \* running occurrences whose automation was edited, disabled or deleted
    clock,      \* how the time relates to an occurrence
    allowed,    \* scheduler enabled, no suppressed day, commands allowed by the test clock
    media,      \* manualMediaPriorityRuntime: off, active, or it paused the scheduler
    startup,    \* startup reconciliation
    resume,     \* the Resume request in progress
    awaited,    \* the manual runs it waits for
    freeze,     \* fullExportFreeze: none, requested, active
    life,       \* up, requested (shutdownRequested), down (shuttingDown)
    admitted,   \* an HTTP request whose handler has not run yet: none, open or aborted
    begun,      \* history: the occurrences whose sequence has begun
    bygone      \* history: the manual runs and tests in progress at the last Resume

ledger == <<claimed, stops>>
disk == <<claimed, stops, saved>>
runState == <<owners, waits, pc, flagged, stale>>
policy == <<clock, allowed, media>>
requests == <<resume, awaited, bygone>>
hub == <<freeze, life, admitted>>
vars == <<disk, marked, runState, policy, startup, requests, hub, begun>>

Init ==
    /\ claimed = {} /\ stops = {} /\ saved = {} /\ marked = {}
    /\ owners = {} /\ waits = [x \in Runs |-> {}] /\ pc = [x \in Runs |-> "none"]
    /\ flagged = {} /\ stale = {} /\ clock = [i \in Scheduled |-> "early"]
    /\ allowed = TRUE /\ media = "off" /\ startup = "pending" /\ resume = "idle" /\ awaited = {}
    /\ freeze = "none" /\ life = "up" /\ admitted = "none" /\ begun = {} /\ bygone = {}

----------------------------------------------------------------------------
(* The ledger and the registry of runs.                                      *)

Shares(x, y) == Uses[x] \cap Uses[y] # {}
OverlapsManual(x) == {o \in owners \cap Manual : Shares(o, x)}
\* The owners a new run x takes resources from (never x itself).
Overlapping(x) == {o \in owners \ {x} : Shares(o, x)}

\* Timers run, and requests that change state are admitted.
Accepting == life = "up" /\ freeze = "none"

\* The handler of an admitted request runs, once its body is read; not that of a client
\* that has disconnected, when the Hub is stopping or frozen (trackApplicationHandlers).
HandleAborted == admitted # "none" /\ admitted' = "none"
Handle ==
    /\ admitted = "open" \/ (admitted = "aborted" /\ Accepting)
    /\ admitted' = "none"

\* write(): rows for S are appended, and older rows beyond the limit are dropped.
Write(S) == \E dropped \in SUBSET claimed : claimed' = (claimed \ dropped) \cup S

\* requestAutomationRunCancellation(): the stops are saved in the same write, before
\* any run can see them.  Stops of manual runs are ordinary history.
ExposeFirst(victims, S) ==
    /\ Write(S) /\ flagged' = flagged \cup victims
    /\ stops' \in {stops, stops \cup (victims \cap Scheduled)}
RequestCancellation(victims, S) ==
    /\ Write(S) /\ flagged' = flagged \cup victims
    /\ stops' = stops \cup (victims \cap Scheduled)

\* startOwnedAutomationOccurrence(): the run owns its resources at once and waits for
\* the older owners of any of them.
WaitsForManual(x) == OverlapsManual(x)
Predecessors(x) == Overlapping(x)
StartOwned(S) ==
    /\ owners' = owners \cup S
    /\ waits' = [x \in Runs |-> IF x \in S THEN Predecessors(x) ELSE waits[x]]
    /\ pc' = [x \in Runs |-> IF x \in S THEN "waiting" ELSE pc[x]]
    /\ stale' = stale \ S

\* Its finalizer: the task leaves every registry and no longer keeps anyone waiting.
StillAwaited(x) == waits
NoLongerAwaited(x) == [y \in Runs |-> waits[y] \ {x}]
Deregister(x) ==
    /\ owners' = owners \ {x} /\ flagged' = flagged \ {x} /\ stale' = stale \ {x}
    /\ waits' = NoLongerAwaited(x) /\ awaited' = awaited \ {x}
    /\ pc' = [pc EXCEPT ![x] = "none"] /\ bygone' = bygone \ {x}

----------------------------------------------------------------------------
(* Starting runs.                                                            *)

TickRuns == Accepting /\ allowed /\ startup = "done"

IgnoresSave(i) == claimed' = claimed \cup {i} /\ saved' \in {saved, marked'}
\* The claim is in the ledger and the execution mark on disk: only then a run starts.
Recorded(i) == Write({i}) /\ saved' = marked'

\* automationSchedulerTick(), for one due occurrence: claimed, marked, and started, unless
\* a save fails on the way or the occurrence is already owned (recovered and waiting).
ClaimOccurrence(i) ==
    /\ TickRuns /\ clock[i] = "due" /\ i \notin marked /\ i \notin stops /\ i \notin claimed
    /\ marked' = marked \cup {i}
    /\ \/ Write({i}) /\ saved' = saved /\ UNCHANGED <<stops, runState>>
       \/ Recorded(i) /\ UNCHANGED <<stops, runState>>
       \/ /\ RequestCancellation(Overlapping(i), {i}) /\ Recorded(i)
          /\ IF i \in owners THEN UNCHANGED <<owners, waits, pc, stale>> ELSE StartOwned({i})
    /\ UNCHANGED <<policy, startup, requests, hub, begun>>

\* startManagedManualAutomation(): a sequence that loops, started by an operator.
StartManual(m) ==
    /\ Handle /\ m \notin owners
    /\ RequestCancellation(Overlapping(m), {}) /\ StartOwned({m})
    /\ UNCHANGED <<saved, marked, policy, startup, requests, freeze, life, begun>>

\* recoverContinuousAutomationOccurrences(): occurrences that still own everything they
\* use, and were not stopped, run again.
ForgetsStops(i) == i \in Continuous /\ clock[i] \in {"due", "open"} /\ i \notin owners
Recoverable(i) ==
    i \in Continuous /\ clock[i] \in {"due", "open"} /\ i \notin owners /\ i \notin stops
Recover ==
    \E S \in (SUBSET {i \in Scheduled : allowed /\ Recoverable(i)}) \ {{}} :
        /\ \A i, j \in S : i # j => ~Shares(i, j)
        /\ RequestCancellation(UNION {Overlapping(i) : i \in S}, {})
        /\ StartOwned(S)

\* reconcileScheduledAutomationState(): the current state is asserted again; what that
\* covers counts as executed; a paused scheduler does not prevent it.
Reconcile ==
    /\ \E S \in SUBSET {i \in Scheduled : clock[i] \in {"due", "open"}} :
         marked' = marked \cup S
    /\ saved' \in {saved, marked'}

\* reconcileAutomationStartup(), up to its two awaits.
StartupBegins ==
    /\ startup = "pending" /\ Accepting
    /\ startup' = IF allowed THEN "reconciling" ELSE "done"
    /\ UNCHANGED <<disk, marked, runState, policy, requests, hub, begun>>
StartupReconciles ==
    /\ startup = "reconciling" /\ Reconcile /\ startup' = "recovering"
    /\ UNCHANGED <<ledger, runState, policy, requests, hub, begun>>
StartupRecovers ==
    /\ startup = "recovering" /\ startup' = "done"
    /\ Recover \/ UNCHANGED <<ledger, runState>>
    /\ UNCHANGED <<saved, marked, policy, requests, hub, begun>>

----------------------------------------------------------------------------
(* A run (runClassroomAutomation and its callers).                           *)

\* assertRunActive().  A one-shot test has no occurrence that could be cancelled.
Active(x) ==
    /\ x \notin flagged /\ life # "down"
    /\ x \in Scheduled => allowed /\ x \notin stale

\* Every predecessor has settled: the sequence begins, or its ledger row is not saved.
Begin(x) ==
    /\ pc[x] = "waiting" /\ waits[x] = {}
    /\ \/ /\ pc' = [pc EXCEPT ![x] = "ready"]
          /\ IF x \in Scheduled THEN Write({x}) /\ begun' = begun \cup {x}
                                ELSE UNCHANGED <<claimed, begun>>
          /\ UNCHANGED <<owners, waits, flagged, stale, awaited, bygone>>
       \/ x \in Scheduled /\ Deregister(x) /\ UNCHANGED <<claimed, begun>>
    /\ UNCHANGED <<stops, saved, marked, policy, startup, resume, hub>>

\* The next action of the sequence, or its timer overlay, is dispatched ...
Act(x) ==
    /\ pc[x] = "ready" /\ Active(x) /\ pc' = [pc EXCEPT ![x] = "acting"]
    /\ UNCHANGED <<disk, marked, owners, waits, flagged, stale, policy, startup, requests,
                   hub, begun>>
\* ... and its adapters have answered, or failed.
Acted(x) ==
    /\ pc[x] = "acting" /\ pc' = [pc EXCEPT ![x] = "ready"]
    /\ UNCHANGED <<disk, marked, owners, waits, flagged, stale, policy, startup, requests,
                   hub, begun>>

\* The run ends: its result is recorded and saved, if the saves succeed, and it settles.
Settle(x) ==
    /\ pc[x] = "ready" /\ Deregister(x)
    /\ saved' \in {saved, marked}
    /\ UNCHANGED <<stops, marked, policy, startup, resume, hub, begun>>
\* Cancelled, interrupted, paused, suppressed or edited: noticed within 500 ms.
Stop(x) == ~Active(x) /\ Settle(x) /\ Write({})
\* Nothing is left to do, the class is over, or an action failed for good.
Finish(x) ==
    /\ Active(x) /\ Settle(x)
    /\ \E succeeded \in SUBSET ({x} \cap Scheduled) : Write(succeeded)

----------------------------------------------------------------------------
(* Requests of operators.                                                    *)

Cancel(x) ==
    /\ Handle /\ x \in owners /\ RequestCancellation({x}, {})
    /\ UNCHANGED <<saved, marked, owners, waits, pc, stale, policy, startup, requests,
                   freeze, life, begun>>

\* engageManualMediaPriority(): media played by hand pauses the scheduler and cancels
\* every run, unless that cannot be saved.
PlayMedia ==
    /\ Handle
    /\ media' = IF media # "off" THEN media ELSE IF allowed THEN "paused" ELSE "active"
    /\ \/ allowed' = FALSE /\ RequestCancellation(owners, {})
       \/ allowed' \in {FALSE, allowed} /\ UNCHANGED <<ledger, flagged>>
    /\ UNCHANGED <<saved, marked, owners, waits, pc, stale, clock, startup, requests,
                   freeze, life, begun>>

\* A one-shot Run Now: the managed manual runs it overlaps are cancelled and awaited.
\* The test itself is not registered: nothing can cancel it and nothing waits for it.
StartTest(t) ==
    /\ Handle /\ pc[t] = "none"
    /\ RequestCancellation(OverlapsManual(t), {})
    /\ waits' = [waits EXCEPT ![t] = OverlapsManual(t)] /\ pc' = [pc EXCEPT ![t] = "waiting"]
    /\ UNCHANGED <<saved, marked, owners, stale, policy, startup, requests, freeze, life,
                   begun>>

AwaitsNothing == {}
ManualOwners == owners \cap Manual

\* Resume Scheduled State: releaseManualMediaPriority() enables the scheduler again (the
\* calendar or the test clock may still forbid runs), ...
ResumeRequested ==
    /\ Handle /\ resume = "idle" /\ resume' = "releasing"
    /\ media' = "off"
    /\ allowed' = allowed \/ (allowed' = TRUE /\ media = "paused")
    /\ UNCHANGED <<disk, marked, runState, clock, startup, awaited, bygone, freeze, life,
                   begun>>
\* ... cancelActiveManualAutomationRuns() stops the manual runs, ...
ResumeCancels ==
    /\ resume = "releasing" /\ RequestCancellation(ManualOwners, {})
    /\ resume' = "cancelling" /\ awaited' = ManualOwners
    /\ bygone' = (owners \cap Manual) \cup {t \in Tests : pc[t] # "none"}
    /\ UNCHANGED <<saved, marked, owners, waits, pc, stale, policy, startup, hub, begun>>
\* ... the tasks have settled, ...
ResumeCancelled ==
    /\ resume = "cancelling" /\ awaited = {} /\ resume' = "reconciling"
    /\ UNCHANGED <<disk, marked, runState, policy, startup, awaited, bygone, hub, begun>>
\* ... the scheduled state is asserted, and continuous occurrences recover.
ResumeReconciles ==
    /\ resume = "reconciling" /\ Reconcile /\ resume' = "recovering"
    /\ UNCHANGED <<ledger, runState, policy, startup, awaited, bygone, hub, begun>>
ResumeRecovers ==
    /\ resume = "recovering" /\ resume' = "idle"
    /\ Recover \/ UNCHANGED <<ledger, runState>>
    /\ UNCHANGED <<saved, marked, policy, startup, awaited, bygone, hub, begun>>

\* ... unless a save fails on the way.
ResumeFails ==
    /\ resume \in {"releasing", "reconciling", "recovering"} /\ resume' = "idle"
    /\ bygone' = {}
    /\ UNCHANGED <<disk, marked, runState, policy, startup, awaited, hub, begun>>

\* PUT or DELETE of the automation of a running occurrence.
Edit(i) ==
    /\ Handle /\ i \in owners /\ i \notin stale /\ stale' = stale \cup {i}
    /\ saved' = marked
    /\ UNCHANGED <<ledger, marked, owners, waits, pc, flagged, policy, startup, requests,
                   freeze, life, begun>>

\* The scheduler is paused or resumed, the day suppressed, or the test clock set.
Toggle ==
    /\ Handle /\ allowed' = ~allowed
    /\ UNCHANGED <<disk, marked, runState, clock, media, startup, requests, freeze, life,
                   begun>>

----------------------------------------------------------------------------
(* Export freeze, shutdown, restart and time.                                *)

\* A request that changes state arrives; its client may go away, and it may be refused.
Admit ==
    /\ Accepting /\ admitted = "none" /\ admitted' = "open"
    /\ UNCHANGED <<disk, marked, runState, policy, startup, requests, freeze, life, begun>>
Abort ==
    /\ admitted = "open" /\ admitted' = "aborted"
    /\ UNCHANGED <<disk, marked, runState, policy, startup, requests, freeze, life, begun>>
Refuse ==
    /\ admitted # "none" /\ admitted' = "none"
    /\ UNCHANGED <<disk, marked, runState, policy, startup, requests, freeze, life, begun>>

FreezeBegins ==
    /\ Accepting /\ freeze' = "requested"
    /\ UNCHANGED <<disk, marked, runState, policy, startup, requests, life, admitted,
                   begun>>

\* drained(): no request, no tracked task and no reconciliation is in progress.
Drained ==
    /\ admitted # "open" /\ owners = {} /\ \A t \in Tests : pc[t] = "none"
    /\ resume = "idle" /\ startup \in {"pending", "done"}

\* The freeze is acquired; or it times out, is aborted by a shutdown, thaws or expires.
FreezeActive ==
    /\ freeze = "requested" /\ life = "up" /\ Drained /\ freeze' = "active"
    /\ UNCHANGED <<disk, marked, runState, policy, startup, requests, life, admitted,
                   begun>>
FreezeEnds ==
    /\ freeze # "none" /\ freeze' = "none"
    /\ UNCHANGED <<disk, marked, runState, policy, startup, requests, life, admitted,
                   begun>>

\* gracefulShutdown(): admission stops; when no export owns a freeze, runs stop too.
ShutdownRequested ==
    /\ life = "up" /\ life' = "requested"
    /\ UNCHANGED <<disk, marked, runState, policy, startup, requests, freeze, admitted,
                   begun>>
ShuttingDown ==
    /\ life = "requested" /\ freeze = "none" /\ life' = "down"
    /\ UNCHANGED <<disk, marked, runState, policy, startup, requests, freeze, admitted,
                   begun>>

\* The process exits or crashes, at any await, and is started again.
Restart ==
    /\ marked' = saved /\ owners' = {} /\ waits' = [x \in Runs |-> {}]
    /\ pc' = [x \in Runs |-> "none"] /\ flagged' = {} /\ stale' = {}
    /\ startup' = "pending" /\ resume' = "idle" /\ awaited' = {} /\ freeze' = "none"
    /\ life' = "up" /\ bygone' = {} /\ media' = "off" /\ admitted' = "none"
    /\ UNCHANGED <<disk, clock, allowed, begun>>

\* An occurrence comes due, leaves the catch-up window, and its class ends.
Passes(i) ==
    /\ \/ clock[i] = "early" /\ clock' = [clock EXCEPT ![i] = "due"]
       \/ clock[i] = "due" /\ clock' = [clock EXCEPT ![i] = "open"]
       \/ clock[i] = "open" /\ clock' = [clock EXCEPT ![i] = "closed"]
    /\ UNCHANGED <<disk, marked, runState, allowed, media, startup, requests, hub, begun>>

Next ==
    \/ \E i \in Scheduled : ClaimOccurrence(i) \/ Edit(i) \/ Passes(i)
    \/ \E m \in Manual : StartManual(m)
    \/ \E t \in Tests : StartTest(t)
    \/ \E x \in Runs : Begin(x) \/ Act(x) \/ Acted(x) \/ Stop(x) \/ Finish(x) \/ Cancel(x)
    \/ StartupBegins \/ StartupReconciles \/ StartupRecovers
    \/ ResumeRequested \/ ResumeCancels \/ ResumeCancelled \/ ResumeReconciles
    \/ ResumeRecovers \/ ResumeFails \/ PlayMedia \/ Toggle \/ Admit \/ Abort \/ Refuse
    \/ FreezeBegins \/ FreezeActive \/ FreezeEnds \/ ShutdownRequested \/ ShuttingDown
    \/ Restart

Spec == Init /\ [][Next]_vars

----------------------------------------------------------------------------
(* What automation promises.                                                 *)

\* Types; in particular a run only ever waits for tasks that are still registered: one
\* that had settled would never release it.
TypeOK ==
    /\ claimed \subseteq Scheduled /\ stops \subseteq Scheduled
    /\ saved \subseteq Scheduled /\ marked \subseteq Scheduled /\ begun \subseteq Scheduled
    /\ owners \subseteq Owners /\ flagged \subseteq owners /\ stale \subseteq owners
    /\ waits \in [Runs -> SUBSET owners] /\ awaited \subseteq owners
    /\ pc \in [Runs -> {"none", "waiting", "ready", "acting"}]
    /\ clock \in [Scheduled -> {"early", "due", "open", "closed"}] /\ allowed \in BOOLEAN
    /\ media \in {"off", "active", "paused"}
    /\ startup \in {"pending", "reconciling", "recovering", "done"}
    /\ resume \in {"idle", "releasing", "cancelling", "reconciling", "recovering"}
    /\ freeze \in {"none", "requested", "active"} /\ life \in {"up", "requested", "down"}
    /\ admitted \in {"none", "open", "aborted"}
    /\ bygone \subseteq Manual \cup Tests

Executing(x) == pc[x] \in {"ready", "acting"}

\* Two owners of a display, TV or light never execute at the same time, not even while
\* the cancelled one's last command is still on its way (AUTOMATION-FRAMEWORK.md:88-90).
ExclusiveOwners ==
    \A x, y \in owners : x # y /\ Shares(x, y) => ~(Executing(x) /\ Executing(y))

\* A stop that has taken effect is on disk: no crash can forget it.
StopsAreSaved == flagged \cap Scheduled \subseteq stops

\* The sequence of a stopped occurrence dispatches no further action: not now, not after
\* any restart, Resume or scheduler tick, whatever the ledger's bounded history has dropped
\* (APPLICATION-LIFECYCLE.md:143-147).
StopIsTerminal ==
    [][\A i \in stops : pc[i] # "acting" => pc'[i] # "acting"]_vars

\* A sequence that does not loop is run at most once for its occurrence, also when the
\* Hub crashes between the saves of its claim and mark or has lost the claim's row.
AtMostOnce ==
    [][\A i \in begun \ Continuous : pc[i] = "waiting" => pc'[i] # "ready"]_vars

\* While an export reads the frozen state, no run, test, Resume or reconciliation is in
\* progress that could still write the ledger.
FrozenIsQuiet ==
    freeze = "active" =>
        /\ owners = {} /\ \A t \in Tests : pc[t] = "none"
        /\ resume = "idle" /\ startup \in {"pending", "done"}

\* Scheduled state is reasserted only after every managed manual run that was active at
\* the Resume has settled (AUTOMATION-FRAMEWORK.md:180).
ResumeDrainsManualRuns ==
    resume \in {"reconciling", "recovering", "idle"} => bygone \cap Manual = {}

\* "A manual test that is not currently scheduled must never repaint displays after
\* Resume completes" (AUTOMATION-FRAMEWORK.md:180).
ResumeEndsTests ==
    [][resume = "idle" => \A t \in bygone : pc[t] # "acting" => pc'[t] # "acting"]_vars

----------------------------------------------------------------------------
(* What eventually happens.                                                  *)

\* Continuations of settled promises run, adapters answer or time out, and a run checks
\* every 500 ms whether it is still active.  Nothing is assumed of Finish: a sequence may
\* loop for ever.
Fairness ==
    /\ \A x \in Runs : WF_vars(Begin(x)) /\ WF_vars(Acted(x)) /\ WF_vars(Stop(x))
    /\ WF_vars(FreezeEnds) /\ WF_vars(ShuttingDown)

FairSpec == Spec /\ Fairness

\* A run that waits for its predecessors is released in the end, through any chain of
\* replacements: they were all cancelled, so they settle.
WaitersGetOn == \A x \in Runs : pc[x] = "waiting" ~> pc[x] # "waiting"

\* A shutdown drains: every run settles, also those that loop or wait for others.
ShutdownDrains == life = "requested" ~> owners = {} \/ life = "up"

=============================================================================
