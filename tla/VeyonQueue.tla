---------------------------- MODULE VeyonQueue ----------------------------
(* The Veyon command queue of the Hub (src/veyon-command-queue.js): classroom *)
(* commands are accepted as jobs over several computers, run one at a time    *)
(* per computer through a chain of awaited calls, retried with backoff, and   *)
(* superseded by newer commands.  Locks and broadcast modes that the Hub      *)
(* activates are journaled before they are written, so that a restarted Hub   *)
(* can release them.                                                          *)
(*                                                                            *)
(* Every await of run() is a value of pc; the code between two awaits is one  *)
(* action.  A loop the code runs without awaiting (tick, reconcile, the       *)
(* constructor) is a sequence of actions during which `at' is not "idle" and  *)
(* no other handler of the Hub can run.                                       *)
EXTENDS Integers, FiniteSets

CONSTANTS
    Hosts,        \* computers (a record's id and ip are one value here)
    Locks,        \* LOCKS: screenLock, inputLock
    Modes,        \* MODES: the demonstration (broadcast) features
    Plain,        \* features without state: messages, reboot, logon ...
    Ids,          \* job ids (UUIDs); an id is reused only when nothing refers to it
    NoId,
    MaxJobs,      \* 128 in the code
    MaxPending,   \* 1024 in the code
    MaxOwned,     \* 512 in the code
    Concurrency,  \* 6 in the code
    MaxAttempts   \* 8 in the code

ASSUME QueueAssumption ==
    /\ Hosts # {} /\ IsFiniteSet(Hosts) /\ NoId \notin Ids
    /\ Locks \cap Modes = {} /\ Locks \cap Plain = {} /\ Modes \cap Plain = {}
    /\ Locks \cup Modes # {}
    /\ MaxJobs \in Nat /\ MaxPending \in Nat /\ MaxOwned \in Nat
    /\ Concurrency \in Nat \ {0} /\ MaxAttempts \in Nat \ {0}

Features == Locks \cup Modes \cup Plain
Stateful == Locks \cup Modes
\* The code's limits (128, 1024, 512, with five features that have state): the releases
\* a restarted Hub owes fit in an empty queue.
ASSUME LimitsAssumption ==
    IsFiniteSet(Stateful) /\ Cardinality(Stateful) <= MaxJobs /\ MaxOwned <= MaxPending
Keys == Hosts \X Features

VARIABLES
    queue,       \* ids of the jobs in this.jobs
    before,      \* its insertion order: pairs <<i, j>> with i accepted before j
    job,         \* id -> the job's immutable fields and whether expiresAt has passed
    task,        \* <<id, host>> -> the job's task for that computer
    intents,     \* this.intents: the newest lock or unlock wanted for a key
    owned,       \* this.owned: what the Hub believes it activated
    activeModes, \* this.activeModes: broadcasts that are wanted
    journal,     \* the durable copy of owned
    at,          \* the uninterruptible loop in progress, "idle" between handlers
    left,        \* the keys that loop has still to visit
    paused,      \* ~canRun(): an export freeze or a shutdown was requested
    endpoint,    \* the computers: whether a feature is active there
    ours,        \* history: the activations that are the Hub's doing
    wish         \* history: the newest command of an operator for a key

hub == <<queue, before, job, task, intents, owned, activeModes, at, left>>
world == <<journal, paused, endpoint, ours, wish>>
vars == <<queue, before, job, task, intents, owned, activeModes, journal, at, left,
          paused, endpoint, ours, wish>>

Waiting == {"queued", "retrying"}
Pending == Waiting \cup {"running"}
\* "done" stands for succeeded, failed, skipped, cancelled and unknown.
TaskStates == Pending \cup {"none", "done"}
PCs == {"none", "eligible", "read", "execute", "confirm"}

Job == [feature : Features, active : BOOLEAN, recovery : BOOLEAN,
        observe : BOOLEAN, internal : BOOLEAN, expired : BOOLEAN]
Task == [state : TaskStates, attempts : 0..MaxAttempts, backoff : BOOLEAN,
         intent : Ids \cup {NoId}, stop : BOOLEAN, pc : PCs]
Intent == [id : Ids \cup {NoId}, active : BOOLEAN, recovery : BOOLEAN, confirmed : BOOLEAN]

BlankJob == [feature |-> CHOOSE f \in Features : TRUE, active |-> FALSE, recovery |-> FALSE,
             observe |-> FALSE, internal |-> FALSE, expired |-> FALSE]
NoTask == [state |-> "none", attempts |-> 0, backoff |-> FALSE, intent |-> NoId,
           stop |-> FALSE, pc |-> "none"]
Done == [NoTask EXCEPT !.state = "done"]
NoIntent == [id |-> NoId, active |-> FALSE, recovery |-> FALSE, confirmed |-> FALSE]

Init ==
    /\ queue = {} /\ before = {} /\ job = [i \in Ids |-> BlankJob]
    /\ task = [p \in Ids \X Hosts |-> NoTask]
    /\ intents = [k \in Keys |-> NoIntent]
    /\ owned = {} /\ activeModes = {} /\ journal = {} /\ at = "idle" /\ left = {}
    /\ paused = FALSE /\ endpoint = [k \in Keys |-> FALSE] /\ ours = {}
    /\ wish = [k \in Keys |-> FALSE]

----------------------------------------------------------------------------
(* Reading the queue.                                                        *)

KeyOf(i, h) == <<h, job[i].feature>>
Busy == {h \in Hosts : \E i \in queue : task[<<i, h>>].state = "running"}
Running == {p \in queue \X Hosts : task[p].state = "running"}
PendingTasks == {p \in queue \X Hosts : task[p].state \in Pending}
PendingFor(k) == \E i \in queue : job[i].feature = k[2] /\ task[<<i, k[1]>>].state \in Pending

\* `lock' in run(): the commands that are read back, verified and retried.
LockLike(j) == j.feature \in Locks
               \/ (j.feature \in Modes /\ (~j.active \/ j.recovery \/ j.observe))

CurrentUnchecked(i, h) == TRUE
\* current(): no newer command has taken this task's place.
Current(i, h) ==
    IF job[i].feature \in Modes /\ job[i].recovery
      THEN job[i].observe <=> KeyOf(i, h) \in activeModes
      ELSE job[i].feature \in Locks => intents[KeyOf(i, h)].id = task[<<i, h>>].intent

\* canRun(), consulted by tick(), reconcile() and recordModeOwnership().
CanRunAlways == TRUE
CanRun == ~paused

\* expiresAt of an intent: that of its job until it is confirmed, then never.
Live(k) == intents[k].confirmed \/ ~job[intents[k].id].expired

Referenced == queue \cup {intents[k].id : k \in Keys}
              \cup {task[p].intent : p \in queue \X Hosts}

----------------------------------------------------------------------------
(* prune() and enqueue().                                                    *)

\* Jobs that may be more than an hour old: the finished ones an operator can see.
Aged == {i \in queue : ~job[i].internal /\ \A h \in Hosts : task[<<i, h>>].state \notin Pending}

\* prune(): the finished jobs, given the tasks tk, that are internal, older than an
\* hour (the set old), or the first of a queue that is full.
Prunable(tk, old) ==
    LET finished == {i \in queue : \A h \in Hosts : tk[<<i, h>>].state \notin Pending}
    IN  {i \in finished :
           job[i].internal \/ i \in old
           \/ (Cardinality(queue) >= MaxJobs /\ \A j \in finished : <<j, i>> \notin before)}

DropOrder(gone) == {p \in before : p[1] \notin gone /\ p[2] \notin gone}
DropJobs(jb, gone) == [i \in Ids |-> IF i \in gone THEN BlankJob ELSE jb[i]]
DropTasks(tk, gone) == [p \in Ids \X Hosts |-> IF p[1] \in gone THEN NoTask ELSE tk[p]]

\* A broadcast stop marks the starts before it that have not finished.
NeverStopped(f, active, p) == FALSE
Stopped(f, active, p) ==
    f \in Modes /\ ~active /\ job[p[1]].active /\ ~job[p[1]].recovery /\ task[p].state \in Pending

\* What accepting a command does to the tasks before it: a lock command cancels the
\* waiting tasks of its key, a broadcast stop marks the starts.
Superseded(f, active, targets, internal) ==
    [p \in Ids \X Hosts |->
       IF ~(job[p[1]].feature = f /\ p[2] \in targets) THEN task[p]
       ELSE IF f \in Locks /\ ~internal /\ task[p].state \in Waiting
         THEN Done
       ELSE IF Stopped(f, active, p) THEN [task[p] EXCEPT !.stop = TRUE]
       ELSE task[p]]

NewIntents(id, f, active, targets, recovery, internal) ==
    [k \in Keys |->
       IF f \in Locks /\ ~internal /\ k[2] = f /\ k[1] \in targets
         THEN [id |-> id, active |-> active, recovery |-> recovery, confirmed |-> FALSE]
         ELSE intents[k]]

HasRoom(gone, targets) ==
    /\ Cardinality(queue \ gone) < MaxJobs
    /\ Cardinality(PendingTasks) + Cardinality(targets) <= MaxPending

\* enqueue(): a request id already in the queue returns the job it has (no step).
Accept(f, active, targets, recovery, internal, observe, old) ==
    LET gone == Prunable(task, old)
        id == CHOOSE i \in Ids : i \notin Referenced
        wanted == NewIntents(id, f, active, targets, recovery, internal)
        prior == DropTasks(Superseded(f, active, targets, internal), gone)
    IN  /\ HasRoom(gone, targets)
        /\ \E i \in Ids : i \notin Referenced
        /\ queue' = (queue \ gone) \cup {id}
        /\ before' = DropOrder(gone) \cup ((queue \ gone) \X {id})
        /\ job' = [DropJobs(job, gone) EXCEPT ![id] =
                     [feature |-> f, active |-> active, recovery |-> recovery,
                      observe |-> observe, internal |-> internal, expired |-> FALSE]]
        /\ intents' = wanted
        /\ task' = [p \in Ids \X Hosts |->
                      IF p[1] = id /\ p[2] \in targets
                        THEN [NoTask EXCEPT !.state = "queued", !.intent = wanted[<<p[2], f>>].id]
                        ELSE prior[p]]
        /\ activeModes' = IF f \in Modes /\ ~active THEN activeModes \ (targets \X {f})
                                                    ELSE activeModes

\* enqueue() throws 429 after it has pruned.
Refuse(targets, old) ==
    LET gone == Prunable(task, old)
    IN  /\ ~HasRoom(gone, targets)
        /\ queue' = queue \ gone /\ before' = DropOrder(gone)
        /\ job' = DropJobs(job, gone) /\ task' = DropTasks(task, gone)
        /\ UNCHANGED <<intents, activeModes>>

Enqueue(f, active, targets, recovery, internal, observe) ==
    \E old \in SUBSET Aged :
        \/ Accept(f, active, targets, recovery, internal, observe, old)
        \/ Refuse(targets, old)

----------------------------------------------------------------------------
(* Handlers that call enqueue().                                             *)

\* An operator's command (POST /veyon/feature, /veyon/demo ...).
Command(f, active, targets) ==
    /\ at = "idle" /\ targets # {}
    /\ Enqueue(f, active, targets, FALSE, FALSE, FALSE)
    /\ wish' = IF queue' \subseteq queue THEN wish      \* refused
               ELSE [k \in Keys |-> IF k \in targets \X {f} THEN active ELSE wish[k]]
    /\ at' = "tick"
    /\ UNCHANGED <<owned, journal, left, paused, endpoint, ours>>

RoomForOne(gone, targets) == HasRoom(gone, targets)
RoomForAllModes(gone, targets) ==
    /\ Cardinality(queue \ gone) + Cardinality(Modes) <= MaxJobs
    /\ Cardinality(PendingTasks) + Cardinality(targets) * Cardinality(Modes) <= MaxPending

\* enqueueModeCleanup(): room for a stop of every mode is checked before the first.
ModeCleanup(targets) ==
    /\ at = "idle" /\ targets # {} /\ Modes # {}
    /\ \E old \in SUBSET Aged :
         LET gone == Prunable(task, old)
         IN  /\ queue' = queue \ gone /\ before' = DropOrder(gone)
             /\ job' = DropJobs(job, gone) /\ task' = DropTasks(task, gone)
             /\ IF RoomForAllModes(gone, targets)
                  THEN at' = "cleanup" /\ left' = targets \X Modes
                  ELSE UNCHANGED <<at, left>>
    /\ UNCHANGED <<intents, activeModes, owned, world>>

\* One iteration of the loop over MODES (enqueueModeCleanup) or STATEFUL (constructor).
EnqueueStops(f) ==
    LET targets == {h \in Hosts : <<h, f>> \in left}
    IN  /\ at \in {"boot", "cleanup"} /\ targets # {}
        /\ Enqueue(f, FALSE, targets, at = "boot", FALSE, FALSE)
        /\ left' = left \ (targets \X {f})
        /\ at' = IF left' = {} THEN "tick" ELSE at
        /\ wish' = [k \in Keys |-> IF k \in targets \X {f} THEN FALSE ELSE wish[k]]
        /\ UNCHANGED <<owned, journal, paused, endpoint, ours>>

\* cancel(): tasks that have not started end; an unconfirmed intent of theirs goes.
Cancel(i) ==
    /\ at = "idle"
    /\ task' = [p \in Ids \X Hosts |->
                  IF p[1] = i /\ task[p].state \in Waiting THEN Done ELSE task[p]]
    /\ intents' = [k \in Keys |->
                     IF /\ k[2] = job[i].feature /\ task[<<i, k[1]>>].state \in Waiting
                        /\ intents[k].id = task[<<i, k[1]>>].intent /\ ~intents[k].confirmed
                       THEN NoIntent ELSE intents[k]]
    /\ UNCHANGED <<queue, before, job, owned, activeModes, at, left, world>>

----------------------------------------------------------------------------
(* reconcile() and tick().                                                   *)

\* A confirmed lock is read again, and written again if the computer lost it.
Reassert(k) == intents[k].id # NoId /\ intents[k].confirmed /\ intents[k].active
\* Owned state that nothing wants any more.
Unwanted(k) == k \in owned /\ ~(intents[k].id # NoId /\ intents[k].active /\ Live(k))
NeedsReassertion(k) == ~PendingFor(k) /\ Reassert(k)
NeedsJob(k) == ~PendingFor(k) /\ (Reassert(k) \/ Unwanted(k))

ReconcileHost(h) ==
    /\ at = "idle" /\ CanRun
    /\ left' = {k \in {h} \X Stateful : NeedsJob(k)} /\ left' # {}
    /\ at' = "reconcileHost"
    /\ UNCHANGED <<queue, before, job, task, intents, owned, activeModes, world>>

\* The loops' body: re-assert, observe a wanted broadcast, or clear what is ours.
ReconcileKey(k) ==
    /\ at \in {"reconcile", "reconcileHost"} /\ k \in left
    /\ IF Reassert(k) THEN Enqueue(k[2], TRUE, {k[1]}, intents[k].recovery, TRUE, FALSE)
       ELSE IF k \in activeModes THEN Enqueue(k[2], TRUE, {k[1]}, TRUE, TRUE, TRUE)
       ELSE Enqueue(k[2], FALSE, {k[1]}, TRUE, FALSE, FALSE)
    /\ left' = left \ {k}
    /\ at' = IF left' # {} THEN at ELSE IF at = "reconcile" THEN "start" ELSE "tick"
    /\ UNCHANGED <<owned, journal, paused, endpoint, ours, wish>>

\* tick(), up to the loop that starts tasks; due: 15 s have passed since reconcile().
Tick(due) ==
    /\ at \in {"idle", "tick"}
    /\ UNCHANGED <<queue, before, job, owned, activeModes, world>>
    /\ LET expired == {p \in queue \X Hosts : task[p].state \in Waiting /\ job[p[1]].expired}
       IN  IF ~CanRun THEN at' = "idle" /\ UNCHANGED <<task, intents, left>>
           ELSE /\ task' = [p \in Ids \X Hosts |-> IF p \in expired THEN Done ELSE task[p]]
                /\ intents' = [k \in Keys |->
                                 IF /\ ~intents[k].confirmed
                                    /\ \E p \in expired : KeyOf(p[1], p[2]) = k
                                                          /\ intents[k].id = task[p].intent
                                   THEN NoIntent ELSE intents[k]]
                /\ left' = IF due THEN {k \in Hosts \X Stateful : NeedsJob(k)'} ELSE {}
                /\ at' = IF left' = {} THEN "start" ELSE "reconcile"

RunnableOutOfTurn(i, h) ==
    task[<<i, h>>].state \in Waiting /\ ~task[<<i, h>>].backoff /\ h \notin Busy
\* runnable(): the oldest waiting task of an idle computer, unless it is in backoff.
Runnable(i, h) ==
    /\ task[<<i, h>>].state \in Waiting /\ ~task[<<i, h>>].backoff /\ h \notin Busy
    /\ \A j \in queue : <<j, i>> \in before => task[<<j, h>>].state \notin Waiting

Start(i, h) ==
    /\ at = "start" /\ Cardinality(Running) < Concurrency /\ Runnable(i, h)
    /\ \A j \in queue, g \in Hosts : <<j, i>> \in before => ~Runnable(j, g)
    /\ task' = [task EXCEPT ![<<i, h>>].state = "running", ![<<i, h>>].pc = "eligible",
                            ![<<i, h>>].attempts = @ + 1]
    /\ UNCHANGED <<queue, before, job, intents, owned, activeModes, at, left, world>>

EndTick ==
    /\ at = "start"
    /\ Cardinality(Running) >= Concurrency
       \/ \A i \in queue, h \in Hosts : ~Runnable(i, h)
    /\ at' = "idle"
    /\ UNCHANGED <<queue, before, job, task, intents, owned, activeModes, left, world>>

----------------------------------------------------------------------------
(* run(): one action for each answer a running task waits for.  authorize() and  *)
(* lookup() read stores that change between any two awaits, so what they answer  *)
(* is left open; persist() may fail.                                             *)

\* A task at an await, the Hub being idle.
Awaits(i, h, pc) == at = "idle" /\ task[<<i, h>>].state = "running" /\ task[<<i, h>>].pc = pc

Step(i, h, pc) == task' = [task EXCEPT ![<<i, h>>].pc = pc] /\ UNCHANGED <<queue, before, job, at>>

\* The task leaves run() as t: the computer is free, prune() and tick() follow.
Leave(i, h, t) ==
    \E old \in SUBSET Aged :
        LET over == [task EXCEPT ![<<i, h>>] = t]
            gone == Prunable(over, old)
        IN  /\ queue' = queue \ gone /\ before' = DropOrder(gone)
            /\ job' = DropJobs(job, gone) /\ task' = DropTasks(over, gone)
            /\ at' = "tick"

\* A task that ends without success drops its own intent, unless that was confirmed.
End(i, h, revoked) ==
    LET k == KeyOf(i, h)
    IN  /\ Leave(i, h, Done)
        /\ intents' = IF /\ intents[k].id = task[<<i, h>>].intent
                         /\ ~intents[k].confirmed \/ revoked
                        THEN [intents EXCEPT ![k] = NoIntent] ELSE intents

RetriesForever(i, h, retryable) ==
    LockLike(job[i]) /\ Current(i, h) /\ retryable /\ ~job[i].expired
MayRetry(i, h, retryable) ==
    /\ LockLike(job[i]) /\ Current(i, h) /\ retryable
    /\ task[<<i, h>>].attempts < MaxAttempts /\ ~job[i].expired

\* The catch of run(): superseded, retried with backoff, or given up.
Fail(i, h, retryable) ==
    IF MayRetry(i, h, retryable)
      THEN /\ Leave(i, h, [task[<<i, h>>] EXCEPT !.state = "retrying", !.pc = "none", !.backoff = TRUE])
           /\ UNCHANGED intents
      ELSE End(i, h, FALSE)

\* Checks repeated after every await (permission revoked, computer removed, expired,
\* superseded), and failures that are not retried: the task ends.
Barred(i, h) ==
    \/ ~job[i].recovery /\ End(i, h, TRUE)
    \/ End(i, h, FALSE)

JournaledLater(k) ==
    /\ k \in owned \/ Cardinality(owned) < MaxOwned
    /\ owned' = owned \cup {k} /\ UNCHANGED journal
\* The journal is written before the endpoint; a failed write is rolled back.
Journaled(k) ==
    /\ k \in owned \/ Cardinality(owned) < MaxOwned
    /\ owned' = owned \cup {k} /\ journal' = owned'

\* eligible() answers (with the checks before and after it).  A command that is not
\* read back goes on to record a broadcast it starts and to write.
Eligible(i, h) ==
    LET j == job[i]
        k == KeyOf(i, h)
    IN  /\ Awaits(i, h, "eligible")
        /\ IF LockLike(j)
             THEN /\ Current(i, h) /\ Step(i, h, "read")
                  /\ UNCHANGED <<intents, owned, journal, activeModes>>
             ELSE /\ ~j.expired /\ Step(i, h, "execute") /\ UNCHANGED intents
                  /\ IF j.feature \in Modes
                       THEN /\ CanRun /\ Journaled(k)
                            /\ activeModes' = IF task[<<i, h>>].stop THEN activeModes \ {k}
                                                                 ELSE activeModes \cup {k}
                       ELSE UNCHANGED <<owned, journal, activeModes>>
        /\ UNCHANGED <<left, paused, endpoint, ours, wish>>

\* eligible() refuses or fails; the task is barred, superseded or expired; or the
\* ownership of a broadcast cannot be recorded.
NotEligible(i, h) ==
    /\ Awaits(i, h, "eligible")
    /\ Barred(i, h) \/ Fail(i, h, TRUE)
    /\ UNCHANGED <<owned, journal, activeModes, left, paused, endpoint, ours, wish>>

\* readState() answers before the write.
Read(i, h) ==
    LET j == job[i]
        k == KeyOf(i, h)
        actual == endpoint[k]
    IN  /\ Awaits(i, h, "read") /\ LockLike(j) /\ Current(i, h) /\ ~j.observe /\ ~j.expired
        /\ Step(i, h, IF actual = j.active THEN "confirm" ELSE "execute")
        /\ IF j.active /\ ~actual THEN Journaled(k) ELSE UNCHANGED <<owned, journal>>
        /\ UNCHANGED <<intents, activeModes, left, paused, endpoint, ours, wish>>

\* The same read for a broadcast that is only watched: releaseModeOwnership() when it
\* has ended on the computer (the record is dropped even if the journal write fails).
Observe(i, h) ==
    LET k == KeyOf(i, h)
    IN  /\ Awaits(i, h, "read") /\ Current(i, h) /\ job[i].observe
        /\ IF endpoint[k]
             THEN /\ Leave(i, h, Done) /\ UNCHANGED <<intents, activeModes, owned, journal>>
             ELSE /\ activeModes' = activeModes \ {k} /\ owned' = owned \ {k}
                  /\ \/ journal' = owned' /\ Leave(i, h, Done) /\ UNCHANGED intents
                     \/ UNCHANGED journal /\ End(i, h, FALSE)
        /\ UNCHANGED <<left, paused, endpoint, ours, wish>>

\* The read fails or is not a boolean, the task is barred, superseded or expired, or the
\* ownership cannot be recorded.
NotRead(i, h) ==
    /\ Awaits(i, h, "read")
    /\ Barred(i, h) \/ Fail(i, h, TRUE)
    /\ UNCHANGED <<owned, journal, activeModes, left, paused, endpoint, ours, wish>>

\* The write reaches the computer.
Apply(k, active) ==
    /\ endpoint' = [endpoint EXCEPT ![k] = active]
    /\ ours' = IF active THEN ours \cup {k} ELSE ours \ {k}

\* execute() answers: the write was accepted, or it failed and may still have been made.
Execute(i, h) ==
    LET j == job[i]
    IN  /\ Awaits(i, h, "execute")
        /\ \/ j.feature \in Stateful /\ Apply(KeyOf(i, h), j.active)
           \/ UNCHANGED <<endpoint, ours>>
        /\ \/ j.feature \in Stateful /\ Step(i, h, "confirm") /\ UNCHANGED intents
           \/ j.feature \in Plain /\ Leave(i, h, Done) /\ UNCHANGED intents
           \/ \E retryable \in BOOLEAN : Fail(i, h, retryable)
        /\ UNCHANGED <<owned, journal, activeModes, left, paused, wish>>

AdoptsAnyLock(i, h) ==
    LET k == KeyOf(i, h)
    IN  IF intents[k].id # task[<<i, h>>].intent \/ intents[k].id = NoId THEN intents
        ELSE IF ~job[i].active THEN [intents EXCEPT ![k] = NoIntent]
        ELSE [intents EXCEPT ![k].confirmed = TRUE]
\* A confirmed lock stays wanted, unless it was there before and is not the Hub's.
Settled(i, h) ==
    LET k == KeyOf(i, h)
    IN  IF intents[k].id # task[<<i, h>>].intent \/ intents[k].id = NoId THEN intents
        ELSE IF ~job[i].active \/ k \notin owned THEN [intents EXCEPT ![k] = NoIntent]
        ELSE [intents EXCEPT ![k].confirmed = TRUE]

\* readState() after the write confirms it; a confirmed unlock gives up the ownership.
Confirm(i, h) ==
    LET j == job[i]
        k == KeyOf(i, h)
    IN  /\ Awaits(i, h, "confirm") /\ endpoint[k] = j.active
        /\ IF j.active
             THEN /\ Leave(i, h, Done) /\ intents' = IF LockLike(j) THEN Settled(i, h) ELSE intents
                  /\ UNCHANGED <<owned, journal, activeModes>>
             ELSE /\ activeModes' = activeModes \ {k} /\ owned' = owned \ {k}
                  /\ \/ journal' = owned' /\ Leave(i, h, Done) /\ intents' = Settled(i, h)
                     \/ UNCHANGED journal /\ Fail(i, h, FALSE)
        /\ UNCHANGED <<left, paused, endpoint, ours, wish>>

\* The read fails, or the computer is not in the state that was written.
NotConfirmed(i, h) ==
    /\ Awaits(i, h, "confirm")
    /\ \E retryable \in BOOLEAN : Fail(i, h, retryable)
    /\ UNCHANGED <<owned, journal, activeModes, left, paused, endpoint, ours, wish>>

----------------------------------------------------------------------------
(* Time, restart, and the surroundings of the queue.                         *)

Expire(i) ==
    /\ at = "idle" /\ ~job[i].expired /\ \E h \in Hosts : task[<<i, h>>].state \in Pending
    /\ job' = [job EXCEPT ![i].expired = TRUE]
    /\ UNCHANGED <<queue, before, task, intents, owned, activeModes, at, left, world>>

BackoffEnds(i, h) ==
    /\ task[<<i, h>>].state = "retrying" /\ task[<<i, h>>].backoff
    /\ task' = [task EXCEPT ![<<i, h>>].backoff = FALSE]
    /\ UNCHANGED <<queue, before, job, intents, owned, activeModes, at, left, world>>

\* The Hub stops at any point, writes in flight being made or lost, and starts again:
\* the constructor loads the journal and enqueues the release of everything in it.
Restart ==
    LET flying == {p \in queue \X Hosts : task[p].pc = "execute" /\ job[p[1]].feature \in Stateful}
    IN  /\ \E made \in SUBSET flying :
             LET written == {KeyOf(p[1], p[2]) : p \in made}
                 on == {KeyOf(p[1], p[2]) : p \in {q \in made : job[q[1]].active}}
             IN  /\ endpoint' = [k \in Keys |-> IF k \in on THEN TRUE ELSE IF k \in written THEN FALSE ELSE endpoint[k]]
                 /\ ours' = (ours \ written) \cup on
        /\ queue' = {} /\ before' = {} /\ job' = [i \in Ids |-> BlankJob]
        /\ task' = [p \in Ids \X Hosts |-> NoTask] /\ intents' = [k \in Keys |-> NoIntent]
        /\ owned' = journal /\ activeModes' = {} /\ left' = journal
        /\ at' = IF journal = {} THEN "idle" ELSE "boot"
        /\ paused' = FALSE /\ wish' = [k \in Keys |-> FALSE]
        /\ UNCHANGED journal

\* canRun(): an export freeze begins or ends.
Freeze ==
    /\ at = "idle" /\ paused' = ~paused
    /\ UNCHANGED <<hub, journal, endpoint, ours, wish>>

\* Someone else, or the computer itself, changes the state of a feature.
Outside(k) ==
    /\ endpoint' = [endpoint EXCEPT ![k] = ~@] /\ ours' = ours \ {k}
    /\ UNCHANGED <<hub, journal, paused, wish>>

Answer(i, h) ==
    \/ Eligible(i, h) \/ NotEligible(i, h) \/ Read(i, h) \/ Observe(i, h) \/ NotRead(i, h)
    \/ Execute(i, h) \/ Confirm(i, h) \/ NotConfirmed(i, h)

Next ==
    \/ \E f \in Features, active \in BOOLEAN, targets \in SUBSET Hosts :
         (f \in Plain => active) /\ Command(f, active, targets)
    \/ \E targets \in SUBSET Hosts : ModeCleanup(targets)
    \/ \E f \in Stateful : EnqueueStops(f)
    \/ \E i \in queue : Cancel(i) \/ Expire(i)
    \/ \E h \in Hosts : ReconcileHost(h)
    \/ \E k \in Keys : ReconcileKey(k)
    \/ \E due \in BOOLEAN : Tick(due)
    \/ \E i \in queue, h \in Hosts : Start(i, h) \/ Answer(i, h) \/ BackoffEnds(i, h)
    \/ EndTick \/ Restart \/ Freeze
    \/ \E k \in Hosts \X Stateful : Outside(k)

Spec == Init /\ [][Next]_vars

----------------------------------------------------------------------------
(* What the queue promises.                                                  *)

QueueTypeOK ==
    /\ queue \subseteq Ids /\ before \subseteq queue \X queue
    /\ job \in [Ids -> Job] /\ task \in [Ids \X Hosts -> Task]

\* Types; in particular no task is started more than MaxAttempts times, over all
\* the ways a retry is scheduled (run()'s catch).
TypeOK ==
    /\ QueueTypeOK
    /\ intents \in [Keys -> Intent]
    /\ owned \subseteq Hosts \X Stateful /\ journal \subseteq Hosts \X Stateful
    /\ activeModes \subseteq Hosts \X Modes /\ left \subseteq Hosts \X Stateful
    /\ at \in {"idle", "tick", "start", "reconcile", "reconcileHost", "boot", "cleanup"}
    /\ paused \in BOOLEAN /\ endpoint \in [Keys -> BOOLEAN]
    /\ ours \subseteq Keys /\ wish \in [Keys -> BOOLEAN]

\* Whatever the Hub activated on a computer is in the durable journal as long as it is
\* active, through lost answers, failed journal writes and crashes at any await.
JournalCoversOurs == ours \subseteq journal

\* Commands reach a computer in the order they were accepted: while one runs, no older
\* one is waiting, not even in backoff (runnable()).
NoOvertaking ==
    \A i, j \in queue, h \in Hosts :
        <<i, j>> \in before /\ task[<<j, h>>].state = "running" => task[<<i, h>>].state \notin Pending

\* reconcile() re-asserts only locks that are the Hub's own: a lock found already in
\* place is never adopted, and a released one is never put back.
ConfirmedIsOwned ==
    \A k \in Keys : intents[k].confirmed => intents[k].active /\ k \in owned

\* A broadcast counts as wanted only if the newest command for it was a start, also
\* when the stop was accepted while the start was waiting for an answer.
WantedModesWereAsked == \A k \in activeModes : wish[k]

\* The stops of a cleanup, and the releases a restarted Hub owes, always fit in the
\* queue: none of the loop's enqueue() calls is refused half way.
StopsAlwaysFit ==
    at \in {"boot", "cleanup"} =>
        /\ Cardinality(queue) + Cardinality({k[2] : k \in left}) <= MaxJobs
        /\ Cardinality(PendingTasks) + Cardinality(left) <= MaxPending

\* A lock is written only if the newest command for that computer is a lock: not after
\* an unlock was accepted during one of the awaits, and never after a restart.
NoStaleLock ==
    [][\A i \in Ids, h \in Hosts :
          /\ task[<<i, h>>].pc # "execute" /\ task'[<<i, h>>].pc = "execute"
          /\ job[i].active /\ job[i].feature \in Locks
          => wish[KeyOf(i, h)]]_vars

\* A frozen queue whose tasks have finished starts nothing and leaves the journal as the
\* export will read it, until it is thawed.
DrainedStaysDrained ==
    [][paused /\ paused' /\ Running = {} => Running' = {} /\ journal' = journal]_vars


----------------------------------------------------------------------------
(* Why JournalCoversOurs holds: the inductive invariant of VeyonQueueProofs.   *)

\* The bookkeeping of tasks: what is not in the queue has none, a waiting one has an
\* attempt left, one at an await is running, and a computer runs one at a time.
QueueInv ==
    /\ QueueTypeOK
    /\ \A i \in Ids, h \in Hosts :
         /\ i \notin queue => task[<<i, h>>].state = "none"
         /\ task[<<i, h>>].state \in Waiting => task[<<i, h>>].attempts < MaxAttempts
         /\ task[<<i, h>>].pc # "none" => task[<<i, h>>].state = "running"
    /\ \A i, j \in Ids, h \in Hosts :
         task[<<i, h>>].state = "running" /\ task[<<j, h>>].state = "running" => i = j

\* A write in flight that activates a feature is of an owned key.
WritesAreOwned ==
    \A i \in Ids, h \in Hosts :
        task[<<i, h>>].pc = "execute" /\ job[i].active /\ job[i].feature \in Stateful
        => KeyOf(i, h) \in owned

\* What the Hub activated is owned, active, and in the journal.
OursAreOwned ==
    /\ owned \subseteq journal /\ ours \subseteq owned
    /\ \A k \in ours : endpoint[k]

JournalInv == TypeOK /\ QueueInv /\ WritesAreOwned /\ OursAreOwned

----------------------------------------------------------------------------
(* Why the other promises hold: what a task, the intent of its key and the wish of the *)
(* operator have to do with each other, and what bounds the queue and the journal.      *)

\* A lock task carries an intent, its own unless it re-asserts a confirmed lock.  Only a
\* running one can be outlived by a newer intent, and no unlock that is still to be made
\* has a confirmed intent against it.
LockTask(i, h) ==
    LET t == task[<<i, h>>]
        wanted == intents[KeyOf(i, h)]
    IN  /\ t.intent # NoId
        /\ IF job[i].internal THEN job[i].active ELSE t.intent = i
        /\ wanted.id = t.intent => wanted.active = job[i].active
        /\ ~job[i].internal /\ t.state \in Waiting => wanted.id \in {i, NoId}
        /\ ~job[i].active => ~wanted.confirmed

\* A start of a broadcast that no stop has marked is what the operator wants.
StartTask(i, h) == job[i].active /\ ~job[i].recovery /\ ~task[<<i, h>>].stop => wish[KeyOf(i, h)]

\* Intents are of locks, and an intent to lock is the operator's.
IntentsInv ==
    /\ \A k \in Keys : (k[2] \notin Locks => intents[k] = NoIntent) /\ (intents[k].active => wish[k])
    /\ \A i \in Ids, h \in Hosts :
         task[<<i, h>>].state \in Pending =>
             /\ job[i].feature \in Locks => LockTask(i, h) /\ ~job[i].observe
             /\ job[i].feature \in Modes => StartTask(i, h)

\* What is released after a restart is never more than the journal holds.
RoomInv ==
    /\ IsFiniteSet(queue) /\ StopsAlwaysFit
    /\ Cardinality(owned) <= MaxOwned /\ Cardinality(journal) <= MaxOwned

\* The loops that enqueue and start tasks begin only in a queue that is not frozen.
LoopsRun == at \in {"start", "reconcile"} => ~paused

Promises ==
    NoOvertaking /\ IntentsInv /\ ConfirmedIsOwned /\ WantedModesWereAsked /\ RoomInv /\ LoopsRun
PromisesInv == JournalInv /\ Promises

----------------------------------------------------------------------------
(* What eventually happens.                                                  *)

Loops == \/ \E f \in Stateful : EnqueueStops(f)
         \/ \E k \in Keys : ReconcileKey(k)
         \/ at = "tick" /\ Tick(FALSE)
         \/ \E i \in queue, h \in Hosts : Start(i, h)
         \/ EndTick
Good(i, h) == Execute(i, h) /\ endpoint'[KeyOf(i, h)] = job[i].active /\ task'[<<i, h>>].pc = "confirm"

\* Loops and timers of the Hub run; an export freeze ends (its lease expires); and a
\* computer that is asked again and again sometimes answers, at every await.
Fairness ==
    /\ WF_vars(Loops)
    /\ SF_vars(CanRun /\ Tick(TRUE))
    /\ SF_vars(paused /\ Freeze)
    /\ WF_vars(\E i \in queue, h \in Hosts : BackoffEnds(i, h))
    /\ SF_vars(\E i \in queue, h \in Hosts : Answer(i, h))
    /\ SF_vars(\E i \in queue, h \in Hosts : ~job[i].expired /\ Eligible(i, h))
    /\ SF_vars(\E i \in queue, h \in Hosts : Read(i, h))
    /\ SF_vars(\E i \in queue, h \in Hosts : Good(i, h))
    /\ SF_vars(\E i \in queue, h \in Hosts : Confirm(i, h))

FairSpec == Spec /\ Fairness

\* A lock or broadcast of the Hub that the newest command does not want is released in
\* the end: after an unlock that failed, expired, was cancelled or lost its permission,
\* and after a restart (reconcile(), the constructor), unless the Hub restarts for ever.
Released ==
    \/ []<><<Restart>>_vars
    \/ \A k \in Hosts \X Stateful : k \in ours /\ ~wish[k] ~> k \notin ours \/ wish[k]

============================================================================
