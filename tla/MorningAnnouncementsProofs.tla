--------------------- MODULE MorningAnnouncementsProofs ---------------------
(* What holds of the Morning Announcements for any set of displays, any        *)
(* schedule and any number of requests, failures and configurations: the music *)
(* holds, the pending releases, what the displays are left showing, and the    *)
(* watcher.  The properties are parts of one inductive invariant, IInv, which   *)
(* says who owns a display at each point of a lifecycle task.                  *)
EXTENDS MorningAnnouncements, TLAPS

Tasks == [kind : {"tick", "start", "stop", "resume", "retry"}, gen : Nat,
          targets : SUBSET Displays]

\* The shape of the state, as far as the proof looks at it.
Shape ==
  /\ tasks \in Seq(Tasks) /\ generation \in Nat
  /\ \A i \in DOMAIN tasks : tasks[i].gen <= generation
  /\ {pending, retry, watcher} \subseteq BOOLEAN
  /\ targets \subseteq Displays /\ DOMAIN release \subseteq Displays
  /\ release = [d \in DOMAIN release |-> [content |-> release[d].content,
                  clear |-> release[d].clear, cleared |-> release[d].cleared]]
  /\ screen = [d \in Displays |-> [id |-> screen[d].id, shows |-> screen[d].shows]]
  /\ job = [pc |-> job.pc, targets |-> job.targets, clearId |-> job.clearId,
            contentId |-> job.contentId, prevMode |-> job.prevMode,
            prevTargets |-> job.prevTargets, groups |-> job.groups,
            plan |-> job.plan, failed |-> job.failed, incomplete |-> job.incomplete]
  /\ job.targets \subseteq Displays /\ job.prevTargets \subseteq Displays
  /\ job.pc \in {"idle", "probe", "takeover", "show", "clear", "resync"}
  /\ job.pc # "idle" => tasks # <<>>
  /\ due \in Nat /\ running \subseteq Nat

\* Displays belong to an announcement only while one is active.
OwnershipInv == Active \/ targets = {}

TakingOver == job.pc \in {"takeover", "show"}
Releasing == job.pc \in {"clear", "resync"}

\* What a running task may rely on.
TaskInv ==
  /\ TakingOver => Active /\ targets = job.targets \cup StillPlaying
  /\ job.pc = "probe" => Kind = "tick" /\ (Head(tasks).gen = generation => enabled)
  /\ Releasing => Kind \in {"stop", "tick", "retry", "resume"}
  /\ Releasing /\ Kind \in {"stop", "tick"} => Active /\ targets \subseteq DOMAIN release
  /\ Releasing /\ Kind \in {"retry", "resume"} => ~Active
  /\ Releasing /\ Kind = "resume" => job.pc = "resync"

\* The entry of d is not settled and covers what d shows.
Covers(d) ==
  /\ d \in DOMAIN release /\ ~release[d].cleared
  /\ screen[d].id \in {release[d].content, release[d].clear}

\* The displays whose announcement needs no entry yet.
Playing == IF TakingOver THEN StillPlaying ELSE IF Releasing THEN {} ELSE targets

\* Whoever shows the announcement is playing it or has an entry.
ShowInv == \A d \in Displays : screen[d].shows = Announcement => d \in Playing \/ Covers(d)

\* What a release that met no error has left to clear.
ClearInv ==
  /\ job.pc = "clear" /\ ~job.failed =>
       \A d \in DOMAIN release : release[d].cleared \/ release[d].clear \in job.groups
  /\ job.pc = "resync" /\ Kind \in {"stop", "tick"} /\ ~job.failed =>
       \A d \in DOMAIN release : release[d].cleared
  /\ job.pc = "resync" /\ Kind = "retry" => \A d \in DOMAIN release : release[d].cleared

IInv ==
  /\ Shape /\ OwnershipInv /\ TaskInv /\ ShowInv /\ ClearInv
  /\ MusicIsHeld /\ HoldsHaveOwners /\ PendingIsRetried /\ WatcherLives

-----------------------------------------------------------------------------
(* The queue: what appending a task and ending the running one preserve.     *)

Retries(q) == \E i \in DOMAIN q : q[i].kind = "retry"
Ticks(q) == \E i \in DOMAIN q : q[i].kind = "tick" /\ q[i].gen = generation

\* Submitting a task leaves the running one at the head.
LEMMA SubmitKeeps ==
  ASSUME Shape, NEW t \in Tasks, t.gen <= generation, Submit(t)
  PROVE  /\ tasks' \in Seq(Tasks) /\ tasks' # <<>>
         /\ \A i \in DOMAIN tasks' : tasks'[i].gen <= generation
         /\ tasks # <<>> => Head(tasks') = Head(tasks)
         /\ Retries(tasks) => Retries(tasks')
         /\ Ticks(tasks) => Ticks(tasks')
         /\ t.kind = "retry" => Retries(tasks')
         /\ t.kind = "tick" /\ t.gen = generation => Ticks(tasks')
<1>1. DOMAIN tasks = 1..Len(tasks) /\ Len(tasks) \in Nat /\ DOMAIN tasks' = 1..(Len(tasks) + 1)
  BY DEF Shape, Submit
<1>2. tasks'[Len(tasks) + 1] = t /\ \A i \in DOMAIN tasks : tasks'[i] = tasks[i]
  BY <1>1 DEF Shape, Submit
<1>3. tasks' \in Seq(Tasks) /\ tasks' # <<>> /\ (tasks # <<>> => Head(tasks') = Head(tasks))
  <2>1. tasks' \in Seq(Tasks) /\ tasks \in Seq(Tasks)
    BY DEF Shape, Submit
  <2>2. tasks' # <<>>
    BY <1>1, <2>1
  <2>3. tasks # <<>> => 1 \in DOMAIN tasks
    BY <1>1, <2>1
  <2>4. Head(tasks') = tasks'[1] /\ Head(tasks) = tasks[1]
    BY <2>1, <2>2
  <2> QED  BY <1>2, <2>1, <2>2, <2>3, <2>4
<1>4. \A i \in DOMAIN tasks' : i \in DOMAIN tasks \/ i = Len(tasks) + 1
  BY <1>1
<1>5. \A i \in DOMAIN tasks' : tasks'[i].gen <= generation
  BY <1>2, <1>4 DEF Shape
<1>6. DOMAIN tasks \subseteq DOMAIN tasks' /\ Len(tasks) + 1 \in DOMAIN tasks'
  BY <1>1
<1>7. (Retries(tasks) => Retries(tasks')) /\ (Ticks(tasks) => Ticks(tasks'))
  BY <1>2, <1>6 DEF Retries, Ticks
<1>8. t.kind = "retry" => Retries(tasks')
  BY <1>2, <1>6 DEF Retries
<1>9. t.kind = "tick" /\ t.gen = generation => Ticks(tasks')
  BY <1>2, <1>6 DEF Ticks
<1> QED  BY <1>3, <1>5, <1>7, <1>8, <1>9

\* Ending the running task drops only it from the queue.
LEMMA EndKeeps ==
  ASSUME Shape, tasks # <<>>, tasks' = Tail(tasks)
  PROVE  /\ tasks' \in Seq(Tasks)
         /\ \A i \in DOMAIN tasks' : tasks'[i].gen <= generation
         /\ Retries(tasks) /\ Kind # "retry" => Retries(tasks')
         /\ Ticks(tasks) /\ ~(Kind = "tick" /\ Head(tasks).gen = generation)
              => Ticks(tasks')
<1>1. DOMAIN tasks = 1..Len(tasks) /\ Len(tasks) \in Nat \ {0}
  BY DEF Shape
<1>2. tasks' \in Seq(Tasks) /\ DOMAIN tasks' = 1..(Len(tasks) - 1)
  BY <1>1 DEF Shape
<1>3. \A i \in DOMAIN tasks' : i + 1 \in DOMAIN tasks /\ tasks'[i] = tasks[i + 1]
  BY <1>1, <1>2 DEF Shape
<1>4. Head(tasks) = tasks[1]
  BY DEF Shape
<1>5. \A i \in DOMAIN tasks : i = 1 \/ (i - 1 \in DOMAIN tasks' /\ tasks'[i - 1] = tasks[i])
  BY <1>1, <1>2 DEF Shape
<1>6. \A i \in DOMAIN tasks' : tasks'[i].gen <= generation
  BY <1>3 DEF Shape
<1> QED  BY <1>2, <1>4, <1>5, <1>6 DEF Retries, Ticks, Kind

-----------------------------------------------------------------------------
(* The effects that several actions share.                                   *)

rest == <<screen, enabled, generation, due, running>>

\* A task that ends without touching a display: its entries stay on record.
LEMMA EndsQuietly ==
  ASSUME IInv, tasks # <<>>, ~TakingOver, EndTask,
         UNCHANGED <<mode, targets, pending, hold, release>>, UNCHANGED rest,
         \/ retry' = TRUE
         \/ retry' = retry /\ (Kind = "retry" => Active \/ DOMAIN release = {})
  PROVE  IInv'
<1> USE DEF IInv
<1>1. Shape'
  BY EndKeeps DEF Shape, EndTask, NoJob, rest
<1>2. TaskInv' /\ ClearInv' /\ OwnershipInv'
  BY DEF TaskInv, ClearInv, OwnershipInv, EndTask, NoJob, TakingOver, Releasing, Active
<1>3. ShowInv'
  BY DEF ShowInv, EndTask, NoJob, TakingOver, Releasing, Playing, Covers, rest
<1>4. MusicIsHeld' /\ HoldsHaveOwners'
  BY DEF MusicIsHeld, HoldsHaveOwners
<1>5. PendingIsRetried'
  <2>1. CASE retry' = TRUE
    BY <2>1 DEF PendingIsRetried, Active
  <2>2. CASE retry' = retry /\ (Kind = "retry" => Active \/ DOMAIN release = {})
    BY <2>2, EndKeeps DEF PendingIsRetried, Active, Retries, EndTask
  <2> QED  BY <2>1, <2>2
<1>6. WatcherLives'
  BY EndKeeps DEF EndTask, WatcherLives, Ticks, rest
<1> QED  BY <1>1, <1>2, <1>3, <1>4, <1>5, <1>6

\* A takeover begins: the lock and the hold are taken before any command.
LEMMA TakesOver ==
  ASSUME IInv, tasks # <<>>, job.pc \in {"idle", "probe"},
         NEW S \in SUBSET Displays, NEW m, m # "none",
         assertMorningAnnouncements(S, m), UNCHANGED rest
  PROVE  IInv'
<1> USE DEF IInv, assertMorningAnnouncements
<1>1. Shape'
  BY DEF Shape, NoJob, rest
<1>2. TaskInv' /\ ClearInv' /\ OwnershipInv'
  BY DEF TaskInv, ClearInv, OwnershipInv, NoJob, TakingOver, Releasing, Active, StillPlaying
<1>3. ShowInv'
  BY DEF ShowInv, OwnershipInv, NoJob, TakingOver, Releasing, Playing, Covers, rest, Active,
     StillPlaying
<1>4. MusicIsHeld' /\ HoldsHaveOwners'
  BY DEF MusicIsHeld, HoldsHaveOwners, OwnershipInv
<1>5. PendingIsRetried' /\ WatcherLives'
  BY DEF PendingIsRetried, WatcherLives, Active, rest
<1> QED  BY <1>1, <1>2, <1>3, <1>4, <1>5

\* Settling an entry changes nothing else of it.
LEMMA Settles ==
  ASSUME NEW e, NEW b,
         e = [content |-> e.content, clear |-> e.clear, cleared |-> e.cleared]
  PROVE  /\ [e EXCEPT !.cleared = b] = [content |-> e.content, clear |-> e.clear,
                                        cleared |-> b]
         /\ [e EXCEPT !.cleared = b].content = e.content
         /\ [e EXCEPT !.cleared = b].clear = e.clear
         /\ [e EXCEPT !.cleared = b].cleared = b
OBVIOUS

\* The clears of a release or of a retry begin: each entry is on record with
\* what its display shows, or settled.
LEMMA ClearsBegin ==
  ASSUME IInv, tasks # <<>>, job.pc \in {"idle", "probe"},
         NEW r, ClearEntries(r), DOMAIN r = targets \cup DOMAIN release,
         \A d \in DOMAIN r : \/ d \in targets /\ r[d] = [content |-> screen[d].id,
                                               clear |-> r[d].clear, cleared |-> FALSE]
                             \/ d \notin targets /\ r[d] = release[d],
         \/ Active /\ Kind \in {"stop", "tick"}
         \/ ~Active /\ Kind = "retry",
         UNCHANGED <<mode, targets, pending, hold, retry, tasks, watcher>>,
         UNCHANGED rest
  PROVE  IInv'
<1> USE DEF IInv
<1>1. \A d \in DOMAIN r : r[d] = [content |-> r[d].content, clear |-> r[d].clear,
                                    cleared |-> r[d].cleared]
  <2>1. \A d \in DOMAIN release :
          release[d] = [content |-> release[d].content, clear |-> release[d].clear,
                        cleared |-> release[d].cleared]
    BY Zenon DEF Shape
  <2> SUFFICES ASSUME NEW d \in DOMAIN r
               PROVE  r[d] = [content |-> r[d].content, clear |-> r[d].clear,
                              cleared |-> r[d].cleared]
    OBVIOUS
  <2>2. CASE r[d] = [content |-> screen[d].id, clear |-> r[d].clear, cleared |-> FALSE]
    BY <2>2
  <2>3. CASE r[d] = release[d] /\ d \in DOMAIN release
    BY <2>1, <2>3
  <2> QED  BY <2>2, <2>3
<1>2. /\ DOMAIN release' = DOMAIN r
      /\ \A d \in DOMAIN r :
           release'[d] = [r[d] EXCEPT !.cleared =
                            @ \/ screen[d].id \notin {r[d].content, r[d].clear}]
  BY DEF ClearEntries
<1> DEFINE stale(d) == screen[d].id \notin {r[d].content, r[d].clear}
<1>3. \A d \in DOMAIN r :
        /\ release'[d] = [content |-> release'[d].content, clear |-> release'[d].clear,
                          cleared |-> release'[d].cleared]
        /\ release'[d].content = r[d].content
        /\ release'[d].clear = r[d].clear
        /\ release'[d].cleared = (r[d].cleared \/ stale(d))
  <2> SUFFICES ASSUME NEW d \in DOMAIN r
               PROVE  /\ release'[d] = [content |-> r[d].content, clear |-> r[d].clear,
                                        cleared |-> r[d].cleared \/ stale(d)]
                      /\ release'[d].content = r[d].content
                      /\ release'[d].clear = r[d].clear
                      /\ release'[d].cleared = (r[d].cleared \/ stale(d))
    BY Zenon
  <2>1. release'[d] = [r[d] EXCEPT !.cleared = r[d].cleared \/ stale(d)]
    BY <1>2
  <2>2. r[d] = [content |-> r[d].content, clear |-> r[d].clear, cleared |-> r[d].cleared]
    BY <1>1
  <2> HIDE DEF stale
  <2> QED  BY <2>1, <2>2, Settles, Zenon
<1>10. /\ job'.pc = "clear"
       /\ \A d \in DOMAIN r : release'[d].cleared \/ release'[d].clear \in job'.groups
  <2>1. job' = [NoJob EXCEPT !.pc = "clear",
                  !.groups = {release'[d].clear : d \in {x \in DOMAIN r : ~release'[x].cleared}}]
    BY DEF ClearEntries
  <2>2. job'.groups = {release'[d].clear : d \in {x \in DOMAIN r : ~release'[x].cleared}}
    BY <2>1 DEF NoJob
  <2> QED  BY <2>1, <2>2 DEF NoJob
<1>4. Shape'
  <2>1. release' = [d \in DOMAIN release' |-> [content |-> release'[d].content,
           clear |-> release'[d].clear, cleared |-> release'[d].cleared]]
    <3>1. release' = [d \in DOMAIN release' |-> release'[d]]
      BY DEF ClearEntries
    <3>2. \A d \in DOMAIN release' : release'[d] = [content |-> release'[d].content,
             clear |-> release'[d].clear, cleared |-> release'[d].cleared]
      BY <1>2, <1>3
    <3> QED  BY <3>1, <3>2, Zenon
  <2> QED  BY <1>2, <2>1 DEF Shape, ClearEntries, NoJob, rest
<1>5. TaskInv' /\ OwnershipInv'
  BY <1>2, <1>10 DEF TaskInv, OwnershipInv, TakingOver, Releasing, Active, Kind
<1>6. ClearInv'
  BY <1>2, <1>10 DEF ClearInv
<1>7. ShowInv'
  <2> SUFFICES ASSUME NEW d \in Displays, screen[d].shows = Announcement
               PROVE  Covers(d)'
    BY DEF ShowInv, rest
  <2>1. d \in targets \/ Covers(d)
    BY DEF ShowInv, Playing, TakingOver, Releasing
  <2>2. d \in DOMAIN r /\ ~r[d].cleared /\ screen[d].id \in {r[d].content, r[d].clear}
    <3>1. CASE d \in targets
      <4>1. r[d] = [content |-> screen[d].id, clear |-> r[d].clear, cleared |-> FALSE]
        BY <3>1
      <4> QED  BY <3>1, <4>1
    <3>2. CASE d \notin targets
      BY <2>1, <3>2 DEF Covers
    <3> QED  BY <3>1, <3>2
  <2>3. ~release'[d].cleared
    BY <1>3, <2>2, Zenon
  <2>4. release'[d].content = r[d].content /\ release'[d].clear = r[d].clear
    BY <1>3, <2>2
  <2> QED  BY <1>2, <2>2, <2>3, <2>4 DEF Covers, rest
<1>8. MusicIsHeld' /\ HoldsHaveOwners'
  BY <1>2 DEF MusicIsHeld, HoldsHaveOwners
<1>9. PendingIsRetried' /\ WatcherLives'
  BY <1>2 DEF PendingIsRetried, WatcherLives, Active, rest, OwnershipInv
<1> QED  BY <1>4, <1>5, <1>6, <1>7, <1>8, <1>9

\* A display that something else writes owes nothing to the announcement.
LEMMA OthersWrite ==
  ASSUME IInv, NEW S, NEW i, NEW w, w # Announcement,
         screen' = screen \/ screen' = Written(S, i, w),
         due' \in Nat, running' \subseteq Nat,
         UNCHANGED lifecycle, UNCHANGED <<enabled, generation, watcher, tasks, job>>
  PROVE  IInv'
<1> USE DEF IInv, lifecycle
<1>1. Shape'
  BY DEF Shape, Written
<1>2. TaskInv' /\ ClearInv' /\ OwnershipInv'
  BY DEF TaskInv, ClearInv, OwnershipInv, TakingOver, Releasing, Active, StillPlaying, Kind
<1>3. ShowInv'
  BY DEF ShowInv, TakingOver, Releasing, Playing, Covers, Written, StillPlaying
<1>4. MusicIsHeld' /\ HoldsHaveOwners' /\ PendingIsRetried' /\ WatcherLives'
  BY DEF MusicIsHeld, HoldsHaveOwners, PendingIsRetried, WatcherLives, Active
<1> QED  BY <1>1, <1>2, <1>3, <1>4

\* A request or a timer adds a task behind the running one.
LEMMA Submits ==
  ASSUME IInv, NEW t \in Tasks, t.gen <= generation, Submit(t),
         UNCHANGED <<mode, targets, pending, hold, release, job>>, UNCHANGED rest,
         retry' = retry \/ (t.kind = "retry" /\ retry' = FALSE),
         watcher' = watcher \/ (t.kind = "tick" /\ t.gen = generation /\ watcher' = FALSE)
  PROVE  IInv'
<1> USE DEF IInv
<1>1. Shape'
  BY SubmitKeeps DEF Shape, rest
<1>2. Kind' = Kind \/ job.pc = "idle"
  BY SubmitKeeps DEF Kind, Shape
<1>3. Head(tasks') = Head(tasks) \/ job.pc = "idle"
  BY SubmitKeeps DEF Shape
<1>4. TaskInv' /\ ClearInv' /\ OwnershipInv'
  BY <1>2, <1>3 DEF TaskInv, ClearInv, OwnershipInv, TakingOver, Releasing, Active, StillPlaying,
     rest
<1>5. ShowInv'
  BY DEF ShowInv, TakingOver, Releasing, Playing, Covers, StillPlaying, rest
<1>6. MusicIsHeld' /\ HoldsHaveOwners'
  BY DEF MusicIsHeld, HoldsHaveOwners
<1>7. PendingIsRetried'
  BY SubmitKeeps DEF PendingIsRetried, Active, Retries
<1>8. WatcherLives'
  BY SubmitKeeps DEF WatcherLives, Ticks, rest
<1> QED  BY <1>1, <1>4, <1>5, <1>6, <1>7, <1>8

-----------------------------------------------------------------------------
(* The steps of a takeover.                                                  *)

\* The first command of a takeover clears displays the announcement owns.
LEMMA TakeoverClears == IInv /\ TakeoverClear => IInv'
<1> SUFFICES ASSUME IInv, TakeoverClear PROVE IInv'
  OBVIOUS
<1> USE DEF IInv, TakeoverClear, lifecycle, watch, schedule
<1>1. Shape'
  BY DEF Shape, Written
<1>2. TaskInv' /\ ClearInv' /\ OwnershipInv'
  BY DEF TaskInv, ClearInv, OwnershipInv, TakingOver, Releasing, Active, StillPlaying, Kind, Shape
<1>3. ShowInv'
  BY DEF ShowInv, TakingOver, Releasing, Playing, Covers, Written, Nothing, Announcement,
     StillPlaying, Shape
<1>4. MusicIsHeld' /\ HoldsHaveOwners' /\ PendingIsRetried' /\ WatcherLives'
  BY DEF MusicIsHeld, HoldsHaveOwners, PendingIsRetried, WatcherLives, Active
<1> QED  BY <1>1, <1>2, <1>3, <1>4

\* The second one shows the stream on displays that are still owned.
LEMMA TakeoverShows == IInv /\ TakeoverShow => IInv'
<1> SUFFICES ASSUME IInv, TakeoverShow PROVE IInv'
  OBVIOUS
<1> USE DEF IInv
<1>1. tasks # <<>> /\ TakingOver /\ ~Releasing
  BY DEF Shape, TakeoverShow, TakingOver, Releasing
<1>2. Shape'
  BY <1>1, EndKeeps DEF Shape, TakeoverShow, EndTask, NoJob, Written, lifecycle, schedule
<1>3. Kind # "retry" \/ Active
  BY <1>1 DEF TaskInv
<1>4. TaskInv' /\ ClearInv' /\ OwnershipInv'
  BY <1>1 DEF TaskInv, ClearInv, OwnershipInv, TakeoverShow, EndTask, NoJob, TakingOver,
     Releasing, lifecycle, Active
<1>5. ShowInv'
  BY <1>1 DEF ShowInv, TakeoverShow, EndTask, NoJob, TakingOver, Shape, TaskInv,
     Releasing, lifecycle, Playing, Covers, Written, Announcement, Nothing
<1>6. MusicIsHeld' /\ HoldsHaveOwners' /\ PendingIsRetried'
  BY <1>1 DEF TakeoverShow, lifecycle, Active, MusicIsHeld, HoldsHaveOwners,
     PendingIsRetried, TaskInv
<1>7. WatcherLives'
  BY <1>1, EndKeeps DEF TakeoverShow, EndTask, WatcherLives, Ticks
<1> QED  BY <1>2, <1>4, <1>5, <1>6, <1>7

\* What a failed takeover leaves on the displays is on record, or belongs to
\* the announcement it extends.
LEMMA TakeoverFailsSafely == IInv /\ TakeoverCommandFails => IInv'
<1> SUFFICES ASSUME IInv, TakeoverCommandFails PROVE IInv'
  OBVIOUS
<1> USE DEF IInv
<1>1. tasks # <<>> /\ TakingOver /\ ~Releasing /\ EndTask
  BY DEF Shape, TakeoverCommandFails, TakeoverFails, TakingOver, Releasing
<1>2. Active /\ targets = job.targets \cup StillPlaying /\ job.targets \subseteq Displays
  BY <1>1 DEF TaskInv, Shape
<1> DEFINE owned == OwnedContent(screen')
<1>3. /\ DOMAIN release' = owned \cup DOMAIN release
      /\ \A d \in owned : release'[d] = [content |-> screen'[d].id, clear |-> commandId,
                                         cleared |-> FALSE]
      /\ \A d \in DOMAIN release \ owned : release'[d] = release[d]
  BY DEF TakeoverCommandFails, TakeoverFails, queueMorningAnnouncementsReleaseTargets
<1>4. /\ owned \subseteq job.targets
      /\ mode' = job.prevMode
      /\ targets' = IF job.prevMode = "none" THEN {} ELSE job.prevTargets \cup owned
      /\ hold' = hold \ (job.targets \ (DOMAIN release' \cup StillPlaying))
      /\ IF DOMAIN release' # {} THEN pending' = TRUE /\ retry' = TRUE
         ELSE UNCHANGED <<pending, retry>>
  BY DEF TakeoverCommandFails, TakeoverFails, OwnedContent,
     scheduleMorningAnnouncementsReleaseRetry
<1>5. /\ screen' = [d \in Displays |-> [id |-> screen'[d].id, shows |-> screen'[d].shows]]
      /\ \A d \in Displays : \/ screen'[d] = screen[d]
                             \/ d \in owned
  BY DEF Shape, TakeoverCommandFails, Written, OwnedContent
<1>6. UNCHANGED <<enabled, generation, due, running>> /\ tasks' = Tail(tasks) /\ job' = NoJob
  BY DEF TakeoverCommandFails, TakeoverFails, EndTask, schedule
<1> HIDE DEF owned
<1>7. Shape'
  <2>1. release' = [d \in DOMAIN release' |-> [content |-> release'[d].content,
           clear |-> release'[d].clear, cleared |-> release'[d].cleared]]
    <3>1. release' = [d \in DOMAIN release' |-> release'[d]]
      BY DEF TakeoverCommandFails, TakeoverFails, queueMorningAnnouncementsReleaseTargets
    <3>2. \A d \in DOMAIN release : release[d] = [content |-> release[d].content,
             clear |-> release[d].clear, cleared |-> release[d].cleared]
      BY Zenon DEF Shape
    <3>3. \A d \in DOMAIN release' : release'[d] = [content |-> release'[d].content,
             clear |-> release'[d].clear, cleared |-> release'[d].cleared]
      BY <1>3, <3>2
    <3> QED  BY <3>1, <3>3, Zenon
  <2>2. /\ targets' \subseteq Displays /\ DOMAIN release' \subseteq Displays
        /\ {pending', retry', watcher'} \subseteq BOOLEAN
    BY <1>1, <1>2, <1>3, <1>4 DEF Shape, EndTask
  <2>3. tasks' \in Seq(Tasks) /\ \A i \in DOMAIN tasks' : tasks'[i].gen <= generation
    BY <1>1, <1>6, EndKeeps
  <2> QED  BY <1>5, <1>6, <2>1, <2>2, <2>3 DEF Shape, NoJob
<1>8. TaskInv' /\ ClearInv' /\ OwnershipInv'
  BY <1>4, <1>6 DEF TaskInv, ClearInv, OwnershipInv, NoJob, TakingOver, Releasing, Active
<1>9. ShowInv'
  <2> SUFFICES ASSUME NEW d \in Displays, screen'[d].shows = Announcement
               PROVE  d \in targets' \/ Covers(d)'
    BY <1>6 DEF ShowInv, Playing, TakingOver, Releasing, NoJob
  <2>1. CASE d \in owned
    BY <1>3, <2>1 DEF Covers
  <2>2. CASE d \notin owned /\ d \in StillPlaying
    BY <1>4, <2>2 DEF StillPlaying
  <2>3. CASE d \notin owned /\ d \notin StillPlaying
    BY <1>1, <1>3, <1>5, <2>3 DEF ShowInv, Playing, Covers
  <2> QED  BY <2>1, <2>2, <2>3
<1>10. MusicIsHeld' /\ HoldsHaveOwners'
  BY <1>2, <1>3, <1>4 DEF MusicIsHeld, HoldsHaveOwners, StillPlaying
<1>11. PendingIsRetried'
  BY <1>4 DEF PendingIsRetried
<1>12. WatcherLives'
  BY <1>1, <1>6, EndKeeps DEF EndTask, WatcherLives, Ticks
<1> QED  BY <1>7, <1>8, <1>9, <1>10, <1>11, <1>12

-----------------------------------------------------------------------------
(* The steps of a release, a retry and Resume.                               *)

\* A clear settles the entries of its group: those whose display still shows
\* what they cover, by clearing it.
LEMMA ClearGroupSettles == IInv /\ (\E g \in job.groups : ClearGroup(g)) => IInv'
<1> SUFFICES ASSUME IInv, NEW g \in job.groups, ClearGroup(g) PROVE IInv'
  OBVIOUS
<1> USE DEF IInv
<1>1. job.pc = "clear" /\ job' = [job EXCEPT !.groups = @ \ {g}] /\ job'.pc = "clear"
  BY DEF ClearGroup, Shape
<1>2. UNCHANGED <<mode, targets, pending, hold, retry, enabled, generation, watcher, tasks>>
  BY DEF ClearGroup, watch
<1>3. /\ DOMAIN release' = DOMAIN release
      /\ \A d \in DOMAIN release :
           release'[d] = [release[d] EXCEPT !.cleared = release[d].cleared \/ d \in GroupOf(g)]
  BY DEF ClearGroup
<1>4. \A d \in DOMAIN release : release[d] = [content |-> release[d].content,
                                  clear |-> release[d].clear, cleared |-> release[d].cleared]
  BY Zenon DEF Shape
<1>5. \A d \in DOMAIN release :
        /\ release'[d] = [content |-> release[d].content, clear |-> release[d].clear,
                          cleared |-> release[d].cleared \/ d \in GroupOf(g)]
        /\ release'[d].content = release[d].content
        /\ release'[d].clear = release[d].clear
        /\ release'[d].cleared = (release[d].cleared \/ d \in GroupOf(g))
  <2> TAKE d \in DOMAIN release
  <2> DEFINE b == release[d].cleared \/ d \in GroupOf(g)
  <2>1. release'[d] = [release[d] EXCEPT !.cleared = b]
    BY <1>3
  <2>2. release[d] = [content |-> release[d].content, clear |-> release[d].clear,
                      cleared |-> release[d].cleared]
    BY <1>4
  <2> HIDE DEF b
  <2>3. /\ release'[d] = [content |-> release[d].content, clear |-> release[d].clear,
                          cleared |-> b]
        /\ release'[d].content = release[d].content
        /\ release'[d].clear = release[d].clear
        /\ release'[d].cleared = b
    BY <2>1, <2>2, Settles, Zenon
  <2> USE DEF b
  <2> QED  BY <2>3, Zenon
<1>6. Shape'
  <2>1. release' = [d \in DOMAIN release' |-> [content |-> release'[d].content,
           clear |-> release'[d].clear, cleared |-> release'[d].cleared]]
    <3>1. release' = [d \in DOMAIN release' |-> release'[d]]
      BY DEF ClearGroup
    <3>2. \A d \in DOMAIN release' : release'[d] = [content |-> release'[d].content,
             clear |-> release'[d].clear, cleared |-> release'[d].cleared]
      BY <1>3, <1>5
    <3> QED  BY <3>1, <3>2, Zenon
  <2>2. screen' = [d \in Displays |-> [id |-> screen'[d].id, shows |-> screen'[d].shows]]
    BY DEF ClearGroup, Written, Shape
  <2> QED  BY <1>1, <1>2, <1>3, <2>1, <2>2 DEF Shape, ClearGroup, schedule
<1>7. TaskInv' /\ OwnershipInv'
  BY <1>1, <1>2, <1>3 DEF TaskInv, OwnershipInv, TakingOver, Releasing, Active, Kind
<1>8. ClearInv'
  <2> SUFFICES ASSUME ~job.failed, NEW d \in DOMAIN release, ~release'[d].cleared
               PROVE  release'[d].clear \in job'.groups
    BY <1>1, <1>3 DEF ClearInv, Shape
  <2>1. ~release[d].cleared /\ d \notin GroupOf(g)
    BY <1>5, Zenon
  <2>2. release[d].clear \in job.groups /\ release[d].clear # g
    BY <1>1, <2>1 DEF ClearInv, GroupOf
  <2>3. release'[d].clear = release[d].clear
    BY <1>5
  <2> QED  BY <1>1, <2>2, <2>3 DEF Shape
<1>9. ShowInv'
  <2> SUFFICES ASSUME NEW d \in Displays, screen'[d].shows = Announcement
               PROVE  Covers(d)'
    BY DEF ShowInv
  <2>1. d \notin Owned(g) /\ screen'[d] = screen[d]
    BY DEF ClearGroup, Written, Nothing, Announcement
  <2>2. Covers(d) /\ d \in DOMAIN release
    BY <1>1, <2>1 DEF ShowInv, Playing, TakingOver, Releasing, Covers
  <2>3. d \notin GroupOf(g)
    BY <2>1, <2>2 DEF Owned, GroupOf, Covers
  <2>4. ~release'[d].cleared
    BY <1>5, <2>2, <2>3, Zenon DEF Covers
  <2> QED  BY <1>3, <1>5, <2>1, <2>2, <2>4 DEF Covers
<1>10. MusicIsHeld' /\ HoldsHaveOwners' /\ PendingIsRetried' /\ WatcherLives'
  BY <1>2, <1>3 DEF MusicIsHeld, HoldsHaveOwners, PendingIsRetried, WatcherLives, Active
<1> QED  BY <1>6, <1>7, <1>8, <1>9, <1>10

\* The running task goes on, with other locals.
GoesOn ==
  /\ job' = [pc |-> job'.pc, targets |-> job.targets, clearId |-> job'.clearId,
             contentId |-> job'.contentId, prevMode |-> job'.prevMode,
             prevTargets |-> job.prevTargets, groups |-> job'.groups,
             plan |-> job'.plan, failed |-> job'.failed, incomplete |-> job'.incomplete]
  /\ UNCHANGED lifecycle /\ UNCHANGED <<enabled, generation, watcher, due, running, tasks>>

\* A display is cleared, or written by a run, while a release works: nothing it
\* owes changes.
LEMMA ReleaseWorks ==
  ASSUME IInv, Releasing, GoesOn,
         NEW S, NEW i, NEW w, w # Announcement,
         screen' = screen \/ screen' = Written(S, i, w),
         job'.pc = "clear" => job.pc = "clear" /\ job'.failed = TRUE,
         job'.pc = "resync" =>
           \/ job.pc = "resync" /\ job'.failed = job.failed
           \/ /\ job.pc = "clear" /\ job.groups = {}
              /\ job'.failed = job.failed \/ job'.failed = TRUE
              /\ Kind = "retry" => ~job.failed,
         job'.pc \in {"clear", "resync"}
  PROVE  IInv'
<1> USE DEF IInv, lifecycle, GoesOn
<1>1. tasks # <<>> /\ job.pc \in {"clear", "resync"}
  BY DEF Shape, Releasing
<1>2. job'.targets = job.targets /\ job'.prevTargets = job.prevTargets
  OBVIOUS
<1>3. Shape'
  <2>1. screen' = [d \in Displays |-> [id |-> screen'[d].id, shows |-> screen'[d].shows]]
    BY DEF Shape, Written
  <2>2. job' = [pc |-> job'.pc, targets |-> job'.targets, clearId |-> job'.clearId,
                contentId |-> job'.contentId, prevMode |-> job'.prevMode,
                prevTargets |-> job'.prevTargets, groups |-> job'.groups,
                plan |-> job'.plan, failed |-> job'.failed, incomplete |-> job'.incomplete]
    BY <1>2
  <2> QED  BY <1>1, <1>2, <2>1, <2>2 DEF Shape
<1>4. TaskInv' /\ OwnershipInv'
  BY DEF TaskInv, OwnershipInv, TakingOver, Releasing, Active, Kind
<1>5. ClearInv'
  <2>1. CASE job'.pc = "clear"
    BY <2>1 DEF ClearInv
  <2>2. CASE job'.pc = "resync" /\ job.pc = "resync" /\ job'.failed = job.failed
    BY <2>2 DEF ClearInv, Kind
  <2>3. CASE job'.pc = "resync" /\ job.pc = "clear" /\ job.groups = {}
    BY <2>3 DEF ClearInv, Kind
  <2> QED  BY <2>1, <2>2, <2>3
<1>6. ShowInv'
  BY DEF ShowInv, TakingOver, Releasing, Playing, Covers, Written
<1>7. MusicIsHeld' /\ HoldsHaveOwners' /\ PendingIsRetried' /\ WatcherLives'
  BY DEF MusicIsHeld, HoldsHaveOwners, PendingIsRetried, WatcherLives, Active
<1> QED  BY <1>3, <1>4, <1>5, <1>6, <1>7

\* The lock ends with the release: what it could not clear is on record and
\* tried again; what it could is no longer shown.
LEMMA FinishReleaseUnlocks == IInv /\ FinishRelease => IInv'
<1> SUFFICES ASSUME IInv, FinishRelease PROVE IInv'
  OBVIOUS
<1> USE DEF IInv
<1> PICK failed \in BOOLEAN :
      /\ job.pc = "resync" /\ Kind \in {"stop", "tick"} /\ mode' = "none" /\ targets' = {}
      /\ IF failed \/ job.failed \/ job.incomplete THEN ReleaseIncomplete ELSE ReleaseComplete
      /\ EndTask /\ UNCHANGED <<screen, enabled, generation, due, running>>
  BY DEF FinishRelease, ResyncEnds, Unlock, schedule
<1>1. tasks # <<>> /\ Active /\ targets \subseteq DOMAIN release
  BY DEF Shape, TaskInv, Releasing
<1>2. tasks' \in Seq(Tasks) /\ \A i \in DOMAIN tasks' : tasks'[i].gen <= generation
  BY <1>1, EndKeeps DEF EndTask
<1>3. WatcherLives'
  BY <1>1, EndKeeps DEF EndTask, WatcherLives, Ticks
<1>4. TaskInv' /\ ClearInv' /\ OwnershipInv' /\ MusicIsHeld'
  BY DEF TaskInv, ClearInv, OwnershipInv, EndTask, NoJob, TakingOver, Releasing, MusicIsHeld
<1>5. CASE ReleaseIncomplete
  <2>1. Shape'
    BY <1>2, <1>5 DEF Shape, ReleaseIncomplete, EndTask, NoJob,
       scheduleMorningAnnouncementsReleaseRetry
  <2>2. ShowInv'
    BY <1>5 DEF ShowInv, Playing, TakingOver, Releasing, Covers, EndTask, NoJob,
       ReleaseIncomplete
  <2>3. HoldsHaveOwners' /\ PendingIsRetried'
    BY <1>1, <1>5 DEF HoldsHaveOwners, PendingIsRetried, ReleaseIncomplete,
       scheduleMorningAnnouncementsReleaseRetry
  <2> QED  BY <1>3, <1>4, <2>1, <2>2, <2>3
<1>6. CASE ReleaseComplete /\ ~job.failed
  <2>1. DOMAIN release' = {} /\ release' = [d \in {} |-> 0] /\ retry' = retry /\ pending' = FALSE
    BY <1>6 DEF ReleaseComplete
  <2>2. release' = [d \in DOMAIN release' |-> [content |-> release'[d].content,
           clear |-> release'[d].clear, cleared |-> release'[d].cleared]]
    BY <2>1
  <2>3. Shape'
    BY <1>2, <2>1, <2>2 DEF Shape, EndTask, NoJob
  <2>4. \A d \in Displays : ~Covers(d)
    BY <1>6 DEF ClearInv, Covers
  <2>5. ShowInv'
    BY <2>4 DEF ShowInv, Playing, TakingOver, Releasing
  <2>6. HoldsHaveOwners' /\ PendingIsRetried'
    BY <1>1, <1>6, <2>1 DEF HoldsHaveOwners, PendingIsRetried, ReleaseComplete
  <2> QED  BY <1>3, <1>4, <2>3, <2>5, <2>6
<1> QED  BY <1>5, <1>6

\* A retry that met no error has cleared all that was on record.
LEMMA FinishRetryReleases == IInv /\ FinishRetry => IInv'
<1> SUFFICES ASSUME IInv, FinishRetry PROVE IInv'
  OBVIOUS
<1>1. /\ job.pc = "resync" /\ Kind = "retry" /\ UNCHANGED rest
      /\ \/ RetryFails
         \/ ReleaseComplete /\ EndTask /\ UNCHANGED <<mode, targets>>
  BY DEF FinishRetry, ResyncEnds, rest, schedule
<1>2. tasks # <<>> /\ ~TakingOver /\ Releasing /\ ~Active
  BY <1>1 DEF IInv, Shape, TaskInv, TakingOver, Releasing
<1>3. CASE RetryFails
  BY <1>1, <1>2, <1>3, EndsQuietly DEF RetryFails, scheduleMorningAnnouncementsReleaseRetry
<1>4. CASE ReleaseComplete /\ EndTask /\ UNCHANGED <<mode, targets>>
  <2> USE DEF IInv
  <2>1. DOMAIN release' = {} /\ release' = [d \in {} |-> 0] /\ retry' = retry /\ pending' = FALSE
    BY <1>4 DEF ReleaseComplete
  <2>2. release' = [d \in DOMAIN release' |-> [content |-> release'[d].content,
           clear |-> release'[d].clear, cleared |-> release'[d].cleared]]
    BY <2>1
  <2>3. tasks' \in Seq(Tasks) /\ \A i \in DOMAIN tasks' : tasks'[i].gen <= generation
    BY <1>2, <1>4, EndKeeps DEF EndTask
  <2>4. Shape'
    BY <1>1, <1>4, <2>1, <2>2, <2>3 DEF Shape, EndTask, NoJob, rest
  <2>5. TaskInv' /\ ClearInv' /\ OwnershipInv' /\ MusicIsHeld'
    BY <1>2, <1>4 DEF TaskInv, ClearInv, OwnershipInv, EndTask, NoJob, TakingOver, Releasing,
       MusicIsHeld, Active
  <2>6. \A d \in Displays : ~Covers(d)
    BY <1>1 DEF ClearInv, Covers
  <2>7. ShowInv'
    BY <1>1, <1>2, <2>6 DEF ShowInv, Playing, rest
  <2>8. HoldsHaveOwners' /\ PendingIsRetried'
    BY <1>2, <1>4, <2>1 DEF HoldsHaveOwners, PendingIsRetried, ReleaseComplete, OwnershipInv
  <2>9. WatcherLives'
    BY <1>1, <1>2, <1>4, EndKeeps DEF EndTask, WatcherLives, Ticks, rest
  <2> QED  BY <2>4, <2>5, <2>7, <2>8, <2>9
<1> QED  BY <1>1, <1>3, <1>4

\* A new configuration owns the watcher from now on.
LEMMA SavesConfiguration == IInv /\ SaveConfiguration => IInv'
<1> SUFFICES ASSUME IInv, SaveConfiguration PROVE IInv'
  OBVIOUS
<1> USE DEF IInv, SaveConfiguration, restartMorningAnnouncementsWatcher, lifecycle, schedule
<1>1. \A i \in DOMAIN tasks : tasks[i].gen \in Nat /\ tasks[i].gen <= generation
  <2>1. \A i \in DOMAIN tasks : tasks[i] \in Tasks
    BY DEF Shape
  <2> QED  BY <2>1 DEF Shape, Tasks
<1>2. tasks # <<>> => Head(tasks).gen # generation + 1
  <2>1. tasks # <<>> => 1 \in DOMAIN tasks /\ Head(tasks) = tasks[1]
    BY DEF Shape
  <2> QED  BY <1>1, <2>1 DEF Shape
<1>3. Shape'
  BY <1>1 DEF Shape
<1>4. TaskInv' /\ ClearInv' /\ OwnershipInv'
  BY <1>2 DEF TaskInv, ClearInv, OwnershipInv, TakingOver, Releasing, Active, StillPlaying, Kind,
     Shape
<1>5. ShowInv'
  BY DEF ShowInv, TakingOver, Releasing, Playing, Covers, StillPlaying
<1>6. MusicIsHeld' /\ HoldsHaveOwners' /\ PendingIsRetried' /\ WatcherLives'
  BY DEF MusicIsHeld, HoldsHaveOwners, PendingIsRetried, WatcherLives, Active
<1> QED  BY <1>3, <1>4, <1>5, <1>6

\* Resume plans the displays' winners when no announcement has them.
LEMMA ResumePlans ==
  ASSUME IInv, Begins("resume"), ~Active, PlanResync(FALSE), UNCHANGED lifecycle,
         UNCHANGED rest, UNCHANGED <<tasks, watcher>>
  PROVE  IInv'
<1> USE DEF IInv, lifecycle, rest, Begins, Idle
<1>1. job'.pc = "resync" /\ job'.targets = job.targets /\ job'.prevTargets = job.prevTargets
  BY DEF PlanResync, Shape
<1>2. job' = [pc |-> job'.pc, targets |-> job'.targets, clearId |-> job'.clearId,
              contentId |-> job'.contentId, prevMode |-> job'.prevMode,
              prevTargets |-> job'.prevTargets, groups |-> job'.groups,
              plan |-> job'.plan, failed |-> job'.failed, incomplete |-> job'.incomplete]
  BY DEF PlanResync, Shape
<1>3. Shape'
  BY <1>1, <1>2 DEF Shape
<1>4. TaskInv' /\ ClearInv' /\ OwnershipInv'
  BY <1>1 DEF TaskInv, ClearInv, OwnershipInv, TakingOver, Releasing, Active, Kind
<1>5. ShowInv'
  BY <1>1 DEF ShowInv, TakingOver, Releasing, Playing, Covers, OwnershipInv
<1>6. MusicIsHeld' /\ HoldsHaveOwners' /\ PendingIsRetried' /\ WatcherLives'
  BY DEF MusicIsHeld, HoldsHaveOwners, PendingIsRetried, WatcherLives, Active
<1> QED  BY <1>3, <1>4, <1>5, <1>6

-----------------------------------------------------------------------------
(* Every step preserves the invariant.                                       *)

\* Initially nothing is owned, held or due.
LEMMA InitInv == Init => IInv
<1> SUFFICES ASSUME Init PROVE IInv
  OBVIOUS
<1> USE DEF Init
<1>1. Shape
  <2>1. DOMAIN release = {} /\ release = [d \in DOMAIN release |-> [content |-> release[d].content,
                  clear |-> release[d].clear, cleared |-> release[d].cleared]]
    OBVIOUS
  <2>2. tasks \in Seq(Tasks) /\ DOMAIN tasks = {}
    OBVIOUS
  <2>3. screen = [d \in Displays |-> [id |-> screen[d].id, shows |-> screen[d].shows]]
    OBVIOUS
  <2> QED  BY <2>1, <2>2, <2>3 DEF Shape, NoJob
<1>2. OwnershipInv /\ TaskInv /\ ShowInv /\ ClearInv
  BY DEF OwnershipInv, TaskInv, ShowInv, ClearInv, NoJob, TakingOver, Releasing, Announcement,
     Nothing
<1>3. MusicIsHeld /\ HoldsHaveOwners /\ PendingIsRetried /\ WatcherLives
  BY DEF MusicIsHeld, HoldsHaveOwners, PendingIsRetried, WatcherLives
<1> QED  BY <1>1, <1>2, <1>3 DEF IInv

\* A release that begins remembers what each display of the announcement shows.
LEMMA ReleaseBegins ==
  ASSUME IInv, tasks # <<>>, job.pc \in {"idle", "probe"}, Active, Kind \in {"stop", "tick"},
         releaseMorningAnnouncements, UNCHANGED rest
  PROVE  IInv'
<1> DEFINE r == [d \in targets \cup DOMAIN release |->
                   IF d \in targets
                   THEN [content |-> screen[d].id, clear |-> commandId, cleared |-> FALSE]
                   ELSE release[d]]
<1>1. /\ ClearEntries(r)
      /\ UNCHANGED <<mode, targets, pending, hold, retry, tasks, watcher>>
  BY DEF releaseMorningAnnouncements
<1>2. /\ DOMAIN r = targets \cup DOMAIN release
      /\ \A d \in DOMAIN r : \/ d \in targets /\ r[d] = [content |-> screen[d].id,
                                               clear |-> r[d].clear, cleared |-> FALSE]
                             \/ d \notin targets /\ r[d] = release[d]
  OBVIOUS
<1> HIDE DEF r
<1> QED  BY <1>1, <1>2, ClearsBegin

\* Tasks begin.
LEMMA BeginKeeps == IInv /\ Begin => IInv'
<1> SUFFICES ASSUME IInv, Begin PROVE IInv'
  OBVIOUS
<1>1. job.pc = "idle" /\ tasks # <<>> /\ ~TakingOver /\ ~Releasing
  BY DEF Begin, BeginStart, BeginStop, BeginRetry, BeginResume, Begins, Idle, TakingOver,
     Releasing
<1>2. UNCHANGED rest
  BY DEF Begin, BeginStart, BeginStop, BeginRetry, BeginResume, rest, schedule
<1>3. Head(tasks).targets \in SUBSET Displays
  <2>1. Head(tasks) \in Tasks
    BY <1>1 DEF IInv, Shape
  <2> QED  BY <2>1 DEF Tasks
<1>4. CASE BeginStart
  BY <1>1, <1>2, <1>3, <1>4, TakesOver DEF BeginStart
<1>5. CASE BeginStop
  <2>1. CASE Active
    BY <1>1, <1>2, <1>5, <2>1, ReleaseBegins DEF BeginStop, Begins
  <2>2. CASE ~Active
    BY <1>1, <1>2, <1>5, <2>2, EndsQuietly DEF BeginStop, Begins, lifecycle
  <2> QED  BY <2>1, <2>2
<1>6. CASE BeginRetry
  <2>1. CASE Active \/ DOMAIN release = {}
    BY <1>1, <1>2, <1>6, <2>1, EndsQuietly DEF BeginRetry, lifecycle
  <2>2. CASE ~(Active \/ DOMAIN release = {})
    <3>1. targets = {} /\ ClearEntries(release) /\ Kind = "retry"
      BY <1>6, <2>2 DEF BeginRetry, Begins, IInv, OwnershipInv
    <3> QED  BY <1>1, <1>2, <1>6, <2>2, <3>1, ClearsBegin DEF BeginRetry
  <2> QED  BY <2>1, <2>2
<1>7. CASE BeginResume
  <2>1. CASE Active
    <3>1. targets \in SUBSET Displays /\ mode # "none"
      BY <2>1 DEF IInv, Shape, Active
    <3> QED  BY <1>1, <1>2, <1>7, <2>1, <3>1, TakesOver DEF BeginResume
  <2>2. CASE ~Active
    BY <1>2, <1>7, <2>2, ResumePlans DEF BeginResume
  <2> QED  BY <2>1, <2>2
<1> QED  BY <1>4, <1>5, <1>6, <1>7 DEF Begin

\* The watcher's ticks and probes.
LEMMA WatchingKeeps == IInv /\ (Tick \/ Probe) => IInv'
<1> SUFFICES ASSUME IInv, Tick \/ Probe PROVE IInv'
  OBVIOUS
<1>1. job.pc \in {"idle", "probe"} /\ tasks # <<>> /\ ~TakingOver /\ Kind = "tick"
  BY DEF Tick, TickSkips, TickProbes, TickOutside, Begins, Idle, TakingOver, Probe,
     ProbeRetired, ProbeUnknown, ProbeLive, ProbeOffline, Probed, IInv, Shape, TaskInv
<1>2. UNCHANGED rest
  BY DEF Tick, TickSkips, TickProbes, TickOutside, Probe, ProbeRetired, ProbeUnknown,
     ProbeLive, ProbeOffline, afterTick, schedule, rest
<1>3. CASE EndTask /\ UNCHANGED lifecycle
  BY <1>1, <1>2, <1>3, EndsQuietly DEF lifecycle
<1>4. CASE Active /\ releaseMorningAnnouncements
  BY <1>1, <1>2, <1>4, ReleaseBegins
<1>5. CASE assertMorningAnnouncements(Displays, "automatic")
  BY <1>1, <1>2, <1>5, TakesOver
<1>6. CASE TickProbes
  <2> USE DEF TickProbes, IInv, lifecycle, rest, Begins, Idle
  <2>1. job' = [NoJob EXCEPT !.pc = "probe"] /\ enabled /\ Head(tasks).gen = generation
    BY <1>6 DEF TickIsIdle
  <2>2. Shape'
    BY <1>1, <1>2, <1>6, <2>1 DEF Shape, NoJob
  <2>3. TaskInv' /\ ClearInv' /\ OwnershipInv'
    BY <1>1, <1>2, <1>6, <2>1 DEF TaskInv, ClearInv, OwnershipInv, TakingOver, Releasing,
       NoJob, Active, Kind
  <2>4. ShowInv'
    BY <1>2, <1>6, <2>1 DEF ShowInv, TakingOver, Releasing, Playing, Covers, NoJob
  <2>5. MusicIsHeld' /\ HoldsHaveOwners' /\ PendingIsRetried' /\ WatcherLives'
    BY <1>2, <1>6 DEF MusicIsHeld, HoldsHaveOwners, PendingIsRetried, WatcherLives, Active
  <2> QED  BY <2>2, <2>3, <2>4, <2>5
<1> QED  BY <1>3, <1>4, <1>5, <1>6 DEF Tick, TickSkips, TickOutside, Probe, ProbeRetired,
           ProbeUnknown, ProbeLive, ProbeOffline

\* The steps between the clears and the end of a release.
LEMMA ResyncKeeps == IInv /\ Resync => IInv'
<1> SUFFICES ASSUME IInv, Resync PROVE IInv'
  OBVIOUS
<1>1. job.pc \in {"clear", "resync"} /\ Releasing /\ ~TakingOver /\ tasks # <<>>
  BY DEF Resync, consumeDeferredAnnouncementAutomations, ConsumeFails, RetryGivesUp,
     AfterClears, ResyncWinner, ResyncWinnerFails, FinishRelease, FinishRetry, FinishResume,
     ResyncEnds, Releasing, TakingOver, IInv, Shape
<1>2. job = [pc |-> job.pc, targets |-> job.targets, clearId |-> job.clearId,
             contentId |-> job.contentId, prevMode |-> job.prevMode,
             prevTargets |-> job.prevTargets, groups |-> job.groups,
             plan |-> job.plan, failed |-> job.failed, incomplete |-> job.incomplete]
  BY DEF IInv, Shape
<1>3. ASSUME NEW f, f = job.failed \/ f = TRUE, PlanResync(f), AfterClears,
             Kind = "retry" => ~job.failed,
             UNCHANGED lifecycle, UNCHANGED <<screen, enabled, generation, watcher, due, running, tasks>>
      PROVE  IInv'
  <2>1. GoesOn /\ job'.pc = "resync" /\ job'.failed = f
    BY <1>2, <1>3 DEF PlanResync, GoesOn
  <2>2. job.pc = "clear" /\ job.groups = {} /\ Nothing # Announcement
    BY <1>3 DEF AfterClears, Nothing, Announcement
  <2>3. screen' = screen \/ screen' = Written({}, Nothing, Nothing)
    BY <1>3
  <2>4. /\ job'.failed = job.failed \/ job'.failed = TRUE
        /\ Kind = "retry" => ~job.failed
    BY <1>3, <2>1
  <2>5. \E S, i, w : w # Announcement /\ (screen' = screen \/ screen' = Written(S, i, w))
    BY <2>2, <2>3
  <2> QED  BY <1>1, <2>1, <2>2, <2>4, <2>5, ReleaseWorks
<1>4. CASE consumeDeferredAnnouncementAutomations
  BY <1>3, <1>4 DEF consumeDeferredAnnouncementAutomations, watch
<1>5. CASE ConsumeFails
  BY <1>3, <1>5 DEF ConsumeFails, watch, schedule
<1>6. CASE RetryGivesUp
  BY <1>1, <1>6, EndsQuietly DEF RetryGivesUp, RetryFails, rest, schedule,
     scheduleMorningAnnouncementsReleaseRetry
<1>7. CASE ResyncWinner \/ ResyncWinnerFails
  <2>1. PICK o \in Occurrences :
          /\ \/ job' = [job EXCEPT !.plan = Without(o)]
             \/ job' = [job EXCEPT !.plan = Without(o), !.incomplete = TRUE]
          /\ \/ screen' = screen
             \/ screen' = Written(WonBy(o), commandId, o)
             \/ screen' = Written(WonBy(o), commandId, Nothing)
    BY <1>7 DEF ResyncWinner, ResyncWinnerFails, LeftToApply
  <2>2. o # Announcement /\ Nothing # Announcement
    BY OccurrencesAreTimed DEF Occurrences, Nothing, Announcement
  <2>3. PICK w \in {o, Nothing} : screen' = screen \/ screen' = Written(WonBy(o), commandId, w)
    BY <2>1
  <2>4. GoesOn /\ job.pc = "resync" /\ job'.pc = "resync" /\ job'.failed = job.failed
    BY <1>2, <1>7, <2>1 DEF ResyncWinner, ResyncWinnerFails, watch, schedule, GoesOn
  <2> QED  BY <1>1, <2>2, <2>3, <2>4, ReleaseWorks
<1>8. CASE FinishRelease
  BY <1>8, FinishReleaseUnlocks
<1>9. CASE FinishRetry
  BY <1>9, FinishRetryReleases
<1>10. CASE FinishResume
  BY <1>1, <1>10, EndsQuietly DEF FinishResume, ResyncEnds, lifecycle, rest, schedule
<1> QED  BY <1>4, <1>5, <1>6, <1>7, <1>8, <1>9, <1>10 DEF Resync

\* Clears.
LEMMA ClearingKeeps == IInv /\ Clearing => IInv'
<1> SUFFICES ASSUME IInv, NEW g \in job.groups, ClearGroup(g) \/ ClearGroupFails(g) PROVE IInv'
  BY DEF Clearing
<1>1. CASE ClearGroup(g)
  BY <1>1, ClearGroupSettles
<1>2. CASE ClearGroupFails(g)
  <2>1. job.pc = "clear" /\ tasks # <<>> /\ Kind # "resume"
    BY <1>2 DEF ClearGroupFails, IInv, Shape, TaskInv, Releasing
  <2>2. GoesOn /\ job'.pc = "clear" /\ job'.failed = TRUE
    BY <1>2, <2>1 DEF ClearGroupFails, IInv, Shape, GoesOn, watch, schedule
  <2>3. screen' = screen \/ screen' = Written(Owned(g), g, Nothing)
    BY <1>2 DEF ClearGroupFails
  <2>4. Nothing # Announcement /\ Releasing
    BY <2>1 DEF Nothing, Announcement, Releasing
  <2> QED  BY <2>1, <2>2, <2>3, <2>4, ReleaseWorks
<1> QED  BY <1>1, <1>2

\* Timers and requests.
LEMMA SubmissionsKeep ==
  IInv /\ (Timers \/ RequestStart \/ RequestStop \/ RequestResume) => IInv'
<1> SUFFICES ASSUME IInv, Timers \/ RequestStart \/ RequestStop \/ RequestResume PROVE IInv'
  OBVIOUS
<1>1. generation \in Nat /\ generation <= generation /\ 0 <= generation
  BY DEF IInv, Shape
<1>2. CASE WatcherFires
  <2> DEFINE t == Task("tick", generation, {})
  <2>1. t \in Tasks /\ t.kind = "tick" /\ t.gen = generation /\ t.gen <= generation
    BY <1>1 DEF Task, Tasks
  <2> HIDE DEF t
  <2>2. Submit(t) /\ UNCHANGED <<mode, targets, pending, hold, release, job>> /\ UNCHANGED rest
        /\ retry' = retry /\ watcher' = FALSE
    BY <1>2 DEF WatcherFires, lifecycle, rest, schedule, t
  <2> QED  BY <2>1, <2>2, Submits
<1>3. CASE RetryFires
  <2> DEFINE t == Task("retry", 0, {})
  <2>1. t \in Tasks /\ t.kind = "retry" /\ t.gen <= generation
    BY <1>1 DEF Task, Tasks
  <2> HIDE DEF t
  <2>2. Submit(t) /\ UNCHANGED <<mode, targets, pending, hold, release, job>> /\ UNCHANGED rest
        /\ retry' = FALSE /\ watcher' = watcher
    BY <1>3 DEF RetryFires, watch, rest, schedule, t
  <2> QED  BY <2>1, <2>2, Submits
<1>4. ASSUME NEW k \in {"start", "stop", "resume"}, NEW S \in SUBSET Displays,
             Request(Task(k, 0, S))
      PROVE  IInv'
  <2> DEFINE t == Task(k, 0, S)
  <2>1. t \in Tasks /\ t.gen <= generation
    BY <1>1 DEF Task, Tasks
  <2> HIDE DEF t
  <2>2. Submit(t) /\ UNCHANGED <<mode, targets, pending, hold, release, job>> /\ UNCHANGED rest
        /\ retry' = retry /\ watcher' = watcher
    BY <1>4 DEF Request, lifecycle, watch, rest, schedule, t
  <2> QED  BY <2>1, <2>2, Submits
<1>5. CASE RequestStart
  BY <1>4, <1>5 DEF RequestStart
<1>6. CASE RequestStop
  BY <1>4, <1>6 DEF RequestStop
<1>7. CASE RequestResume
  BY <1>4, <1>7 DEF RequestResume
<1> QED  BY <1>2, <1>3, <1>5, <1>6, <1>7 DEF Timers

\* Everything beside the lifecycle.
LEMMA OutsideKeeps ==
  IInv /\ (Checks \/ Scheduler \/ OperatorWrites \/ ClockMoves \/ Export) => IInv'
<1> SUFFICES ASSUME IInv, Checks \/ Scheduler \/ OperatorWrites \/ ClockMoves \/ Export
             PROVE  IInv'
  OBVIOUS
<1>1. due \in Nat /\ running \subseteq Nat
  BY DEF IInv, Shape
<1>2. Other # Announcement
  BY DEF Other, Announcement
<1>3. CASE OccurrenceDispatches
  <2>1. PICK o \in running : running' = running \ {o} /\
                screen' = Written(TargetsOf[o] \ Locked(TargetsOf[o]), commandId, o)
    BY <1>3 DEF OccurrenceDispatches
  <2>2. o # Announcement /\ running' \subseteq Nat /\ due' \in Nat
    BY <1>1, <1>3, <2>1 DEF Announcement, OccurrenceDispatches
  <2>3. UNCHANGED lifecycle /\ UNCHANGED <<enabled, generation, watcher, tasks, job>>
    BY <1>3 DEF OccurrenceDispatches, watch
  <2> QED  BY <2>1, <2>2, <2>3, OthersWrite
<1>4. CASE OperatorWrites
  <2>1. PICK d \in Displays : screen' = Written({d}, commandId, Other)
    BY <1>4 DEF OperatorWrites
  <2>2. UNCHANGED lifecycle /\ UNCHANGED <<enabled, generation, watcher, tasks, job, due, running>>
    BY <1>4 DEF OperatorWrites, watch, schedule
  <2> QED  BY <1>1, <1>2, <2>1, <2>2, OthersWrite
<1>5. CASE OccurrenceDue
  <2>1. UNCHANGED lifecycle /\ UNCHANGED <<screen, enabled, generation, watcher, tasks, job>>
    BY <1>5 DEF OccurrenceDue, watch
  <2>2. due' \in Nat /\ running' \subseteq Nat
    <3>1. due' = due + 1 /\ running' \subseteq running \cup {due + 1}
      BY <1>5 DEF OccurrenceDue
    <3> QED  BY <1>1, <3>1
  <2>3. screen' = screen \/ screen' = Written({}, Other, Other)
    BY <2>1
  <2> QED  BY <1>2, <2>1, <2>2, <2>3, OthersWrite
<1>6. CASE Checks \/ ClockMoves \/ Export
  <2>1. UNCHANGED lifecycle
        /\ UNCHANGED <<screen, enabled, generation, watcher, tasks, job, due, running>>
    BY <1>6 DEF Checks, BeginCheck, EndCheck, ClockMoves, Export, FreezeRequested,
       FreezeAcquired, FreezeEnds, watch, schedule
  <2>2. screen' = screen \/ screen' = Written({}, Other, Other)
    BY <2>1
  <2>3. due' \in Nat /\ running' \subseteq Nat
    BY <1>1, <2>1
  <2> QED  BY <1>2, <2>1, <2>2, <2>3, OthersWrite
<1> QED  BY <1>3, <1>4, <1>5, <1>6 DEF Scheduler

\* Every step preserves the invariant.
LEMMA StepKeeps == IInv /\ [Next]_vars => IInv'
<1> SUFFICES ASSUME IInv, [Next]_vars PROVE IInv'
  OBVIOUS
<1>1. CASE UNCHANGED vars
  <2> USE <1>1 DEF vars, lifecycle, watch, schedule
  <2>1. Shape' /\ OwnershipInv' /\ TaskInv' /\ ShowInv' /\ ClearInv'
    BY DEF IInv, Shape, OwnershipInv, TaskInv, ShowInv, ClearInv, TakingOver, Releasing, Active,
       StillPlaying, Kind, Playing, Covers
  <2> QED  BY <2>1 DEF IInv, MusicIsHeld, HoldsHaveOwners, PendingIsRetried, WatcherLives, Active
<1>2. CASE Lifecycle
  <2>1. CASE Takeover
    BY <2>1, TakeoverClears, TakeoverShows, TakeoverFailsSafely DEF Takeover
  <2> QED  BY <1>2, <2>1, BeginKeeps, WatchingKeeps, ClearingKeeps, ResyncKeeps DEF Lifecycle
<1>3. CASE Timers \/ Requests
  BY <1>3, SubmissionsKeep, SavesConfiguration DEF Requests
<1>4. CASE Checks \/ Scheduler \/ OperatorWrites \/ ClockMoves \/ Export
  BY <1>4, OutsideKeeps
<1> QED  BY <1>1, <1>2, <1>3, <1>4 DEF Next

\* IInv is an invariant of every behaviour of the lifecycle.
THEOREM AnnouncementsInvariant == Spec => []IInv
<1> QED  BY InitInv, StepKeeps, PTL DEF Spec

-----------------------------------------------------------------------------
(* The theorems.                                                             *)

\* Music is held paused for every display an announcement owns, from takeover
\* to release, whatever fails or is retried in between.
THEOREM MusicStaysHeld == Spec => []MusicIsHeld
<1>1. IInv => MusicIsHeld
  BY DEF IInv
<1> QED  BY <1>1, AnnouncementsInvariant, PTL

\* No music hold is orphaned.
THEOREM HoldsAreOwned == Spec => []HoldsHaveOwners
<1>1. IInv => HoldsHaveOwners
  BY DEF IInv
<1> QED  BY <1>1, AnnouncementsInvariant, PTL

\* A release that did not finish is on record and will be tried again.
THEOREM ReleasesAreRetried == Spec => []PendingIsRetried
<1>1. IInv => PendingIsRetried
  BY DEF IInv
<1> QED  BY <1>1, AnnouncementsInvariant, PTL

\* The watcher never dies.
THEOREM WatcherStaysAlive == Spec => []WatcherLives
<1>1. IInv => WatcherLives
  BY DEF IInv
<1> QED  BY <1>1, AnnouncementsInvariant, PTL

\* Once announcements are over and released, no display shows them.
THEOREM DisplaysAreGivenBack == Spec => []NothingLeftShowing
<1>1. IInv => NothingLeftShowing
  <2> SUFFICES ASSUME IInv, ~Active, ~pending, NEW d \in Displays
               PROVE  screen[d].shows # Announcement
    BY DEF NothingLeftShowing
  <2>1. targets = {} /\ ~TakingOver /\ Playing = {}
    BY DEF IInv, OwnershipInv, TaskInv, Playing
  <2>2. DOMAIN release = {}
    BY DEF IInv, PendingIsRetried
  <2> QED  BY <2>1, <2>2 DEF IInv, ShowInv, Covers
<1> QED  BY <1>1, AnnouncementsInvariant, PTL

\* The watcher never takes the displays while announcements are disabled.
THEOREM DisabledStaysOff == Spec => DisabledNeverStarts
<1>1. IInv /\ [Next]_vars => (~Active /\ mode' = "automatic" => enabled)
  <2> SUFFICES ASSUME IInv, [Next]_vars, ~Active, mode' = "automatic" PROVE enabled
    OBVIOUS
  <2>1. ~UNCHANGED mode
    BY DEF Active
  <2>2. ~Takeover
    BY DEF Takeover, TakeoverClear, TakeoverShow, TakeoverCommandFails, IInv, TaskInv, TakingOver
  <2>3. ~Resync
    BY <2>1 DEF Resync, consumeDeferredAnnouncementAutomations, ConsumeFails, RetryGivesUp,
       RetryFails, ResyncWinner, ResyncWinnerFails, FinishRelease, FinishRetry, FinishResume,
       Unlock, lifecycle
  <2>4. ~Clearing
    BY <2>1 DEF Clearing, ClearGroup, ClearGroupFails, lifecycle
  <2>5. ~Begin
    BY <2>1 DEF Begin, BeginStart, BeginStop, BeginRetry, BeginResume, lifecycle,
       assertMorningAnnouncements
  <2>6. ~Tick
    BY <2>1 DEF Tick, TickSkips, TickProbes, TickOutside, lifecycle
  <2>7. CASE Probe
    <3>1. ProbeLive
      BY <2>1, <2>7 DEF Probe, ProbeRetired, ProbeUnknown, ProbeOffline, lifecycle,
         releaseMorningAnnouncements, Active
    <3> QED  BY <3>1 DEF ProbeLive, Probed, IInv, TaskInv
  <2>8. ~(Timers \/ Requests \/ Checks \/ Scheduler \/ OperatorWrites \/ ClockMoves \/ Export)
    BY <2>1 DEF Timers, WatcherFires, RetryFires, Requests, RequestStart, RequestStop,
       RequestResume, Request, SaveConfiguration, Checks, BeginCheck, EndCheck, Scheduler,
       OccurrenceDue, OccurrenceDispatches, OperatorWrites, ClockMoves, Export,
       FreezeRequested, FreezeAcquired, FreezeEnds, lifecycle
  <2> QED  BY <2>1, <2>2, <2>3, <2>4, <2>5, <2>6, <2>7, <2>8 DEF Next, Lifecycle, vars, lifecycle
<1> QED  BY <1>1, AnnouncementsInvariant, PTL DEF Spec, DisabledNeverStarts

-----------------------------------------------------------------------------
(* The end of the stream.                                                    *)

\* The offline count is never ahead of the periodic offline answers.
CountInv ==
  /\ {offline, heard} \subseteq 0..OfflineConfirmations
  /\ offline <= heard

\* Every step keeps CountInv.
LEMMA CountKeeps == CountInv /\ [Next]_vars => CountInv'
<1> SUFFICES ASSUME CountInv, [Next]_vars PROVE CountInv'
  OBVIOUS
<1> USE OccurrencesAreTimed DEF CountInv
<1>1. CASE UNCHANGED <<offline, heard>>
  BY <1>1
<1>2. CASE offline' \in {0, offline} /\ heard' = heard
  BY <1>2
<1>3. CASE offline' = 0 /\ heard' = 0
  BY <1>3
<1>4. CASE offline' = UpTo(offline) /\ heard' = UpTo(heard)
  BY <1>4 DEF UpTo
<1>5. Begin \/ Clearing => UNCHANGED <<offline, heard>>
  BY DEF Begin, BeginStart, BeginStop, BeginRetry, BeginResume, Clearing, ClearGroup,
     ClearGroupFails, watch
<1>6. Takeover => offline' \in {0, offline} /\ heard' = heard
  BY DEF Takeover, TakeoverClear, TakeoverShow, TakeoverCommandFails, TakeoverFails,
     ForgetOffline, watch
<1>7. Resync => offline' \in {0, offline} /\ heard' = heard
  BY DEF Resync, consumeDeferredAnnouncementAutomations, ConsumeFails, RetryGivesUp,
     ResyncWinner, ResyncWinnerFails, FinishRelease, FinishRetry, FinishResume,
     ForgetOffline, watch
<1>8. Tick => UNCHANGED <<offline, heard>> \/ (offline' = 0 /\ heard' = 0)
  BY DEF Tick, TickSkips, TickProbes, TickOutside
<1>9. Probe => \/ UNCHANGED <<offline, heard>> \/ (offline' = 0 /\ heard' = 0)
               \/ offline' = UpTo(offline) /\ heard' = UpTo(heard)
  BY DEF Probe, ProbeRetired, ProbeUnknown, ProbeLive, ProbeOffline
<1>10. Timers \/ Requests \/ Scheduler \/ OperatorWrites \/ ClockMoves \/ Export
         => UNCHANGED <<offline, heard>>
  BY DEF Timers, WatcherFires, RetryFires, Requests, RequestStart, RequestStop,
     RequestResume, Request, SaveConfiguration, Scheduler, OccurrenceDue,
     OccurrenceDispatches, OperatorWrites, ClockMoves, Export, FreezeRequested,
     FreezeAcquired, FreezeEnds, watch
<1>11. Checks => offline' \in {0, offline} /\ heard' = heard
  BY DEF Checks, BeginCheck, EndCheck, AfterCheck
<1>12. UNCHANGED vars => UNCHANGED <<offline, heard>>
  BY DEF vars, watch
<1> QED  BY <1>1, <1>2, <1>3, <1>4, <1>5, <1>6, <1>7, <1>8, <1>9, <1>10, <1>11, <1>12
         DEF Next, Lifecycle

\* The stream's end releases the displays only after as many periodic offline
\* answers in a row as configured; diagnostic checks do not bring it nearer.
THEOREM EndsAreConfirmed == Spec => StreamEndIsConfirmed
<1>1. Init => CountInv
  BY OccurrencesAreTimed DEF Init, CountInv
<1>2. CountInv /\ [Next]_vars
        => (job.pc = "probe" /\ job'.pc = "clear" => heard' = OfflineConfirmations)
  <2> SUFFICES ASSUME CountInv, CountInv', [Next]_vars, job.pc = "probe", job'.pc = "clear"
               PROVE  heard' = OfflineConfirmations
    BY CountKeeps
  <2>1. job' # job /\ job' # NoJob /\ ~Takeover /\ ~Clearing /\ ~Resync /\ ~Begin /\ ~Tick
    BY DEF NoJob, Takeover, TakeoverClear, TakeoverShow, TakeoverCommandFails, Clearing,
       ClearGroup, ClearGroupFails, Resync, consumeDeferredAnnouncementAutomations,
       ConsumeFails, RetryGivesUp, AfterClears, ResyncWinner, ResyncWinnerFails,
       FinishRelease, FinishRetry, FinishResume, ResyncEnds, Begin, BeginStart, BeginStop,
       BeginRetry, BeginResume, Begins, Tick, TickSkips, TickProbes, TickOutside
  <2>2. ~(Timers \/ Requests \/ Checks \/ Scheduler \/ OperatorWrites \/ ClockMoves \/ Export)
    BY <2>1 DEF Timers, WatcherFires, RetryFires, Requests, RequestStart, RequestStop,
       RequestResume, Request, SaveConfiguration, Checks, BeginCheck, EndCheck, Scheduler,
       OccurrenceDue, OccurrenceDispatches, OperatorWrites, ClockMoves, Export,
       FreezeRequested, FreezeAcquired, FreezeEnds
  <2>3. Probe
    BY <2>1, <2>2 DEF Next, Lifecycle, vars
  <2>4. ~EndTask
    BY <2>1 DEF EndTask
  <2>5. ProbeOffline
    BY <2>3, <2>4 DEF Probe, ProbeRetired, ProbeUnknown, ProbeLive, assertMorningAnnouncements,
       NoJob
  <2>6. offline' >= OfflineConfirmations
    BY <2>4, <2>5 DEF ProbeOffline
  <2> QED  BY <2>6, OccurrencesAreTimed DEF CountInv
<1> QED  BY <1>1, <1>2, CountKeeps, PTL DEF Spec, StreamEndIsConfirmed

-----------------------------------------------------------------------------
(* Exports.                                                                  *)

\* While an export is held only ticks of the watcher are in the queue.
FrozenInv ==
  freeze = "held" =>
    /\ job.pc = "idle" /\ running = {}
    /\ \A i \in DOMAIN tasks : tasks[i].kind = "tick"

\* While an export is held, nothing of the announcements' state or of what the
\* displays show changes.
THEOREM ExportsReadQuietDisplays == Spec => FrozenIsQuiet
<1> DEFINE kept == <<mode, targets, pending, hold, release, screen, deferred>>
<1>1. Init => FrozenInv
  BY DEF Init, FrozenInv
<1>2. IInv /\ FrozenInv /\ freeze = "held" /\ [Next]_vars =>
        /\ UNCHANGED kept
        /\ job' = job \/ job' = NoJob
        /\ running' = running
        /\ tasks' = tasks \/ (tasks # <<>> /\ tasks' = Tail(tasks))
           \/ tasks' = Append(tasks, Task("tick", generation, {}))
  <2> SUFFICES ASSUME IInv, job.pc = "idle", running = {}, tasks # <<>> => Kind = "tick",
                      freeze = "held", [Next]_vars
               PROVE  /\ UNCHANGED kept
                      /\ job' = job \/ job' = NoJob
                      /\ running' = running
                      /\ tasks' = tasks \/ (tasks # <<>> /\ tasks' = Tail(tasks))
                         \/ tasks' = Append(tasks, Task("tick", generation, {}))
    BY DEF FrozenInv, IInv, Shape, Kind
  <2>1. ~Takeover /\ ~Clearing /\ ~Resync /\ ~Begin /\ ~Probe
    BY DEF Takeover, TakeoverClear, TakeoverShow, TakeoverCommandFails, Clearing,
       ClearGroup, ClearGroupFails, Resync, consumeDeferredAnnouncementAutomations,
       ConsumeFails, RetryGivesUp, AfterClears, ResyncWinner, ResyncWinnerFails,
       FinishRelease, FinishRetry, FinishResume, ResyncEnds, Begin, BeginStart, BeginStop,
       BeginRetry, BeginResume, Begins, Idle, Probe, ProbeRetired, ProbeUnknown, ProbeLive,
       ProbeOffline, Probed
  <2>2. ~RetryFires /\ ~Requests /\ ~Scheduler /\ ~OperatorWrites
    BY DEF RetryFires, Requests, RequestStart, RequestStop, RequestResume, Request,
       SaveConfiguration, Scheduler, OccurrenceDue, OccurrenceDispatches, OperatorWrites
  <2>3. CASE Tick
    <3>1. TickSkips
      BY <2>3 DEF Tick, TickProbes, TickOutside, TickIsIdle
    <3> QED  BY <3>1 DEF TickSkips, EndTask, Begins, Idle, lifecycle, afterTick, schedule
  <2>4. CASE WatcherFires
    BY <2>4 DEF WatcherFires, Submit, lifecycle, schedule
  <2>5. CASE Checks \/ ClockMoves \/ Export \/ UNCHANGED vars
    BY <2>5 DEF Checks, BeginCheck, EndCheck, ClockMoves, Export, FreezeRequested,
       FreezeAcquired, FreezeEnds, vars, lifecycle, schedule
  <2> QED  BY <2>1, <2>2, <2>3, <2>4, <2>5 DEF Next, Lifecycle, Timers
<1>3. IInv /\ FrozenInv /\ [Next]_vars => FrozenInv'
  <2> SUFFICES ASSUME IInv, FrozenInv, [Next]_vars, freeze' = "held" PROVE FrozenInv'
    BY DEF FrozenInv
  <2>1. CASE freeze = "held"
    <3>1. job'.pc = "idle" /\ running' = {}
      BY <1>2, <2>1 DEF FrozenInv, NoJob
    <3>2. tasks \in Seq(Tasks)
      BY DEF IInv, Shape
    <3>3. \A i \in DOMAIN tasks' : tasks'[i].kind = "tick"
      <4>1. CASE tasks' = tasks
        BY <2>1, <4>1 DEF FrozenInv
      <4>2. CASE tasks # <<>> /\ tasks' = Tail(tasks)
        <5>1. \A i \in DOMAIN tasks' : i + 1 \in DOMAIN tasks /\ tasks'[i] = tasks[i + 1]
          BY <3>2, <4>2
        <5> QED  BY <2>1, <5>1 DEF FrozenInv
      <4>3. CASE tasks' = Append(tasks, Task("tick", generation, {}))
        <5>1. \A i \in DOMAIN tasks' : \/ i \in DOMAIN tasks /\ tasks'[i] = tasks[i]
                                       \/ tasks'[i] = Task("tick", generation, {})
          BY <3>2, <4>3
        <5> QED  BY <2>1, <5>1 DEF FrozenInv, Task
      <4> QED  BY <1>2, <2>1, <4>1, <4>2, <4>3
    <3> QED  BY <3>1, <3>3 DEF FrozenInv
  <2>2. CASE freeze # "held"
    <3>1. FreezeAcquired
      BY <2>2 DEF Next, Lifecycle, Begin, BeginStart, BeginStop, BeginRetry, BeginResume,
         Takeover, TakeoverClear, TakeoverShow, TakeoverCommandFails, Clearing, ClearGroup,
         ClearGroupFails, Resync, consumeDeferredAnnouncementAutomations, ConsumeFails,
         RetryGivesUp, ResyncWinner, ResyncWinnerFails, FinishRelease, FinishRetry,
         FinishResume, Tick, TickSkips, TickProbes, TickOutside, afterTick, Probe,
         ProbeRetired, ProbeUnknown, ProbeLive, ProbeOffline, Timers, WatcherFires,
         RetryFires, Requests, RequestStart, RequestStop, RequestResume, Request,
         SaveConfiguration, Checks, BeginCheck, EndCheck, Scheduler, OccurrenceDue,
         OccurrenceDispatches, OperatorWrites, ClockMoves, Export, FreezeRequested,
         FreezeEnds, vars
    <3>2. tasks' = <<>> /\ running' = {} /\ job' = job
      BY <3>1 DEF FreezeAcquired, Drained, Idle, schedule
    <3>3. job.pc = "idle"
      BY <3>1 DEF FreezeAcquired, Drained, Idle, IInv, Shape
    <3> QED  BY <3>2, <3>3 DEF FrozenInv
  <2> QED  BY <2>1, <2>2
<1>4. IInv /\ FrozenInv /\ [Next]_vars => (freeze = "held" => UNCHANGED kept)
  BY <1>2
<1> QED  BY <1>1, <1>3, <1>4, AnnouncementsInvariant, PTL DEF Spec, FrozenIsQuiet

=============================================================================
