--------------------------- MODULE BackgroundMusic ---------------------------
(***************************************************************************)
(* Background music (server.js): one output that the schedule and the      *)
(* operators start, resume, pause and stop, and that audio with priority   *)
(* (announcements, media played by hand) silences.  Each of these          *)
(* operations begins a session (sessionGeneration) and awaits the music    *)
(* server; what was begun before it goes on, and finds out after its own   *)
(* await that it is no longer `fresh`.  A tick every five seconds follows  *)
(* the schedule and recovers playback that ended by itself.                *)
(*                                                                         *)
(* An operation in flight is a record: what it is, what it awaits, why it  *)
(* was begun, and whether the tick awaits it.  A command takes effect when *)
(* it is answered; one without an answer may have had its effect.  Of time *)
(* there is only the choice: the schedule's window is open or not, a retry *)
(* is due or not, whenever the code looks at the clock.                    *)
(***************************************************************************)
EXTENDS Naturals

CONSTANTS
    Windows,     \* keys of the schedule's windows
    MaxPresses   \* requests of operators and takeovers, a bound of the model

VARIABLES
    paused,      \* a full export has asked for quiet
    player,      \* what the output does
    runtime,     \* backgroundMusicRuntime
    priority,    \* backgroundMusicPriorityBlocked
    ops,         \* operations in flight
    presses,     \* how many requests and takeovers there were
    word         \* history: the newest request was for "music" or "silence", or
                 \* "unknown": the music server did not answer, or not in time

vars == <<player, runtime, priority, ops, presses, word>>

Players == {"quiet", "paused", "playing"}
Ops == [is : {"start", "resume", "pause", "stop", "look", "tick"},
        at : {"asks", "joins", "plays", "commands", "pauses", "stops", "waits"},
        why : {"manual", "priority", "recover", "schedule"},
        byTick : BOOLEAN, fresh : BOOLEAN]

TypeOK ==
    /\ player \in Players
    /\ runtime \in [active : BOOLEAN, source : {"none", "media", "queue"}, playing : BOOLEAN, paused : BOOLEAN,
                    held : BOOLEAN, manual : BOOLEAN, stopped : BOOLEAN, started : Windows \cup {"none"}]
    /\ priority \in BOOLEAN /\ ops \subseteq Ops
    /\ presses \in 0..MaxPresses /\ word \in {"music", "silence", "unknown"}

Idle == [active |-> FALSE, source |-> "none", playing |-> FALSE, paused |-> FALSE,
         held |-> FALSE, manual |-> FALSE, stopped |-> FALSE, started |-> "none"]

Init ==
    /\ player = "quiet" /\ runtime = Idle
    /\ priority = FALSE /\ ops = {}
    /\ presses = 0 /\ word = "music"

------------------------------------------------------------------------------
(* Operations in flight.  W is ops without the operation that goes on.     *)

Running(is) == \E o \in ops : o.is = is

Op(is, at, why, byTick) == [is |-> is, at |-> at, why |-> why, byTick |-> byTick, fresh |-> TRUE]

Older(W) == {[o EXCEPT !.fresh = FALSE] : o \in W}

(* The end of an operation; with it ends the tick that awaited it.         *)
Ended(W, byTick) == IF byTick THEN {o \in W : o.is # "tick"} ELSE W
Awaited(W, byTick) == W \cup IF byTick THEN {Op("tick", "waits", "schedule", FALSE)} ELSE {}

(* backgroundMusicPause, backgroundMusicStop before their await.  Two      *)
(* that are alike are not in flight together, a bound of the model.        *)
Halt(W, is, why, byTick) ==
    LET o == Op(is, "commands", why, byTick)
    IN /\ o \notin Older(W) \cup W
       /\ ops' = Awaited(Older(W), byTick) \cup {o}

Adopts(r, why) == ~r.active \/ (why = "manual" /\ r.source = "none")

(* backgroundMusicResume before its await.  One that the room's priority   *)
(* refuses, or that finds another, ends at once.                           *)
Resume(W, r, why, byTick) ==
    IF priority' \/ Running("resume")
    THEN ops' = Ended(W, byTick) /\ runtime' = r
    ELSE LET asks == Adopts(r, why) \/ (why = "recover" /\ r.source = "queue")
         IN /\ ops' = Awaited(Older(W), byTick)
                          \cup {Op("resume", IF asks THEN "asks" ELSE "plays", why, byTick)}
            /\ runtime' = IF ~asks /\ why = "manual" THEN [r EXCEPT !.stopped = FALSE] ELSE r

(* backgroundMusicStart before its await.                                  *)
Start(W, why, byTick) ==
    ops' = IF priority \/ Running("start")
           THEN Ended(W, byTick)
           ELSE Awaited(Older(W), byTick) \cup {Op("start", "asks", why, byTick)}

(* backgroundMusicReconcilePriority before its await: silence for audio    *)
(* with priority, or the end of it.  A question that the tick has asked    *)
(* already is not asked again (backgroundMusicProbePending).               *)
Reconcile(W, r, byTick) ==
    \/ /\ priority' /\ ~r.playing
       /\ LET joins == \E o \in W : o.is = "tick" /\ o.at = "asks"
          IN ops' = Awaited(W, byTick)
                      \cup {Op("look", IF joins THEN "joins" ELSE "asks", "priority", byTick)}
       /\ runtime' = r
    \/ /\ priority' /\ r.playing
       /\ Halt(W, "pause", "priority", byTick)
       /\ runtime' = r
    \/ /\ ~priority' /\ r.held /\ ~r.stopped
       /\ Resume(W, r, "priority", byTick)
    \/ ~priority' /\ ops' = Ended(W, byTick) /\ runtime' = r

------------------------------------------------------------------------------
(* Requests of operators, and takeovers of the room by announcements.      *)

Request ==
    /\ presses < MaxPresses /\ presses' = presses + 1
    /\ \/ /\ ~Running("start") /\ ~priority /\ UNCHANGED priority
          /\ Start(ops, "manual", FALSE) /\ UNCHANGED runtime
          /\ word' = IF word = "silence" THEN "music" ELSE word
       \/ /\ ~Running("resume") /\ ~priority /\ UNCHANGED priority
          /\ Resume(ops, runtime, "manual", FALSE)
          /\ word' = IF word = "silence" THEN "music" ELSE word
       \/ \E is \in {"pause", "stop"} :
             /\ runtime' = [runtime EXCEPT !.stopped = TRUE]
             /\ Halt(ops, is, "manual", FALSE)
             /\ word' = IF word = "music" THEN "silence" ELSE word
             /\ UNCHANGED priority
       \/ /\ ~priority /\ priority' = TRUE
          /\ Reconcile(ops, runtime, FALSE)
          /\ UNCHANGED word
    /\ UNCHANGED player

(* releaseManualMediaPriority, or the end of the announcements.            *)
Release ==
    /\ priority /\ priority' = FALSE
    /\ Reconcile(ops, runtime, FALSE)
    /\ UNCHANGED <<player, presses, word>>

------------------------------------------------------------------------------
(* The tick                                                                *)

(* Out of hours, what the schedule has started is stopped.                 *)
TickOutside ==
    /\ ~runtime.manual /\ runtime.started # "none"
    /\ Halt(ops, "stop", "schedule", TRUE)
    /\ UNCHANGED <<runtime, word>>

(* A window that is new forgets an operator's stop.  `key` is the window.  *)
TickInside(key) ==
    LET r == IF key # "none" /\ runtime.started # key
             THEN [runtime EXCEPT !.started = key, !.stopped = FALSE] ELSE runtime
    IN /\ key # "none" \/ runtime.manual
       /\ word' = IF r # runtime /\ word = "silence" THEN "music" ELSE word
       /\ IF r.stopped \/ Running("start")
          THEN r # runtime /\ runtime' = r /\ UNCHANGED ops
          ELSE IF priority
               THEN Reconcile(ops, r, TRUE)
               ELSE ops' = ops \cup {Op("tick", "asks", "schedule", FALSE)} /\ runtime' = r

Tick ==
    /\ ~paused /\ ~Running("tick")
    /\ UNCHANGED priority
    /\ TickOutside \/ \E key \in Windows \cup {"none"} : TickInside(key)
    /\ UNCHANGED <<player, presses>>

Quit(W, r) == ops' = Ended(W, TRUE) /\ runtime' = r

(* The recovery of playback, from what was queued or chosen.               *)
Recover(W, r) ==
    \/ r.source \in {"queue", "media"} /\ Resume(W, r, "recover", TRUE)
    \/ /\ r.source # "queue"
       /\ Start(W, IF r.source = "media" THEN "recover" ELSE "schedule", TRUE)
       /\ runtime' = r

(* The player's state was asked for; the answer may be an older one.       *)
TickSees(o, seen) ==
    LET W == ops \ {o}
        observed == [runtime EXCEPT !.playing = (seen = "playing"), !.paused = (seen = "paused")]
    IN CASE ~o.fresh -> Quit(W, runtime)
         [] o.fresh /\ priority -> Reconcile(W, runtime, TRUE)
         [] o.fresh /\ ~priority /\ seen = "missing" -> Quit(W, [runtime EXCEPT !.playing = FALSE])
         [] o.fresh /\ ~priority /\ seen # "missing" /\ runtime.held ->
              Quit(W, runtime) \/ Resume(W, runtime, "priority", TRUE)
         [] OTHER ->
              \* it plays; or it does not yet, or a retry is not due
              \/ Quit(W, IF seen = "playing" THEN [observed EXCEPT !.active = TRUE] ELSE observed)
              \* a track that was chosen is over
              \/ /\ seen # "playing" /\ runtime.manual /\ runtime.source = "media"
                 /\ Quit(W, [observed EXCEPT !.stopped = TRUE, !.manual = FALSE])
              \* it says that it plays, and does not get on
              \/ seen = "playing" /\ Recover(W, [observed EXCEPT !.playing = FALSE])
              \/ seen # "playing" /\ runtime.source # "queue" /\ Recover(W, observed)

------------------------------------------------------------------------------
(* Answers of the music server                                             *)

(* A start or a resumption sends its command if it is the newest, nothing  *)
(* took the room, and the player is there.                                 *)
Adopted(r, why) ==
    IF Adopts(r, why)
    THEN [r EXCEPT !.active = TRUE, !.source = "queue", !.manual = TRUE,
                   !.playing = FALSE, !.paused = FALSE, !.held = FALSE]
    ELSE r

Asked(o, found) ==
    /\ o.is \in {"start", "resume"} /\ o.at = "asks"
    /\ IF o.fresh /\ ~priority /\ found
       THEN /\ ops' = (ops \ {o}) \cup {[o EXCEPT !.at = "plays"]}
            /\ runtime' = IF o.is = "start"
                          THEN [runtime EXCEPT !.active = TRUE, !.source = "media",
                                               !.manual = IF o.why = "recover" THEN @ ELSE o.why = "manual"]
                          ELSE [Adopted(runtime, o.why) EXCEPT !.stopped = @ /\ o.why # "manual"]
       ELSE ops' = Ended(ops \ {o}, o.byTick) /\ UNCHANGED runtime
    /\ UNCHANGED <<player, word>>

(* Play was answered: an older session, or one that priority overtook,     *)
(* silences the player again.                                              *)
Played(o) ==
    LET W == ops \ {o}
    IN /\ o.at = "plays" /\ player' = "playing"
       /\ IF o.fresh /\ ~priority
          THEN /\ runtime' = [runtime EXCEPT !.playing = FALSE, !.paused = FALSE, !.held = FALSE,
                                             !.stopped = @ /\ o.is = "resume"]
               /\ ops' = Ended(W, o.byTick)
          ELSE /\ UNCHANGED runtime
               /\ ops' = IF priority \/ runtime.paused THEN W \cup {[o EXCEPT !.at = "pauses"]}
                         ELSE IF runtime.stopped \/ ~runtime.active THEN W \cup {[o EXCEPT !.at = "stops"]}
                         ELSE Ended(W, o.byTick)
       /\ UNCHANGED word

Silenced(command) ==
    IF command \in {"stop", "stops"} THEN "quiet" ELSE IF player = "playing" THEN "paused" ELSE player

Undone(o) ==
    /\ o.at \in {"pauses", "stops"} /\ player' = Silenced(o.at)
    /\ runtime' = IF o.at = "pauses" /\ runtime.active /\ priority
                  THEN [runtime EXCEPT !.paused = TRUE, !.held = TRUE] ELSE runtime
    /\ ops' = Ended(ops \ {o}, o.byTick)
    /\ UNCHANGED word

(* Pause or stop was answered.                                             *)
Halted(o) ==
    /\ o.at = "commands" /\ player' = Silenced(o.is)
    /\ runtime' = IF ~o.fresh THEN runtime
                  ELSE IF o.is = "pause"
                  THEN [runtime EXCEPT !.playing = FALSE, !.paused = TRUE, !.held = @ \/ o.why = "priority"]
                  ELSE [Idle EXCEPT !.stopped = runtime.stopped,
                                    !.started = IF o.why = "schedule" THEN "none" ELSE runtime.started]
    /\ ops' = Ended(ops \ {o}, o.byTick)
    /\ UNCHANGED word

(* No answer, or a refusal: the operation throws.  The end of the schedule *)
(* is over all the same (backgroundMusicTick).                             *)
Unanswered(o) ==
    /\ o.at \in {"plays", "pauses", "stops", "commands"} \/ o.is = "look"
    /\ player' \in {player, IF o.at = "plays" THEN "playing"
                            ELSE IF o.is = "look" THEN player
                            ELSE Silenced(IF o.at = "commands" THEN o.is ELSE o.at)}
    /\ runtime' = IF o.fresh /\ o.why = "schedule" /\ o.is = "stop"
                  THEN [runtime EXCEPT !.started = "none"] ELSE runtime
    /\ ops' = Ended(ops \ {o}, o.byTick)
    /\ word' = "unknown"

(* The player's state was asked for by a reconciliation.                   *)
Looked(o, seen) ==
    /\ o.is = "look"
    /\ IF o.fresh /\ priority /\ (seen = "playing" \/ runtime.playing)
       THEN /\ Halt(ops \ {o}, "pause", "priority", o.byTick)
            /\ runtime' = IF seen = "playing"
                          THEN [runtime EXCEPT !.playing = TRUE, !.paused = FALSE, !.active = TRUE]
                          ELSE runtime
       ELSE ops' = Ended(ops \ {o}, o.byTick) /\ UNCHANGED runtime
    /\ word' = IF seen = player THEN word ELSE "unknown"
    /\ UNCHANGED player

Step ==
    /\ \E o \in ops :
          \/ \E found \in BOOLEAN : Asked(o, found)
          \/ Played(o) \/ Undone(o) \/ Halted(o) \/ Unanswered(o)
          \/ \E seen \in IF o.at = "joins" THEN Players ELSE {player} : Looked(o, seen)
          \/ /\ o.is = "tick" /\ o.at = "asks"
             /\ UNCHANGED <<player, priority, word>>
             /\ \E seen \in Players \cup {"missing"} : TickSees(o, seen)
    /\ UNCHANGED <<priority, presses>>

------------------------------------------------------------------------------
(* The player ends by itself.                                              *)
PlayerEnds ==
    /\ player = "playing" /\ player' = "quiet"
    /\ UNCHANGED <<runtime, priority, ops, presses, word>>

(* The process ends and starts; the player plays on.                       *)
Restart ==
    /\ runtime' = Idle /\ ops' = {} /\ priority' = FALSE
    /\ word' = IF word = "silence" THEN "music" ELSE word
    /\ UNCHANGED <<player, presses>>

------------------------------------------------------------------------------
Next == Request \/ Release \/ Tick \/ Step \/ PlayerEnds \/ Restart

Spec == Init /\ [][Next]_vars

------------------------------------------------------------------------------
(* Whatever was in flight when an operator asked for silence, or when      *)
(* audio with priority took the room: once the music server has answered   *)
(* it all, nothing plays (backgroundMusicStart, backgroundMusicResume).    *)
LastWordIsQuiet ==
    ops = {} /\ word # "unknown" /\ (priority \/ word = "silence") => player # "playing"

------------------------------------------------------------------------------
(* Why it holds: the inductive invariant of HubServicesProofs.             *)

OpsAreShaped ==
    \A o \in ops :
        /\ o.at \in {"plays", "pauses", "stops"} => o.is \in {"start", "resume"}
        /\ o.at = "commands" => o.is \in {"pause", "stop"}

\* After an operator asked for silence, what was begun before is not fresh, and nothing
\* begins by itself.
SilenceIsKept ==
    word = "silence" =>
        /\ runtime.stopped
        /\ \A o \in ops : o.fresh => o.is \notin {"start", "resume"} /\ (o.is = "tick" => o.at # "asks")

\* What plays although it should not is going to be silenced.
Silences(o) == o.at \in {"commands", "pauses", "stops"}
SilenceIsComing ==
    player = "playing" =>
        /\ word = "silence" => \E o \in ops : Silences(o)
        /\ word # "unknown" /\ priority => \E o \in ops : Silences(o) \/ (o.is = "look" /\ o.fresh)

MusicInv == TypeOK /\ OpsAreShaped /\ SilenceIsKept /\ SilenceIsComing

==============================================================================
