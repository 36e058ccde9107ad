---------------------------- MODULE HubServices ----------------------------
(***************************************************************************)
(* Services of the Hub that keep state of their own (server.js wires them  *)
(* together): uploads, the grading of writing, maintenance of Music        *)
(* Assistant and of Apollo devices, the sports workspace, background       *)
(* music, and those of the devices (RoomServices).  They share the         *)
(* process, which may end at any time, and the full export, which stops    *)
(* new work and waits for what is in flight before it copies the data      *)
(* (export-freeze).                                                        *)
(***************************************************************************)
EXTENDS RoomServices

CONSTANTS
    Uploads, Chunks, Quota, MaxRequests,
    Graders, MaxEdits, MaxReplies,
    Devices, MaxVersion,
    Sources, MaxSaves, MaxData,
    Windows, MaxPresses,
    Services,      \* the services that are considered
    MaxUsed,       \* how many of them one classroom uses, a bound of the model
    MaxChanges,    \* requests to the updates, a bound of the model
    MaxExports,    \* full exports, a bound of the model
    MaxRestarts    \* ends of the process, a bound of the model

ASSUME UploadsAssumption ==
    IsFiniteSet(Uploads) /\ IsFiniteSet(Chunks) /\ Chunks # {} /\ Quota \in Nat
ASSUME NamesAreDistinct ==
    "off" \notin Graders /\ "music" \notin Devices /\ "recover" \notin Devices
ASSUME BoundsAssumption ==
    {MaxVersion, MaxEdits, MaxReplies, MaxSaves, MaxData, MaxPresses, MaxCommands, MaxSessions} \subseteq Nat

VARIABLES
    session, parts, expired, file, record, requests, job, fileWork, added, asked,
    writing, pending, review, grading, ai, accepted,
    saved, aged, policy, catalog, install, tick, hostRunning, recovering,
    released, firmware, flash, host, sent, tried,
    stored, config, statuses, refresh, page, newest,
    player, runtime, priority, ops, presses, word,
    used,       \* the services that this classroom uses
    changes, exports, restarts   \* how many there were

uploads == <<session, parts, expired, file, record, requests, job, fileWork, added, asked>>
learning == <<writing, pending, review, grading, ai, accepted>>
updates == <<saved, aged, policy, catalog, install, tick, hostRunning, recovering,
             released, firmware, flash, host, sent, tried>>
sports == <<stored, config, statuses, refresh, page, newest>>
music == <<player, runtime, priority, ops, presses, word>>
bounds == <<changes, exports, restarts>>
vars == <<uploads, learning, updates, sports, music, room, freeze, used, bounds>>

Upload == INSTANCE ResumableUpload
Learning == INSTANCE LearningReview WITH job <- grading
Updates == INSTANCE IntegrationUpdates
Sports == INSTANCE SportsService
Music == INSTANCE BackgroundMusic

Init ==
    /\ Upload!Init /\ Learning!Init /\ Updates!Init /\ Sports!Init /\ Music!Init
    /\ RoomInit
    /\ freeze = "open"
    /\ used \in {U \in SUBSET Services : Cardinality(U) <= MaxUsed}
    /\ "learning" \in used \/ ai = "off"
    /\ "updates" \in used \/ policy = {}
    /\ changes = 0 /\ exports = 0 /\ restarts = 0

Only(service) ==
    /\ service \in used
    /\ IF service = "uploads" THEN TRUE ELSE UNCHANGED uploads
    /\ IF service = "learning" THEN TRUE ELSE UNCHANGED learning
    /\ IF service = "updates" THEN TRUE ELSE UNCHANGED updates
    /\ IF service = "sports" THEN TRUE ELSE UNCHANGED sports
    /\ IF service = "music" THEN TRUE ELSE UNCHANGED music
    /\ OnlyInRoom(service)
    /\ UNCHANGED <<freeze, used, exports, restarts>>

------------------------------------------------------------------------------
(* Requests that change something are refused while an export is asked for *)
(* or made (fullExportHttpMutation).                                       *)
UploadRequest ==
    /\ Only("uploads") /\ ~paused
    /\ \E u \in Uploads :
          \/ Upload!Create(u)
          \/ \E r \in Upload!Requests : Upload!Accept(u, r)
          \/ \E kind \in {"delete", "convert"} : Upload!AcceptFileWork(u, kind)
    /\ UNCHANGED changes

LearningRequest == Only("learning") /\ ~paused /\ Learning!Request /\ UNCHANGED changes

UpdatesRequest ==
    /\ Only("updates") /\ changes < MaxChanges
    /\ Updates!Request
    /\ changes' = changes + 1

SportsRequest == Only("sports") /\ ~paused /\ Sports!Request /\ UNCHANGED changes

DisplaysRequest == Only("displays") /\ (Display!Request \/ Display!Announcements) /\ UNCHANGED changes
SlidesRequest == Only("slides") /\ Deck!Request /\ UNCHANGED changes
LabRequest == Only("lab") /\ Veyon!Request /\ UNCHANGED changes

MusicRequest == Only("music") /\ ~paused /\ (Music!Request \/ Music!Release) /\ UNCHANGED changes

------------------------------------------------------------------------------
(* Work in flight goes on, export or not; timers begin new work only while *)
(* no export is asked for.  The timer that removes expired uploads does    *)
(* not ask.                                                                *)
UploadStep == Only("uploads") /\ (\E u \in Uploads : Upload!RequestStep(u)) /\ UNCHANGED changes
FileStep == Only("uploads") /\ (\E u \in Uploads : Upload!FileStep(u)) /\ UNCHANGED changes
UploadCleanup == Only("uploads") /\ Upload!Cleanup /\ UNCHANGED changes

GradingTimer == Only("learning") /\ ~paused /\ Learning!Timer /\ UNCHANGED changes
GradingStep == Only("learning") /\ Learning!Step /\ UNCHANGED changes

UpdatesTimer == Only("updates") /\ Updates!Timer /\ UNCHANGED changes
TickStep == Only("updates") /\ Updates!TickStep /\ UNCHANGED changes
InstallStep == Only("updates") /\ Updates!InstallStep /\ UNCHANGED changes

SportsTimer == Only("sports") /\ Sports!Start /\ UNCHANGED changes
SportsStep == Only("sports") /\ Sports!Step /\ UNCHANGED changes

MusicTimer == Only("music") /\ Music!Tick /\ UNCHANGED changes
MusicStep == Only("music") /\ Music!Step /\ UNCHANGED changes

DisplaysStep == Only("displays") /\ Display!Step /\ UNCHANGED changes

SlidesTimer == Only("slides") /\ Deck!Tick /\ UNCHANGED changes
SlidesStep == Only("slides") /\ (Deck!Step \/ Deck!Renders) /\ UNCHANGED changes

LabTimer == Only("lab") /\ Veyon!Timer /\ UNCHANGED changes
LabStep == Only("lab") /\ Veyon!Step /\ UNCHANGED changes

(* Time, devices and the Host Agent.                                       *)
Elapse ==
    \/ Only("uploads") /\ (\E u \in Uploads : Upload!Expire(u)) /\ UNCHANGED changes
    \/ Only("learning") /\ Learning!Due /\ UNCHANGED changes
    \/ Only("slides") /\ Deck!Elapse /\ UNCHANGED changes
    \/ Only("lab") /\ Veyon!Outside /\ UNCHANGED changes
Outside ==
    \/ Only("updates") /\ Updates!Outside /\ UNCHANGED changes
    \/ Only("music") /\ Music!PlayerEnds /\ UNCHANGED changes
    \/ Only("displays") /\ Display!Receivers /\ UNCHANGED changes
    \/ Only("slides") /\ Deck!Others /\ UNCHANGED changes

------------------------------------------------------------------------------
(* The full export                                                         *)

Quiet == UNCHANGED <<uploads, learning, updates, sports, music, room, used, changes, restarts>>

DrainedEarly ==
    /\ \A u \in Uploads : requests[u] = <<>> /\ fileWork[u] = <<>>
    /\ grading = Learning!None
    /\ ~Updates!Active /\ tick = "off"

(* What drained() looks at, of these services: their requests, and the     *)
(* work that trackFullExportMutation counts.                               *)
Drained ==
    /\ \A u \in Uploads : requests[u] = <<>> /\ fileWork[u] = <<>>
    /\ grading = Learning!None
    /\ ~Updates!Active /\ tick = "off"
    /\ refresh = Sports!None /\ ops = {}
    /\ commands = {} /\ tasks = <<>> /\ builds = {}

AskExport ==
    /\ freeze = "open" /\ freeze' = "draining"
    /\ exports < MaxExports /\ exports' = exports + 1
    /\ Quiet

(* After thirty seconds the export gives up.                               *)
ExportAnswered ==
    /\ freeze = "draining"
    /\ freeze' = IF Drained THEN "frozen" ELSE "open"
    /\ UNCHANGED exports /\ Quiet

(* export-thaw, or the end of the lease (clearFullExportFreeze).           *)
Thaw ==
    /\ freeze = "frozen" /\ freeze' = "open"
    /\ UNCHANGED exports /\ Quiet

Restart ==
    /\ restarts < MaxRestarts /\ restarts' = restarts + 1
    /\ Upload!Restart /\ Learning!Restart /\ Updates!Restart /\ Sports!Restart /\ Music!Restart
    /\ Display!Restart /\ Deck!Restart /\ Veyon!Restart
    /\ freeze' = "open"
    /\ UNCHANGED <<used, changes, exports>>

------------------------------------------------------------------------------
Requests ==
    \/ UploadRequest \/ LearningRequest \/ UpdatesRequest \/ SportsRequest \/ MusicRequest
    \/ DisplaysRequest \/ SlidesRequest \/ LabRequest \/ AskExport
Timers == UploadCleanup \/ GradingTimer \/ UpdatesTimer \/ SportsTimer \/ MusicTimer \/ SlidesTimer \/ LabTimer
Steps ==
    \/ UploadStep \/ FileStep \/ GradingStep \/ TickStep \/ InstallStep \/ SportsStep \/ MusicStep
    \/ DisplaysStep \/ SlidesStep \/ LabStep
    \/ ExportAnswered \/ Thaw

Next == Requests \/ Timers \/ Steps \/ Elapse \/ Outside \/ Restart

Spec == Init /\ [][Next]_vars

(* What is in flight goes on: bodies end or connections are closed, and    *)
(* every wait for another program has a deadline.  The tick of updates is  *)
(* made every thirty seconds, deliveries grow old, and the Host Agent's    *)
(* work ends; the Host Agent, a supervised service, answers now and then.  *)
Fairness ==
    /\ WF_vars(UploadStep) /\ WF_vars(FileStep)
    /\ WF_vars(InstallStep) /\ WF_vars(TickStep) /\ WF_vars(UpdatesTimer)
    /\ SF_vars(Only("updates") /\ Updates!TickJob(TRUE) /\ UNCHANGED changes)
    /\ WF_vars(Only("updates") /\ (Updates!HostEnds \/ \E d \in Devices : Updates!Age(d)) /\ UNCHANGED changes)
    /\ WF_vars(ExportAnswered \/ Thaw)

FairSpec == Spec /\ Fairness

------------------------------------------------------------------------------
(* The store keeps the chunks that it acknowledged until the upload is     *)
(* registered or deleted, and counts what is on disk; an upload is listed  *)
(* at most once, and goes only for good and on demand (ResumableUpload).   *)
UploadsAreKept == []Upload!PartsAreAccounted /\ Upload!KeepsLibraryPromise

(* Firmware with an uncertain outcome is not sent again, and no release is *)
(* tried twice by itself (IntegrationUpdates).                             *)
UncertainWorkIsNotRepeated == Updates!UncertainWorkIsNotRepeated

(* What was asked for earlier does not replace what was saved later: a     *)
(* grade is for the writing as it is, an operator's edit outlives the      *)
(* refresh that was in flight, pages that are out of date are refused; and *)
(* music that was being started when silence was asked for does not play.  *)
NewerWorkIsKept ==
    /\ Learning!GradesAreOfThisWriting
    /\ Sports!EditsSurvive
    /\ []Music!LastWordIsQuiet

(* What the displays show is what their owners, and the session of the     *)
(* slides, want (DisplayCommands, PresentationSession).                    *)
DisplaysShowWhatTheyShould ==
    /\ Display!OwnersAreRespected /\ Deck!AdvancesInTime
    /\ [](Display!ReceiversFollow /\ Deck!SlideIsShown /\ Deck!SessionHasDeck)

(* Sessions with the WebAPI are neither lost nor taken from who uses them  *)
(* (VeyonConnections).                                                     *)
SessionsAreKept == []Veyon!NoOrphans /\ Veyon!InUseIsKept

(* While the export copies the data, no service changes what it has saved, *)
(* but for the timer that removes expired uploads.                         *)
Durable ==
    <<file, record, session, parts,
      writing, review, ai, IF pending = Learning!None THEN pending ELSE [pending EXCEPT !.ready = TRUE],
      saved, policy, stored, statuses,
      content, reserved, deck, made, liveSaved>>

ExportedDataIsStill ==
    [][freeze = "frozen" /\ freeze' = "frozen" => UNCHANGED Durable \/ UploadCleanup]_vars

------------------------------------------------------------------------------
(* Why these hold: the inductive invariant of HubServicesProofs.           *)

\* What the export waited for has ended, and nothing has begun since.
FrozenIsDrained == freeze = "frozen" => Drained

ServicesInv ==
    /\ Upload!UploadsInv /\ Learning!TypeOK /\ Updates!UpdatesInv /\ Sports!SportsInv /\ Music!MusicInv
    /\ Display!DisplaysInv /\ Deck!SlidesInv /\ Veyon!PoolInv
    /\ FrozenIsDrained

==============================================================================
