---------------------------- MODULE RoomServices ----------------------------
(***************************************************************************)
(* Services of the Hub that work on the devices of the classroom: the      *)
(* router of commands to the displays, presentations, and the sessions     *)
(* with the Veyon WebAPI.  Their timers and requests meet the full export  *)
(* as those of the other services do (HubServices).                        *)
(***************************************************************************)
EXTENDS Naturals, FiniteSets, Sequences

CONSTANTS
    Displays, MaxCommands,
    Decks, Slides, MaxTasks,
    Hosts, Calls, MaxSessions, MaxCalls

ASSUME ActorsAreDistinct ==
    Hosts \cap Calls = {} /\ {"timer", "operator"} \cap (Hosts \cup Calls) = {}

VARIABLES
    freeze,     \* fullExportFreeze: "open", "draining" or "frozen"
    content, online, screens, mqtt, lock, phase, reserved, commands, kinds,
    deck, made, builds, live, liveSaved, tasks, todo, screen, held, trusted, unsaved, taskCount,
    cache, health, active, flight, call, sweep, open, hostOf, opened, callCount

displays == <<content, online, screens, mqtt, lock, phase, reserved, commands, kinds>>
slides == <<deck, made, builds, live, liveSaved, tasks, todo, screen, held, trusted, unsaved, taskCount>>
lab == <<cache, health, active, flight, call, sweep, open, hostOf, opened, callCount>>
room == <<displays, slides, lab>>

paused == freeze # "open"

Display == INSTANCE DisplayCommands WITH sent <- kinds
Deck == INSTANCE PresentationSession WITH session <- live, saved <- liveSaved, asked <- taskCount
Veyon == INSTANCE VeyonConnections WITH host <- hostOf, made <- opened, asked <- callCount

RoomInit == Display!Init /\ Deck!Init /\ Veyon!Init

OnlyInRoom(service) ==
    /\ IF service = "displays" THEN TRUE ELSE UNCHANGED displays
    /\ IF service = "slides" THEN TRUE ELSE UNCHANGED slides
    /\ IF service = "lab" THEN TRUE ELSE UNCHANGED lab

==============================================================================
