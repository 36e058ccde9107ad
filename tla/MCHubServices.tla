--------------------------- MODULE MCHubServices ---------------------------
(* One product has a release, and it alone is maintained automatically:    *)
(* the two share no state but the catalog and the turn.  Uploads meet an   *)
(* end of the process or an export; after the export they go on as before  *)
(* it, which is not followed again.  Music meets two of requests,          *)
(* takeovers, exports and ends of the process, and is followed until the   *)
(* music server does not answer in time.  Displays, slides and sessions    *)
(* with the WebAPI meet an end of the process or an export; their bounds   *)
(* are in the constraints.                                                 *)
EXTENDS HubServices

OneProduct ==
    \/ released["apollo"] = 0 /\ policy \subseteq {"music", "recover"}
    \/ released["music"] = 0 /\ policy \subseteq Devices

UntilUnanswered ==
    "music" \in used => word # "unknown" /\ presses + exports + restarts <= 2

UntilExported ==
    "uploads" \in used =>
        /\ exports > 0 => paused /\ restarts = 0
        /\ \A u \in Uploads : Len(requests[u]) + Len(fileWork[u]) <= 3

(* Two commands of others than announcements; and no announcement while a  *)
(* display is dedicated, or out of reach.                                  *)
FewCommands ==
    "displays" \in used =>
        /\ exports + restarts <= 1
        /\ Cardinality({n \in DOMAIN kinds : kinds[n] \in {"media", "automation", "text"}}) <= 2
        /\ reserved # {} \/ online # Displays \/ exports + restarts > 0 => \A n \in DOMAIN kinds : kinds[n] # "stream"

FewTasks ==
    "slides" \in used =>
        /\ exports + restarts <= 1 /\ Len(tasks) <= 2
        /\ exports + restarts + taskCount <= MaxTasks

FewSweeps ==
    "lab" \in used =>
        /\ exports = 0
        /\ sweep["timer"] = {} \/ sweep["operator"] = {}
        /\ restarts + callCount + Cardinality({a \in {"timer", "operator"} : sweep[a] # {}}) <= 3

(* A request that owns its session gives it up, although a deletion owns   *)
(* the file it waits for; and an update whose outcome never comes does not *)
(* keep later updates and exports out for ever (locked, active).  There is *)
(* one upload, and one service is used: what is at work is one of the two. *)
AtWork == Updates!Active \/ \E u \in Uploads : job[u].pc # "idle"
WorkEnds == AtWork ~> ~AtWork

==============================================================================
