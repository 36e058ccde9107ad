----------------------------- MODULE AllOrNothing -----------------------------
(***************************************************************************)
(* What a change of the appliance promises: nothing is changed before the  *)
(* record on disk says that a change is under way, and what is recorded    *)
(* when it ends is what is deployed, whole.                                *)
(***************************************************************************)
CONSTANTS
    Wholes,   \* the deployments that are whole
    Mixed,    \* any other
    Unknown   \* what the record says while a change is under way

VARIABLES
    deployed,   \* what is deployed
    recorded    \* what the record says is deployed, or Unknown

Init ==
    /\ deployed \in Wholes
    /\ recorded = deployed

Begin ==
    /\ recorded' = Unknown
    /\ UNCHANGED deployed

Change ==
    /\ recorded = Unknown
    /\ deployed' \in Wholes \cup {Mixed}
    /\ UNCHANGED recorded

Settle ==
    /\ deployed \in Wholes
    /\ recorded' = deployed
    /\ UNCHANGED deployed

Next == Begin \/ Change \/ Settle

Spec == Init /\ [][Next]_<<deployed, recorded>>

==============================================================================
