----------------------------- MODULE LibraryItem -----------------------------
(***************************************************************************)
(* What the media library promises of each upload: its item is added at    *)
(* most once and, once listed, is removed only if an operator asked for    *)
(* that, and never comes back.                                             *)
(***************************************************************************)
CONSTANT Uploads

VARIABLES
    item,   \* "never" listed yet, "listed", or "gone"
    asked   \* an operator has asked to delete it

Init ==
    /\ item = [u \in Uploads |-> "never"]
    /\ asked = [u \in Uploads |-> FALSE]

Ask(u) ==
    /\ asked' = [asked EXCEPT ![u] = TRUE]
    /\ UNCHANGED item

Add(u) ==
    /\ item[u] = "never"
    /\ item' = [item EXCEPT ![u] = "listed"]
    /\ UNCHANGED asked

Drop(u) ==
    /\ item[u] = "listed" /\ asked[u]
    /\ item' = [item EXCEPT ![u] = "gone"]
    /\ UNCHANGED asked

Next == \E u \in Uploads : Ask(u) \/ Add(u) \/ Drop(u)

Spec == Init /\ [][Next]_<<item, asked>>

==============================================================================
