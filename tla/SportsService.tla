--------------------------- MODULE SportsService ---------------------------
(***************************************************************************)
(* The sports workspace (sports-service.js): one saved configuration that  *)
(* operators edit and undo, and that a refresh fills with what the         *)
(* providers publish.  A refresh awaits each provider in turn; operators   *)
(* save while it does.                                                     *)
(***************************************************************************)
EXTENDS Naturals

CONSTANTS
    Sources,    \* approved sources of the teams
    MaxSaves,   \* saves and undos, a bound of the model
    MaxData     \* versions that a provider publishes, a bound of the model

VARIABLES
    paused,     \* a full export has asked for quiet (canRun)
    stored,     \* the saved configuration, and the one that undo restores
    config,     \* the configuration in memory
    statuses,   \* outcome of the last fetch of each source, as saved
    refresh,    \* the refresh in flight
    page,       \* the configuration that an operator has open
    newest      \* history: the operators' content that was acknowledged last

vars == <<stored, config, statuses, refresh, page, newest>>

Configs == [revision : Nat, edit : 0..MaxSaves, data : [Sources -> 0..MaxData]]
None == [is |-> "none"]
Outcomes == {"none", "ready", "unavailable"}
Refreshes == [is : {"refresh"}, revision : Nat, edit : 0..MaxSaves, working : [Sources -> 0..MaxData],
              changed : BOOLEAN, status : [Sources -> Outcomes], todo : SUBSET Sources]

TypeOK ==
    /\ stored \in [now : Configs, previous : Configs \cup {None}]
    /\ config \in Configs /\ page \in Configs
    /\ statuses \in [Sources -> Outcomes]
    /\ refresh \in Refreshes \cup {None}
    /\ newest \in [edit : 0..MaxSaves, saves : 0..MaxSaves]

Empty == [revision |-> 0, edit |-> 0, data |-> [s \in Sources |-> 0]]

Init ==
    /\ stored = [now |-> Empty, previous |-> None]
    /\ config = Empty /\ page = Empty
    /\ statuses = [s \in Sources |-> "none"]
    /\ refresh = None
    /\ newest = [edit |-> 0, saves |-> 0]

------------------------------------------------------------------------------
(* commit(): the next revision is saved, then published in memory.         *)
Commit(edit, data, remember) ==
    LET next == [revision |-> config.revision + 1, edit |-> edit, data |-> data]
    IN /\ stored' = [now |-> next, previous |-> IF remember THEN config ELSE stored.previous]
       /\ config' = next

Open ==
    /\ page' = config
    /\ UNCHANGED <<stored, config, statuses, refresh, newest>>

(* save(): the whole workspace as the operator has it, if it is still the  *)
(* current one.                                                            *)
Save ==
    /\ newest.saves < MaxSaves
    /\ page.revision = config.revision
    /\ newest' = [edit |-> newest.saves + 1, saves |-> newest.saves + 1]
    /\ Commit(newest'.edit, page.data, TRUE)
    /\ page' = config'
    /\ UNCHANGED <<statuses, refresh>>

(* undo(): what was there before the last save, as a revision of its own.  *)
Undo ==
    /\ newest.saves < MaxSaves
    /\ page.revision = config.revision /\ stored.previous # None
    /\ newest' = [edit |-> stored.previous.edit, saves |-> newest.saves + 1]
    /\ Commit(stored.previous.edit, stored.previous.data, TRUE)
    /\ page' = config'
    /\ UNCHANGED <<statuses, refresh>>

------------------------------------------------------------------------------
(* refresh(): one at a time, on a copy.                                    *)
Start ==
    /\ ~paused /\ refresh = None
    /\ refresh' = [is |-> "refresh", revision |-> config.revision, edit |-> config.edit,
                   working |-> config.data, changed |-> FALSE, status |-> statuses, todo |-> Sources]
    /\ UNCHANGED <<stored, config, statuses, page, newest>>

FinishLast(r, n) ==
    /\ IF n > 0 /\ r.changed
       THEN Commit(r.edit, r.working, FALSE)
       ELSE UNCHANGED <<stored, config>>
    /\ statuses' = IF n = 2 THEN r.status ELSE statuses
    /\ refresh' = None

(* The end: an operator's edit is never overwritten; what was fetched for  *)
(* the older configuration is dropped.  The outcomes are saved after it;   *)
(* the database may refuse either (n is how many writes were made).        *)
Finish(r, n) ==
    /\ IF n > 0 /\ r.changed /\ config.revision = r.revision
       THEN Commit(r.edit, r.working, FALSE)
       ELSE UNCHANGED <<stored, config>>
    /\ statuses' = IF n = 2 THEN r.status ELSE statuses
    /\ refresh' = None

(* A provider answered: with news, with what is known, or not at all; what *)
(* it gave is taken as a whole or not.  After the last one, or when the    *)
(* Hub is to be quiet, the refresh ends without another await.             *)
Fetched(s, outcome, n) ==
    /\ refresh # None /\ s \in refresh.todo
    /\ outcome = "news" => refresh.working[s] < MaxData
    /\ LET r == [refresh EXCEPT
                   !.working[s] = IF outcome = "news" THEN @ + 1 ELSE @,
                   !.changed = @ \/ outcome = "news",
                   !.status[s] = IF outcome = "failed" THEN "unavailable" ELSE "ready",
                   !.todo = IF paused THEN {} ELSE @ \ {s}]
       IN IF r.todo = {} THEN Finish(r, n)
          ELSE n = 2 /\ refresh' = r /\ UNCHANGED <<stored, config, statuses>>
    /\ UNCHANGED <<page, newest>>

Restart ==
    /\ config' = stored.now
    /\ refresh' = None
    /\ UNCHANGED <<stored, statuses, page, newest>>

------------------------------------------------------------------------------
Request == Open \/ Save \/ Undo
Step ==
    \E s \in Sources, outcome \in {"news", "same", "failed"}, n \in 0..2 :
        Fetched(s, outcome, n)

------------------------------------------------------------------------------
(* The workspace holds what an operator was last told is saved, and what a *)
(* provider published goes back only when an operator undoes: neither a    *)
(* refresh in flight nor a page that is out of date brings back older      *)
(* content (save, undo, refresh).                                          *)
EditsSurvive ==
    [][/\ config'.edit = newest'.edit
       /\ (\E s \in Sources : config'.data[s] < config.data[s]) =>
             newest' # newest /\ config'.data = stored.previous.data]_<<config, stored, newest>>

------------------------------------------------------------------------------
(* Why it holds: the inductive invariant of HubServicesProofs.             *)

\* What is in memory is what is saved, and has the content acknowledged last.
NewestIsSaved == stored.now = config /\ config.edit = newest.edit

\* A page that is not out of date shows what the providers published.
PageIsBehind ==
    /\ page.revision <= config.revision
    /\ page.revision = config.revision => page.data = config.data

\* A refresh of the current configuration has its content, and nothing that is older.
RefreshIsBehind ==
    refresh # None =>
        /\ refresh.revision <= config.revision
        /\ refresh.revision = config.revision =>
             refresh.edit = config.edit /\ \A s \in Sources : config.data[s] <= refresh.working[s]

SportsInv == TypeOK /\ NewestIsSaved /\ PageIsBehind /\ RefreshIsBehind

==============================================================================
