----------------------------- MODULE FullRecovery -----------------------------
(***************************************************************************)
(* Full recovery of an appliance (full_recovery.py): every root that the   *)
(* archive holds is prepared beside its target, the writers are stopped,   *)
(* and the targets are replaced one after the other, each by two renames.  *)
(* A journal on disk says how far that came; a failure, or the next start  *)
(* of the Host Agent, undoes it from there, or ends it once committed.     *)
(***************************************************************************)
EXTENDS Naturals, Sequences

CONSTANTS
    Targets,    \* the roots, in the order in which they are replaced
    Existing    \* indices of those that existed before

VARIABLES
    journal,    \* journal.json
    status,     \* phase in status.json
    worker,     \* where the worker, or the recovery at startup, is
    target,     \* content of each root
    prepared,   \* content of its prepared copy
    safety,     \* what was moved out of its way
    staging,    \* the extracted archive is there
    writers,    \* core containers and services: as before, stopped or restarted
    lock        \* holder of the appliance mutation lock

roots == <<target, prepared, safety>>
vars == <<journal, status, worker, roots, staging, writers, lock>>

Items == DOMAIN Targets
None == [phase |-> "none", items |-> <<>>]
Idle == [pc |-> "idle", i |-> 0, boot |-> FALSE]

Original(i) == IF i \in Existing THEN "old" ELSE "none"

Init ==
    /\ journal = None /\ status = "idle" /\ worker = Idle
    /\ target = [i \in Items |-> Original(i)]
    /\ prepared = [i \in Items |-> "none"] /\ safety = [i \in Items |-> "none"]
    /\ staging = TRUE /\ writers = "asBefore" /\ lock = "free"

------------------------------------------------------------------------------
(* The worker                                                              *)

At(pc) == worker.pc = pc

Goto(pc, i) == worker' = [worker EXCEPT !.pc = pc, !.i = i]

Fails == Goto("failed", 0)

Phase(phase) == journal' = [journal EXCEPT !.phase = phase]

(* The outcome is written; the worker gives the lock up.  At startup no    *)
(* lock is taken, and a failure ends the process.                          *)
End(phase) ==
    /\ status' = phase
    /\ worker' = IF worker.boot /\ phase = "rollback-failed" THEN [worker EXCEPT !.pc = "exit"] ELSE Idle
    /\ lock' = IF worker.boot THEN lock ELSE "free"

(* start(): no worker, no journal, and a staged archive that is valid; an  *)
(* appliance is recovered at most once, a bound of the model.              *)
Start ==
    /\ At("idle") /\ journal = None
    /\ \A i \in Items : target[i] = Original(i)
    /\ status' = "queued" /\ staging' = TRUE
    /\ worker' = [pc |-> "queued", i |-> 0, boot |-> FALSE]
    /\ UNCHANGED <<journal, roots, writers, lock>>

(* The handoff was acknowledged, or not; another mutation may be running.  *)
Begin ==
    /\ At("queued")
    /\ \/ /\ lock = "free"
          /\ lock' = "recovery" /\ Goto("preflight", 0)
          /\ UNCHANGED <<status, staging>>
       \/ lock # "free" /\ status' = "failed" /\ worker' = Idle /\ UNCHANGED <<lock, staging>>
       \/ staging' = FALSE /\ status' = "failed" /\ worker' = Idle /\ UNCHANGED lock
    /\ UNCHANGED <<journal, roots, writers>>

(* Capacity; the state to come back to is journaled before the first stop. *)
Preflight ==
    /\ At("preflight")
    /\ \/ status' = "quiescing" /\ journal' = [phase |-> "quiescing", items |-> <<>>] /\ Goto("quiesce", 0)
       \/ status' = "preflight" /\ UNCHANGED journal /\ Fails
    /\ UNCHANGED <<roots, staging, writers, lock>>

(* Every writer is stopped; the staged archive is validated again.         *)
Quiesce ==
    /\ At("quiesce")
    /\ \/ writers' = "stopped" /\ Phase("snapshot") /\ Goto("prepare", 1)
       \/ writers' \in {"asBefore", "stopped"} /\ UNCHANGED journal /\ Fails
    /\ UNCHANGED <<status, roots, staging, lock>>

(* _prepare_swap: leftovers are removed, the item is journaled, the root   *)
(* is copied, and the journal is written again.                            *)
Record(i) == [existed |-> target[i] # "none", activating |-> FALSE, activated |-> FALSE]

Prepare ==
    /\ At("prepare")
    /\ IF worker.i > Len(Targets)
       THEN Phase("prepared") /\ Goto("activate", 1) /\ UNCHANGED <<prepared, safety>>
       ELSE /\ prepared' = [prepared EXCEPT ![worker.i] = "none"]
            /\ safety' = [safety EXCEPT ![worker.i] = "none"]
            /\ journal' = [journal EXCEPT !.items = Append(@, Record(worker.i))]
            /\ Goto("copy", worker.i)
    /\ UNCHANGED <<status, target, staging, writers, lock>>

Copy ==
    /\ At("copy")
    /\ \/ prepared' = [prepared EXCEPT ![worker.i] = "new"] /\ Goto("prepare", worker.i + 1)
       \/ prepared' = [prepared EXCEPT ![worker.i] = "part"] /\ worker' \in {worker, [worker EXCEPT !.pc = "failed"]}
    /\ UNCHANGED <<journal, status, target, safety, staging, writers, lock>>

(* Each item is marked, replaced by two renames, and marked again.         *)
Activate ==
    /\ At("activate")
    /\ IF worker.i > Len(Targets)
       THEN Phase("activated") /\ Goto("restart", 0)
       ELSE journal' = [journal EXCEPT !.items[worker.i].activating = TRUE] /\ Goto("moveAway", worker.i)
    /\ UNCHANGED <<status, roots, staging, writers, lock>>

MoveAway ==
    /\ At("moveAway")
    /\ IF target[worker.i] # "none"
       THEN /\ safety' = [safety EXCEPT ![worker.i] = target[worker.i]]
            /\ target' = [target EXCEPT ![worker.i] = "none"]
       ELSE UNCHANGED <<safety, target>>
    /\ Goto("moveIn", worker.i) \/ Fails
    /\ UNCHANGED <<journal, status, prepared, staging, writers, lock>>

MoveIn ==
    /\ At("moveIn")
    /\ target' = [target EXCEPT ![worker.i] = prepared[worker.i]]
    /\ prepared' = [prepared EXCEPT ![worker.i] = "none"]
    /\ Goto("activated", worker.i) \/ Fails
    /\ UNCHANGED <<journal, status, safety, staging, writers, lock>>

Activated ==
    /\ At("activated")
    /\ journal' = [journal EXCEPT !.items[worker.i] = [@ EXCEPT !.activated = TRUE, !.activating = FALSE]]
    /\ Goto("activate", worker.i + 1)
    /\ UNCHANGED <<status, roots, staging, writers, lock>>

(* Permissions, a new start of the writers, and their health.              *)
Restart ==
    /\ At("restart")
    /\ \/ writers' = "restarted" /\ Phase("committed") /\ Goto("clean", 0)
       \/ writers' \in {"stopped", "restarted"} /\ UNCHANGED journal /\ Fails
    /\ UNCHANGED <<status, roots, staging, lock>>

------------------------------------------------------------------------------
(* After the commit                                                        *)

(* The staged archive, then the copies are removed; at startup the archive *)
(* goes last.                                                              *)
CleanUp ==
    /\ At("clean")
    /\ staging' = FALSE
    /\ Goto("discard", 1) \/ Fails
    /\ UNCHANGED <<journal, status, roots, writers, lock>>

Discard ==
    /\ At("discard") /\ worker.i <= Len(journal.items)
    /\ safety' = [safety EXCEPT ![worker.i] = "none"]
    /\ prepared' = [prepared EXCEPT ![worker.i] = "none"]
    /\ Goto("discard", worker.i + 1) \/ Fails
    /\ UNCHANGED <<journal, status, target, staging, writers, lock>>

Unlink ==
    /\ At("discard") /\ worker.i > Len(journal.items)
    /\ journal' = None /\ Goto("completed", 0)
    /\ staging' = (staging /\ ~worker.boot)
    /\ UNCHANGED <<status, roots, writers, lock>>

Completed ==
    /\ At("completed")
    /\ End("completed")
    /\ UNCHANGED <<journal, roots, staging, writers>>

------------------------------------------------------------------------------
(* Failure and rollback                                                    *)

(* What an exception leads to: a committed recovery stays, one that has a  *)
(* journal is rolled back, any other has changed nothing.                  *)
Failed ==
    /\ At("failed")
    /\ CASE journal.phase = "committed" ->
              IF worker.boot THEN End("rollback-failed") /\ UNCHANGED staging
              ELSE End("completed") /\ UNCHANGED staging
         [] journal.phase \notin {"none", "committed"} ->
              Goto("stop", 0) /\ UNCHANGED <<status, lock, staging>>
         [] journal.phase = "none" ->
              End("failed") /\ staging' = FALSE
    /\ UNCHANGED <<journal, roots, writers>>

StopWriters ==
    /\ At("stop")
    /\ \/ writers' = "stopped" /\ Goto("undo", Len(journal.items)) /\ UNCHANGED <<status, lock>>
       \/ writers' \in {writers, "stopped"} /\ End("rollback-failed")
    /\ UNCHANGED <<journal, roots, staging>>

OnlyActivated(i) ==
    /\ journal.items[i].activated
    /\ IF journal.items[i].existed THEN safety[i] # "none" ELSE prepared[i] = "none"
(* The last item first.  Which files exist says which renames were made.   *)
Changed(i) ==
    /\ journal.items[i].activated \/ journal.items[i].activating
    /\ IF journal.items[i].existed THEN safety[i] # "none" ELSE prepared[i] = "none"

Undo ==
    /\ At("undo")
    /\ CASE worker.i = 0 -> Goto("reconcile", 0) /\ UNCHANGED target
         [] worker.i > 0 /\ Changed(worker.i) ->
              \* the target is removed, maybe only a part of it
              \/ target' = [target EXCEPT ![worker.i] = "none"] /\ Goto("putBack", worker.i)
              \/ target[worker.i] # "none" /\ target' = [target EXCEPT ![worker.i] = "part"] /\ UNCHANGED worker
         [] worker.i > 0 /\ ~Changed(worker.i) ->
              Goto("dropCopy", worker.i) /\ UNCHANGED target
    /\ UNCHANGED <<journal, status, prepared, safety, staging, writers, lock>>

PutBack ==
    /\ At("putBack")
    /\ IF journal.items[worker.i].existed
       THEN /\ target' = [target EXCEPT ![worker.i] = safety[worker.i]]
            /\ safety' = [safety EXCEPT ![worker.i] = "none"]
       ELSE UNCHANGED <<target, safety>>
    /\ Goto("dropCopy", worker.i)
    /\ UNCHANGED <<journal, status, prepared, staging, writers, lock>>

DropCopy ==
    /\ At("dropCopy")
    /\ prepared' = [prepared EXCEPT ![worker.i] = "none"]
    /\ \/ Goto("undo", worker.i - 1) /\ UNCHANGED <<status, lock>>
       \/ End("rollback-failed")
    /\ UNCHANGED <<journal, target, safety, staging, writers>>

(* The prior services are started again, and the journal is removed.       *)
Reconcile ==
    /\ At("reconcile")
    /\ \/ writers' = "asBefore" /\ journal' = None /\ Goto("rolledBack", 0) /\ UNCHANGED <<status, lock>>
       \/ writers' \in {writers, "asBefore"} /\ UNCHANGED journal /\ End("rollback-failed")
    /\ UNCHANGED <<roots, staging>>

RolledBack ==
    /\ At("rolledBack")
    /\ staging' = FALSE
    /\ End("rolled-back")
    /\ UNCHANGED <<journal, roots, writers>>

(* startup_recover(): a journal was found.                                 *)
StartupRecover ==
    /\ At("idle") /\ journal # None
    /\ status' = "rollback"
    /\ worker' = IF journal.phase = "committed" THEN [pc |-> "discard", i |-> 1, boot |-> TRUE]
                 ELSE [pc |-> "stop", i |-> 0, boot |-> TRUE]
    /\ UNCHANGED <<journal, roots, staging, writers, lock>>

Killed ==
    /\ worker' = Idle
    /\ UNCHANGED <<journal, status, roots, staging, writers>>

------------------------------------------------------------------------------
Step ==
    \/ Begin \/ Preflight \/ Quiesce \/ Prepare \/ Copy \/ Activate \/ MoveAway \/ MoveIn \/ Activated
    \/ Restart \/ CleanUp \/ Discard \/ Unlink \/ Completed
    \/ Failed \/ StopWriters \/ Undo \/ PutBack \/ DropCopy \/ Reconcile \/ RolledBack

------------------------------------------------------------------------------
AllOld == \A i \in Items : target[i] = Original(i)
AllNew == \A i \in Items : target[i] = "new"

(* Until the new roots are committed every root that existed is there, or  *)
(* what was moved out of its way is, whatever was interrupted and however  *)
(* often the rollback is tried; and the writers run only when the roots    *)
(* are all the old or all the new ones (_activate_swap, _rollback).        *)
NothingIsLost ==
    /\ \/ \A i \in Existing : target[i] = "old" \/ safety[i] = "old"
       \/ AllNew /\ writers = "restarted" /\ journal.phase \in {"committed", "none"}
    /\ writers # "stopped" => AllOld \/ AllNew

Deployed == IF AllOld THEN "old" ELSE IF AllNew THEN "new" ELSE "mixed"

(* What is recorded: the journal, and without one the status.              *)
Recorded ==
    CASE journal.phase = "committed" \/ (journal = None /\ status = "completed") -> "new"
      [] journal = None /\ status \in {"idle", "failed", "rolled-back"} -> "old"
      [] OTHER -> "unknown"

Change == INSTANCE AllOrNothing WITH
    Wholes <- {"old", "new"}, Mixed <- "mixed", Unknown <- "unknown", deployed <- Deployed, recorded <- Recorded

==============================================================================
