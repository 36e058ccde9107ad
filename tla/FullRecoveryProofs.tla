------------------------- MODULE FullRecoveryProofs --------------------------
(****************************************************************************)
(* A full recovery (full_recovery.py) loses no root, wherever it stops,     *)
(* and is all or nothing. Each root is replaced by two renames, and there   *)
(* are any number of roots: the invariant says of every root what its two   *)
(* marks in the journal, and the files that exist, tell the rollback. It    *)
(* holds for a worker at any step and for the next start, which finds only  *)
(* the journal and the files.                                               *)
(****************************************************************************)
EXTENDS FullRecovery, TLAPS

\* At least one root is recovered.
Roots == Targets \in Seq(STRING) /\ Targets # <<>> /\ Existing \subseteq Items

\* The recovery alone, under a lock that is anybody's.
Next == Start \/ Step \/ StartupRecover \/ Killed

\* What the invariant is about: not the lock.
state == <<journal, status, worker, roots, staging, writers>>

Spec == Init /\ [][Next]_state

N == Len(Targets)
K == Len(journal.items)

Phases == {"none", "quiescing", "snapshot", "prepared", "activated", "committed"}
Contents == {"none", "part", "old", "new"}
Records == [existed : BOOLEAN, activating : BOOLEAN, activated : BOOLEAN]
Journals == [phase : Phases, items : Seq(Records)]

Activating == {"activate", "moveAway", "moveIn", "activated"}
Undoing == {"undo", "putBack", "dropCopy", "reconcile"}
PCs ==
    {"idle", "queued", "preflight", "quiesce", "prepare", "copy", "restart", "clean", "discard",
     "completed", "failed", "stop", "rolledBack", "exit"} \cup Activating \cup Undoing
Workers == [pc : PCs, i : Nat, boot : BOOLEAN]

\* The types of the state.
TypeOK ==
    /\ journal \in Journals
    /\ worker \in Workers
    /\ target \in [Items -> Contents] /\ prepared \in [Items -> Contents] /\ safety \in [Items -> Contents]
    /\ writers \in {"asBefore", "stopped", "restarted"}

\* No more items than roots.
JournalIsShort ==
    /\ journal.phase = "none" => journal = None
    /\ K <= N

\* A recovery that would be rolled back.
Uncommitted == journal.phase \notin {"none", "committed"}

\* An item that may have been renamed.
Marked(i) == journal.items[i].activating \/ journal.items[i].activated

\* What is left of a root that is journaled, wherever the worker stopped.
Rooted(i) ==
    /\ journal.items[i].existed <=> i \in Existing
    /\ ~Marked(i) => target[i] = Original(i) /\ safety[i] = "none"
    /\ i \in Existing => safety[i] = "old" \/ (safety[i] = "none" /\ target[i] = "old")
    /\ i \notin Existing => safety[i] = "none" /\ (prepared[i] # "none" => target[i] = "none")

RootsAreKept ==
    Uncommitted => \A i \in Items : IF i <= K THEN Rooted(i) ELSE target[i] = Original(i)

\* When the roots are all of one kind.
RootsAreWhole ==
    /\ journal.phase = "committed" => AllNew /\ writers = "restarted"
    /\ journal.phase = "none" => AllOld \/ (AllNew /\ writers = "restarted")
    /\ writers # "stopped" => AllOld \/ AllNew

\* Up to the first rename.
Prepares ==
    /\ worker.pc \in {"queued", "preflight", "rolledBack"} => journal.phase = "none" /\ AllOld
    /\ worker.pc = "quiesce" => journal.phase = "quiescing" /\ K = 0
    /\ worker.pc \in {"prepare", "copy"} =>
         /\ journal.phase = "snapshot" /\ writers = "stopped"
         /\ worker.i = K + (IF worker.pc = "copy" THEN 0 ELSE 1) /\ worker.i > 0
         /\ \A j \in Items : j <= K => ~Marked(j)
         /\ \A j \in Items : j < worker.i => prepared[j] = "new"

\* Up to the commit.
Activates ==
    /\ worker.pc \in Activating =>
         /\ journal.phase = "prepared" /\ writers = "stopped" /\ K = N
         /\ worker.i \in 1 .. N + 1 /\ (worker.pc # "activate" => worker.i <= N)
         /\ \A j \in Items : j < worker.i => target[j] = "new"
         /\ \A j \in Items : j > worker.i => ~Marked(j) /\ prepared[j] = "new"
    /\ worker.pc = "activate" /\ worker.i <= N => ~Marked(worker.i) /\ prepared[worker.i] = "new"
    /\ worker.pc \in {"moveAway", "moveIn", "activated"} => Marked(worker.i)
    /\ worker.pc = "moveAway" =>
         /\ target[worker.i] = Original(worker.i) /\ safety[worker.i] = "none" /\ prepared[worker.i] = "new"
    /\ worker.pc = "moveIn" => prepared[worker.i] = "new" /\ (worker.i \in Existing => safety[worker.i] = "old")
    /\ worker.pc = "activated" => target[worker.i] = "new"
    /\ worker.pc = "restart" => journal.phase = "activated" /\ writers = "stopped" /\ AllNew

\* After the commit, or a failure.
Concludes ==
    /\ worker.pc \in {"clean", "discard"} => journal.phase = "committed"
    /\ worker.pc = "completed" => journal.phase = "none" /\ AllNew
    /\ worker.pc = "failed" /\ journal.phase = "none" => AllOld
    /\ worker.pc = "stop" => Uncommitted
    /\ worker.pc \in Undoing => Uncommitted /\ writers = "stopped"
    /\ worker.pc \in {"undo", "putBack", "dropCopy"} =>
         worker.i <= K /\ \A j \in Items : j > worker.i => target[j] = Original(j)
    /\ worker.pc \in {"putBack", "dropCopy"} => worker.i > 0
    /\ worker.pc = "putBack" => target[worker.i] = "none" /\ (worker.i \in Existing => safety[worker.i] = "old")
    /\ worker.pc = "dropCopy" => target[worker.i] = Original(worker.i)
    /\ worker.pc = "reconcile" => AllOld

\* A status that says how a recovery ended is true, and is never there
\* while the roots are being replaced.
StatusHolds ==
    /\ Uncommitted => status \notin {"idle", "failed", "rolled-back", "completed"}
    /\ journal.phase = "committed" => status \notin {"idle", "failed", "rolled-back"}
    /\ journal.phase = "none" /\ status \in {"idle", "failed", "rolled-back"} => AllOld
    /\ journal.phase = "none" /\ status = "completed" => AllNew

\* The inductive invariant.
Inv ==
    /\ Roots /\ TypeOK /\ JournalIsShort
    /\ RootsAreKept /\ RootsAreWhole
    /\ Prepares /\ Activates /\ Concludes /\ StatusHolds

-----------------------------------------------------------------------------
\* A root is there before the recovery, or is not.
LEMMA RootFacts ==
    ASSUME Roots
    PROVE  /\ N \in Nat /\ N > 0 /\ Items = 1 .. N
           /\ \A i \in Items : i \in Nat /\ Original(i) \in {"old", "none"}
           /\ \A i \in Items : Original(i) = "old" <=> i \in Existing
           /\ \E i \in Items : TRUE
<1>1. N \in Nat /\ Items = 1 .. N
  BY DEF Roots, N, Items
<1>2. N > 0
  BY <1>1 DEF Roots, N
<1>3. QED BY <1>1, <1>2 DEF Original

\* Where the worker is, and what is journaled.
LEMMA WorkerFacts ==
    ASSUME TypeOK
    PROVE  /\ worker.pc \in PCs /\ worker.i \in Nat /\ worker.boot \in BOOLEAN
           /\ journal.phase \in Phases /\ journal.items \in Seq(Records) /\ K \in Nat
<1>1. worker.pc \in PCs /\ worker.i \in Nat /\ worker.boot \in BOOLEAN
  BY DEF TypeOK, Workers
<1>2. journal.phase \in Phases /\ journal.items \in Seq(Records)
  BY DEF TypeOK, Journals
<1>3. K \in Nat
  BY <1>2 DEF K
<1>4. QED BY <1>1, <1>2, <1>3

\* No journal has no items.
LEMMA NoneFacts == None \in Journals /\ None.phase = "none" /\ Len(None.items) = 0
BY DEF None, Journals, Phases

\* A worker that has ended.
LEMMA IdleFacts == Idle \in Workers /\ Idle.pc = "idle"
BY DEF Idle, Workers, PCs

\* The steps of the worker.
LEMMA PCFacts ==
    {"idle", "queued", "preflight", "quiesce", "prepare", "copy", "restart", "clean", "discard",
     "completed", "failed", "stop", "rolledBack", "exit", "activate", "moveAway", "moveIn", "activated",
     "undo", "putBack", "dropCopy", "reconcile"} \subseteq PCs
BY DEF PCs, Activating, Undoing

\* A step of the worker changes where it is, and its item.
LEMMA Goes ==
    ASSUME worker \in Workers, NEW pc \in PCs, NEW i \in Nat, Goto(pc, i)
    PROVE  worker' \in Workers /\ worker'.pc = pc /\ worker'.i = i /\ worker'.boot = worker.boot
BY DEF Goto, Workers

\* A new phase leaves the items alone.
LEMMA PhaseIsSet ==
    ASSUME journal \in Journals, NEW phase \in Phases, Phase(phase)
    PROVE  journal' \in Journals /\ journal'.phase = phase /\ journal'.items = journal.items
BY DEF Phase, Journals

\* A mark of one item leaves the others alone.
LEMMA ItemIsSet ==
    ASSUME journal \in Journals, NEW i \in 1 .. K, NEW m \in Records,
           journal' = [journal EXCEPT !.items[i] = m]
    PROVE  /\ journal' \in Journals /\ journal'.phase = journal.phase /\ Len(journal'.items) = K
           /\ journal'.items[i] = m
           /\ \A j \in 1 .. K : j # i => journal'.items[j] = journal.items[j]
<1>1. journal.items \in Seq(Records)
  BY DEF Journals
<1>2. [journal.items EXCEPT ![i] = m] \in Seq(Records)
  BY <1>1 DEF K
<1>3. journal' \in Journals /\ journal'.phase = journal.phase /\ journal'.items = [journal.items EXCEPT ![i] = m]
  BY <1>2 DEF Journals
<1>4. /\ Len([journal.items EXCEPT ![i] = m]) = K
      /\ [journal.items EXCEPT ![i] = m][i] = m
      /\ \A j \in 1 .. K : j # i => [journal.items EXCEPT ![i] = m][j] = journal.items[j]
  BY <1>1 DEF K
<1>5. QED BY <1>3, <1>4

\* The worker ends, or the process does.
LEMMA Ends ==
    ASSUME worker \in Workers, NEW phase, End(phase)
    PROVE  worker' \in Workers /\ worker'.pc \in {"idle", "exit"} /\ status' = phase
BY IdleFacts, PCFacts DEF End, Workers

\* There is a root, so the old roots and the new ones differ.
LEMMA WholesDiffer == Roots => ~(AllOld /\ AllNew)
BY RootFacts DEF AllOld, AllNew

\* What a recovery does not read cannot break its invariant.
LEMMA UnchangedKeepsInv ==
    ASSUME Inv, UNCHANGED <<journal, status, worker, target, prepared, safety, writers>>
    PROVE  Inv'
<1>1. Roots' /\ TypeOK' /\ JournalIsShort' BY DEF Inv, TypeOK, JournalIsShort, Roots, K
<1>2. RootsAreKept' BY DEF Inv, RootsAreKept, Uncommitted, Rooted, Marked, K
<1>3. RootsAreWhole' BY DEF Inv, RootsAreWhole, AllOld, AllNew
<1>4. Prepares' BY DEF Inv, Prepares, AllOld, Marked, K
<1>5. Activates' BY DEF Inv, Activates, AllNew, Marked, K
<1>6. Concludes' BY DEF Inv, Concludes, AllOld, AllNew, Uncommitted, K
<1>7. StatusHolds' BY DEF Inv, StatusHolds, Uncommitted, AllOld, AllNew
<1>8. QED BY <1>1, <1>2, <1>3, <1>4, <1>5, <1>6, <1>7 DEF Inv

\* A recovery starts on the old roots, with no journal.
LEMMA StartKeepsInv == ASSUME Inv, Start PROVE Inv'
<1>1. worker' \in Workers /\ worker'.pc = "queued"
  BY DEF Start, Workers, PCs
<1>2. journal.phase = "none" /\ AllOld /\ status' = "queued"
  BY NoneFacts DEF Start, AllOld
<1>3. UNCHANGED <<journal, target, prepared, safety, writers>>
  BY DEF Start, roots
<1>4. Roots' /\ TypeOK' /\ JournalIsShort'
  BY <1>1, <1>2, <1>3 DEF Inv, TypeOK, JournalIsShort, K, Contents
<1>5. RootsAreKept'
  BY <1>1, <1>2, <1>3 DEF Inv, RootsAreKept, Uncommitted, Rooted, Marked, K
<1>6. RootsAreWhole'
  BY <1>1, <1>2, <1>3 DEF Inv, RootsAreWhole, Uncommitted, AllOld, AllNew
<1>7. Prepares'
  BY <1>1, <1>2, <1>3 DEF Inv, Prepares, AllOld
<1>8. Activates'
  BY <1>1, <1>2, <1>3 DEF Inv, Activates, Activating, AllNew
<1>9. Concludes'
  BY <1>1, <1>2, <1>3 DEF Inv, Concludes, Undoing, Uncommitted, AllOld, AllNew
<1>10. StatusHolds'
  BY <1>1, <1>2, <1>3 DEF Inv, StatusHolds, Uncommitted, AllOld, AllNew
<1>11. QED BY <1>4, <1>5, <1>6, <1>7, <1>8, <1>9, <1>10 DEF Inv

\* A recovery that does not get the lock has changed nothing.
LEMMA BeginKeepsInv == ASSUME Inv, Begin PROVE Inv'
<1>1. worker.pc = "queued" /\ worker \in Workers
  BY DEF Begin, At, Inv, TypeOK
<1>2. worker' \in Workers /\ worker'.pc \in {"preflight", "idle"} /\ status' \in {status, "failed"}
  BY <1>1, Goes, PCFacts, IdleFacts DEF Begin
<1>3. journal.phase = "none" /\ AllOld
  BY <1>1 DEF Inv, Prepares
<1>4. UNCHANGED <<journal, target, prepared, safety, writers>>
  BY DEF Begin, roots
<1>5. Roots' /\ TypeOK' /\ JournalIsShort'
  BY <1>1, <1>2, <1>3, <1>4 DEF Inv, TypeOK, JournalIsShort, K, Contents
<1>6. RootsAreKept'
  BY <1>1, <1>2, <1>3, <1>4 DEF Inv, RootsAreKept, Uncommitted, Rooted, Marked, K
<1>7. RootsAreWhole'
  BY <1>1, <1>2, <1>3, <1>4 DEF Inv, RootsAreWhole, Uncommitted, AllOld, AllNew
<1>8. Prepares'
  BY <1>1, <1>2, <1>3, <1>4 DEF Inv, Prepares, AllOld
<1>9. Activates'
  BY <1>1, <1>2, <1>3, <1>4 DEF Inv, Activates, Activating, AllNew
<1>10. Concludes'
  BY <1>1, <1>2, <1>3, <1>4 DEF Inv, Concludes, Undoing, Uncommitted, AllOld, AllNew
<1>11. StatusHolds'
  BY <1>1, <1>2, <1>3, <1>4 DEF Inv, StatusHolds, Uncommitted, AllOld, AllNew
<1>12. QED BY <1>5, <1>6, <1>7, <1>8, <1>9, <1>10, <1>11 DEF Inv

\* The journal comes before the first stop.
LEMMA PreflightKeepsInv == ASSUME Inv, Preflight PROVE Inv'
<1>1. worker.pc = "preflight" /\ worker \in Workers
  BY DEF Preflight, At, Inv, TypeOK
<1>2. journal.phase = "none" /\ AllOld
  BY <1>1 DEF Inv, Prepares
<1>3. UNCHANGED <<target, prepared, safety, writers>>
  BY DEF Preflight, roots
<1>4. CASE UNCHANGED journal /\ Fails /\ status' = "preflight"
  <2>1. worker' \in Workers /\ worker'.pc = "failed"
    BY <1>1, <1>4, Goes, PCFacts DEF Fails
  <2>2. /\ journal.phase = "none" /\ AllOld /\ status' = "preflight"
        /\ UNCHANGED <<journal, target, prepared, safety, writers>>
    BY <1>2, <1>3, <1>4
  <2>3. Roots' /\ TypeOK' /\ JournalIsShort'
    BY <2>1, <2>2 DEF Inv, TypeOK, JournalIsShort, K, Contents
  <2>4. RootsAreKept'
    BY <2>1, <2>2 DEF Inv, RootsAreKept, Uncommitted, Rooted, Marked, K
  <2>5. RootsAreWhole'
    BY <2>1, <2>2 DEF Inv, RootsAreWhole, Uncommitted, AllOld, AllNew
  <2>6. Prepares'
    BY <2>1, <2>2 DEF Inv, Prepares, AllOld
  <2>7. Activates'
    BY <2>1, <2>2 DEF Inv, Activates, Activating, AllNew
  <2>8. Concludes'
    BY <2>1, <2>2 DEF Inv, Concludes, Undoing, Uncommitted, AllOld, AllNew
  <2>9. StatusHolds'
    BY <2>1, <2>2 DEF Inv, StatusHolds, Uncommitted, AllOld, AllNew
  <2>10. QED BY <2>3, <2>4, <2>5, <2>6, <2>7, <2>8, <2>9 DEF Inv
<1>5. CASE journal' = [phase |-> "quiescing", items |-> <<>>] /\ Goto("quiesce", 0) /\ status' = "quiescing"
  <2>1. worker' \in Workers /\ worker'.pc = "quiesce"
    BY <1>1, <1>5, Goes, PCFacts
  <2>2. journal' \in Journals /\ journal'.phase = "quiescing" /\ Len(journal'.items) = 0
    BY <1>5 DEF Journals, Phases
  <2>3. /\ AllOld /\ status' = "quiescing" /\ Roots
        /\ UNCHANGED <<target, prepared, safety, writers>>
    BY <1>2, <1>3, <1>5 DEF Inv
  <2>4. Roots' /\ TypeOK' /\ JournalIsShort'
    <3>1. N \in Nat
      BY <2>3, RootFacts
    <3>2. TypeOK'
      BY <2>1, <2>2, <2>3 DEF Inv, TypeOK
    <3>3. JournalIsShort'
      BY <2>2, <3>1 DEF JournalIsShort, K
    <3>4. QED BY <2>3, <3>2, <3>3
  <2>5. RootsAreKept'
    BY <2>1, <2>2, <2>3, RootFacts DEF RootsAreKept, AllOld, K
  <2>6. RootsAreWhole'
    BY <2>1, <2>2, <2>3 DEF Inv, RootsAreWhole, Uncommitted, AllOld, AllNew
  <2>7. Prepares'
    BY <2>1, <2>2, <2>3 DEF Prepares, K
  <2>8. Activates'
    BY <2>1, <2>2, <2>3 DEF Inv, Activates, Activating, AllNew
  <2>9. Concludes'
    BY <2>1, <2>2, <2>3 DEF Inv, Concludes, Undoing, Uncommitted, AllOld, AllNew
  <2>10. StatusHolds'
    BY <2>1, <2>2, <2>3 DEF Inv, StatusHolds, Uncommitted, AllOld, AllNew
  <2>11. QED BY <2>4, <2>5, <2>6, <2>7, <2>8, <2>9, <2>10 DEF Inv
<1>6. QED BY <1>4, <1>5 DEF Preflight

\* The writers are stopped before a root is copied.
LEMMA QuiesceKeepsInv == ASSUME Inv, Quiesce PROVE Inv'
<1>1. worker.pc = "quiesce" /\ worker \in Workers /\ journal \in Journals
  BY DEF Quiesce, At, Inv, TypeOK
<1>2. journal.phase = "quiescing" /\ K = 0
  BY <1>1 DEF Inv, Prepares
<1>3. AllOld
  BY <1>2, RootFacts DEF Inv, RootsAreKept, Uncommitted, AllOld
<1>4. UNCHANGED <<status, target, prepared, safety>>
  BY DEF Quiesce, roots
<1>5. CASE writers' = "stopped" /\ Phase("snapshot") /\ Goto("prepare", 1)
  <2>1. worker' \in Workers /\ worker'.pc = "prepare" /\ worker'.i = 1
    BY <1>1, <1>5, Goes, PCFacts
  <2>2. journal' \in Journals /\ journal'.phase = "snapshot" /\ journal'.items = journal.items
    BY <1>1, <1>5, PhaseIsSet DEF Phases
  <2>3. /\ AllOld /\ writers' = "stopped" /\ Roots /\ Len(journal'.items) = 0 /\ journal.phase = "quiescing"
        /\ UNCHANGED <<status, target, prepared, safety>>
    BY <1>2, <1>3, <1>4, <1>5, <2>2 DEF Inv, K
  <2>4. Roots' /\ TypeOK' /\ JournalIsShort'
    <3>1. N \in Nat
      BY <2>3, RootFacts
    <3>2. QED BY <2>1, <2>2, <2>3, <3>1 DEF Inv, TypeOK, JournalIsShort, K
  <2>5. RootsAreKept'
    BY <2>1, <2>2, <2>3, RootFacts DEF RootsAreKept, AllOld, K
  <2>6. RootsAreWhole'
    BY <2>1, <2>2, <2>3 DEF Inv, RootsAreWhole, Uncommitted, AllOld, AllNew
  <2>7. Prepares'
    BY <2>1, <2>2, <2>3, RootFacts DEF Prepares, K
  <2>8. Activates'
    BY <2>1, <2>2, <2>3 DEF Inv, Activates, Activating, AllNew
  <2>9. Concludes'
    BY <2>1, <2>2, <2>3 DEF Inv, Concludes, Undoing, Uncommitted, AllOld, AllNew
  <2>10. StatusHolds'
    BY <2>1, <2>2, <2>3 DEF Inv, StatusHolds, Uncommitted, AllOld, AllNew
  <2>11. QED BY <2>4, <2>5, <2>6, <2>7, <2>8, <2>9, <2>10 DEF Inv
<1>6. CASE writers' \in {"asBefore", "stopped"} /\ UNCHANGED journal /\ Fails
  <2>1. worker' \in Workers /\ worker'.pc = "failed"
    BY <1>1, <1>6, Goes, PCFacts DEF Fails
  <2>2. /\ journal.phase = "quiescing" /\ AllOld /\ writers' \in {"asBefore", "stopped"}
        /\ UNCHANGED <<journal, status, target, prepared, safety>>
    BY <1>2, <1>3, <1>4, <1>6
  <2>3. Roots' /\ TypeOK' /\ JournalIsShort'
    BY <2>1, <2>2 DEF Inv, TypeOK, JournalIsShort, K, Contents
  <2>4. RootsAreKept'
    BY <2>1, <2>2 DEF Inv, RootsAreKept, Uncommitted, Rooted, Marked, K
  <2>5. RootsAreWhole'
    BY <2>1, <2>2 DEF Inv, RootsAreWhole, Uncommitted, AllOld, AllNew
  <2>6. Prepares'
    BY <2>1, <2>2 DEF Inv, Prepares, AllOld
  <2>7. Activates'
    BY <2>1, <2>2 DEF Inv, Activates, Activating, AllNew
  <2>8. Concludes'
    BY <2>1, <2>2 DEF Inv, Concludes, Undoing, Uncommitted, AllOld, AllNew
  <2>9. StatusHolds'
    BY <2>1, <2>2 DEF Inv, StatusHolds, Uncommitted, AllOld, AllNew
  <2>10. QED BY <2>3, <2>4, <2>5, <2>6, <2>7, <2>8, <2>9 DEF Inv
<1>7. QED BY <1>5, <1>6 DEF Quiesce

\* An item is journaled, without a mark, before its root is copied.
LEMMA PrepareKeepsInv == ASSUME Inv, Prepare PROVE Inv'
<1>1. worker.pc = "prepare" /\ worker \in Workers /\ journal \in Journals /\ worker.i \in Nat /\ K \in Nat
  BY WorkerFacts DEF Prepare, At, Inv, TypeOK
<1>2. /\ journal.phase = "snapshot" /\ writers = "stopped" /\ worker.i = K + 1
      /\ \A j \in Items : j <= K => ~Marked(j)
      /\ \A j \in Items : j < worker.i => prepared[j] = "new"
  BY <1>1 DEF Inv, Prepares
<1>3. \A j \in Items : IF j <= K THEN Rooted(j) ELSE target[j] = Original(j)
  BY <1>2 DEF Inv, RootsAreKept, Uncommitted
<1>4. UNCHANGED <<status, target, writers>> /\ K <= N /\ Roots
  BY DEF Prepare, Inv, JournalIsShort
<1>5. CASE worker.i > N
  <2>1. Phase("prepared") /\ Goto("activate", 1) /\ UNCHANGED <<prepared, safety>>
    BY <1>5 DEF Prepare, N
  <2>2. worker' \in Workers /\ worker'.pc = "activate" /\ worker'.i = 1
    BY <1>1, <2>1, Goes, PCFacts
  <2>3. journal' \in Journals /\ journal'.phase = "prepared" /\ journal'.items = journal.items
    BY <1>1, <2>1, PhaseIsSet DEF Phases
  <2>4. K = N
    BY <1>1, <1>2, <1>4, <1>5, RootFacts
  <2>5. \A j \in Items : ~Marked(j) /\ prepared[j] = "new" /\ j <= K /\ j < worker.i
    BY <1>2, <1>4, <1>5, <2>4, RootFacts
  <2>6. /\ journal.phase = "snapshot" /\ writers = "stopped"
        /\ UNCHANGED <<status, target, prepared, safety, writers>>
    BY <1>2, <1>4, <2>1
  <2>7. Roots' /\ TypeOK' /\ JournalIsShort'
    BY <2>1, <2>2, <2>3, <2>4, <2>5, <2>6 DEF Inv, TypeOK, JournalIsShort, K, Contents
  <2>8. RootsAreKept'
    BY <2>1, <2>2, <2>3, <2>4, <2>5, <2>6 DEF Inv, RootsAreKept, Uncommitted, Rooted, Marked, K
  <2>9. RootsAreWhole'
    BY <2>1, <2>2, <2>3, <2>4, <2>5, <2>6 DEF Inv, RootsAreWhole, Uncommitted, AllOld, AllNew
  <2>10. Prepares'
    BY <2>1, <2>2, <2>3, <2>4, <2>5, <2>6 DEF Prepares
  <2>11. Activates'
    BY <2>1, <2>2, <2>3, <2>4, <2>5, <2>6, <1>4, RootFacts DEF Activates, Activating, Marked, K
  <2>12. Concludes'
    BY <2>1, <2>2, <2>3, <2>4, <2>5, <2>6 DEF Inv, Concludes, Undoing, Uncommitted, AllOld, AllNew
  <2>13. StatusHolds'
    BY <2>1, <2>2, <2>3, <2>4, <2>5, <2>6 DEF Inv, StatusHolds, Uncommitted, AllOld, AllNew
  <2>14. QED BY <2>7, <2>8, <2>9, <2>10, <2>11, <2>12, <2>13 DEF Inv
<1>6. CASE worker.i <= N
  <2>1. /\ prepared' = [prepared EXCEPT ![worker.i] = "none"] /\ safety' = [safety EXCEPT ![worker.i] = "none"]
        /\ journal' = [journal EXCEPT !.items = Append(@, Record(worker.i))]
        /\ Goto("copy", worker.i)
    BY <1>1, <1>4, <1>6, RootFacts DEF Prepare, N
  <2>2. worker' \in Workers /\ worker'.pc = "copy" /\ worker'.i = worker.i
    BY <1>1, <2>1, Goes, PCFacts
  <2>3. worker.i \in Items /\ worker.i = K + 1
    BY <1>1, <1>2, <1>4, <1>6, RootFacts
  <2>4. /\ Record(worker.i) \in Records /\ ~Record(worker.i).activating /\ ~Record(worker.i).activated
        /\ Record(worker.i).existed <=> worker.i \in Existing
    <3>1. target[worker.i] = Original(worker.i)
      BY <1>1, <1>3, <2>3
    <3>2. QED BY <3>1, <2>3, <1>4, RootFacts DEF Record, Records, Original
  <2>5. /\ journal' \in Journals /\ journal'.phase = "snapshot" /\ Len(journal'.items) = worker.i
        /\ journal'.items[worker.i] = Record(worker.i)
        /\ \A j \in Items : j <= K => journal'.items[j] = journal.items[j]
    <3> DEFINE r == Record(worker.i)
    <3>1. r \in Records /\ journal' = [journal EXCEPT !.items = Append(@, r)]
      BY <2>1, <2>4
    <3> HIDE DEF r
    <3>2. journal' \in Journals /\ journal'.phase = journal.phase /\ journal'.items = Append(journal.items, r)
      <4>1. journal.items \in Seq(Records)
        BY <1>1 DEF Journals
      <4>2. Append(journal.items, r) \in Seq(Records)
        BY <4>1, <3>1
      <4>3. QED BY <1>1, <3>1, <4>2 DEF Journals
    <3>3. /\ Len(journal'.items) = K + 1 /\ journal'.items[K + 1] = r
          /\ \A j \in 1 .. K : journal'.items[j] = journal.items[j]
      BY <1>1, <3>1, <3>2 DEF Journals, K
    <3>4. QED BY <1>1, <1>2, <1>4, <2>3, <3>2, <3>3, RootFacts DEF r
  <2>6. /\ journal.phase = "snapshot" /\ writers = "stopped"
        /\ UNCHANGED <<status, target, writers>>
    BY <1>2, <1>4
  <2>7. Roots' /\ TypeOK' /\ JournalIsShort'
    BY <2>1, <2>2, <2>3, <2>4, <2>5, <2>6, <1>4, <1>6, RootFacts DEF Inv, TypeOK, JournalIsShort, K, Contents
  <2>8. RootsAreKept'
    <3> SUFFICES ASSUME NEW j \in Items PROVE IF j <= worker.i THEN Rooted(j)' ELSE target'[j] = Original(j)
      BY <2>5 DEF RootsAreKept, K
    <3>1. j \in Nat /\ worker.i \in Nat /\ worker.i = K + 1 /\ K \in Nat
      BY <1>1, <1>4, <2>3, RootFacts
    <3>2. CASE j = worker.i
      BY <1>3, <1>4, <2>1, <2>3, <2>4, <2>5, <2>6, <3>1, <3>2, RootFacts DEF Inv, TypeOK, Rooted, Marked
    <3>3. CASE j < worker.i
      <4>1. Rooted(j) /\ journal'.items[j] = journal.items[j]
        BY <1>3, <2>5, <3>1, <3>3
      <4>2. prepared'[j] = prepared[j] /\ safety'[j] = safety[j] /\ target'[j] = target[j]
        BY <2>1, <2>6, <3>1, <3>3 DEF Inv, TypeOK
      <4>3. QED BY <3>1, <3>3, <4>1, <4>2 DEF Rooted, Marked
    <3>4. CASE j > worker.i
      BY <1>3, <2>6, <3>1, <3>4
    <3>5. QED BY <3>1, <3>2, <3>3, <3>4
  <2>9. RootsAreWhole'
    BY <2>1, <2>2, <2>3, <2>4, <2>5, <2>6 DEF Inv, RootsAreWhole, Uncommitted, AllOld, AllNew
  <2>10. Prepares'
    <3>1. \A j \in Items : j <= worker.i => ~Marked(j)'
      <4> SUFFICES ASSUME NEW j \in Items, j <= worker.i PROVE ~Marked(j)'
        OBVIOUS
      <4>1. CASE j = worker.i
        BY <2>4, <2>5, <4>1 DEF Marked
      <4>2. CASE j # worker.i
        <5>1. j <= K
          BY <1>1, <1>4, <2>3, <4>2, RootFacts
        <5>2. QED BY <1>2, <2>5, <5>1 DEF Marked
      <4>3. QED BY <4>1, <4>2
    <3>2. \A j \in Items : j < worker.i => prepared'[j] = "new"
      BY <1>2, <1>4, <2>1, <2>3, RootFacts DEF Inv, TypeOK
    <3>3. worker'.i = Len(journal'.items) /\ worker'.i > 0
      BY <1>1, <2>2, <2>3, <2>5
    <3>4. QED BY <2>2, <2>3, <2>5, <2>6, <3>1, <3>2, <3>3 DEF Prepares, K
  <2>11. Activates'
    BY <2>1, <2>2, <2>3, <2>4, <2>5, <2>6 DEF Inv, Activates, Activating, AllNew
  <2>12. Concludes'
    BY <2>1, <2>2, <2>3, <2>4, <2>5, <2>6 DEF Inv, Concludes, Undoing, Uncommitted, AllOld, AllNew
  <2>13. StatusHolds'
    BY <2>1, <2>2, <2>3, <2>4, <2>5, <2>6 DEF Inv, StatusHolds, Uncommitted, AllOld, AllNew
  <2>14. QED BY <2>7, <2>8, <2>9, <2>10, <2>11, <2>12, <2>13 DEF Inv
<1>7. QED BY <1>1, <1>4, <1>5, <1>6, RootFacts

\* A copy never touches the root.
LEMMA CopyKeepsInv == ASSUME Inv, Copy PROVE Inv'
<1>1. worker.pc = "copy" /\ worker \in Workers /\ worker.i \in Nat /\ K \in Nat
  BY WorkerFacts DEF Copy, At, Inv, TypeOK
<1>2. /\ journal.phase = "snapshot" /\ writers = "stopped" /\ worker.i = K /\ worker.i > 0
      /\ \A j \in Items : j <= K => ~Marked(j)
      /\ \A j \in Items : j < worker.i => prepared[j] = "new"
  BY <1>1 DEF Inv, Prepares
<1>3. \A j \in Items : IF j <= K THEN Rooted(j) ELSE target[j] = Original(j)
  BY <1>2 DEF Inv, RootsAreKept, Uncommitted
<1>4. UNCHANGED <<journal, status, target, safety, writers>> /\ K <= N /\ Roots
  BY DEF Copy, Inv, JournalIsShort
<1>5. worker.i \in Items
  BY <1>1, <1>2, <1>4, RootFacts
<1>6. PICK content \in {"new", "part"} :
        /\ prepared' = [prepared EXCEPT ![worker.i] = content]
        /\ worker' \in Workers
        /\ \/ content = "new" /\ worker'.pc = "prepare" /\ worker'.i = worker.i + 1
           \/ worker'.pc \in {"copy", "failed"} /\ worker'.i = worker.i
  <2>1. CASE prepared' = [prepared EXCEPT ![worker.i] = "new"] /\ Goto("prepare", worker.i + 1)
    <3>1. worker.i + 1 \in Nat
      BY <1>1
    <3>2. worker' \in Workers /\ worker'.pc = "prepare" /\ worker'.i = worker.i + 1
      BY <1>1, <2>1, <3>1, Goes, PCFacts
    <3>3. QED BY <2>1, <3>2
  <2>2. CASE prepared' = [prepared EXCEPT ![worker.i] = "part"] /\ worker' \in {worker, [worker EXCEPT !.pc = "failed"]}
    <3>1. worker' \in Workers /\ worker'.pc \in {"copy", "failed"} /\ worker'.i = worker.i
      BY <1>1, <2>2, PCFacts DEF Workers
    <3>2. QED BY <2>2, <3>1
  <2>3. QED BY <2>1, <2>2 DEF Copy
<1>7. \A j \in Items : j < worker.i => prepared'[j] = "new"
  BY <1>1, <1>2, <1>5, <1>6, RootFacts DEF Inv, TypeOK
<1>8. worker'.pc = "prepare" => prepared'[worker.i] = "new"
  BY <1>5, <1>6 DEF Inv, TypeOK
<1>9. Roots' /\ TypeOK' /\ JournalIsShort'
  BY <1>4, <1>6 DEF Inv, TypeOK, Contents, JournalIsShort, K
<1>10. RootsAreKept'
  <2> SUFFICES ASSUME NEW j \in Items PROVE IF j <= K THEN Rooted(j)' ELSE target'[j] = Original(j)
    BY <1>4 DEF RootsAreKept, K
  <2>1. CASE j <= K
    <3>1. Rooted(j) /\ ~Marked(j)
      BY <1>2, <1>3, <2>1
    <3>2. QED BY <1>4, <3>1, RootFacts DEF Rooted, Marked, Original
  <2>2. QED BY <1>3, <1>4, <2>1
<1>11. RootsAreWhole'
  BY <1>2, <1>4 DEF Inv, RootsAreWhole
<1>12. Prepares'
  <2>1. \A j \in Items : j <= K => ~Marked(j)'
    BY <1>2, <1>4 DEF Marked
  <2>2. worker'.pc = "prepare" => \A j \in Items : j < worker'.i => prepared'[j] = "new"
    BY <1>1, <1>6, <1>7, <1>8, RootFacts, <1>4
  <2>3. UNCHANGED <<journal, writers>> /\ K' = K
    BY <1>4 DEF K
  <2>4. CASE worker'.pc = "prepare"
    BY <1>1, <1>2, <1>6, <2>1, <2>2, <2>3, <2>4 DEF Prepares
  <2>5. CASE worker'.pc = "copy"
    BY <1>1, <1>2, <1>6, <1>7, <2>1, <2>3, <2>5 DEF Prepares
  <2>6. CASE worker'.pc = "failed"
    BY <2>6 DEF Prepares
  <2>7. QED BY <1>6, <2>4, <2>5, <2>6
<1>13. Activates' /\ Concludes'
  BY <1>2, <1>4, <1>6 DEF Activates, Activating, Concludes, Undoing
<1>14. StatusHolds'
  BY <1>2, <1>4 DEF Inv, StatusHolds, Uncommitted
<1>15. QED BY <1>9, <1>10, <1>11, <1>12, <1>13, <1>14 DEF Inv

\* The mark of an item comes before its renames; with every item activated the roots are
\* new.
LEMMA ActivateKeepsInv == ASSUME Inv, Activate PROVE Inv'
<1>1. worker.pc = "activate" /\ worker \in Workers /\ journal \in Journals /\ worker.i \in Nat
  BY WorkerFacts DEF Activate, At, Inv, TypeOK
<1>2. /\ journal.phase = "prepared" /\ writers = "stopped" /\ K = N
      /\ worker.i \in 1 .. N + 1 /\ (worker.pc # "activate" => worker.i <= N)
      /\ \A j \in Items : j < worker.i => target[j] = "new"
      /\ \A j \in Items : j > worker.i => ~Marked(j) /\ prepared[j] = "new"
  BY <1>1 DEF Inv, Activates, Activating
<1>3. \A j \in Items : Rooted(j)
  BY <1>2, RootFacts DEF Inv, RootsAreKept, Uncommitted
<1>4. Roots /\ Items = 1 .. N /\ N \in Nat /\ \A j \in Items : j \in Nat
  BY RootFacts DEF Inv
<1>5. UNCHANGED <<status, target, prepared, safety, writers>>
  BY DEF Activate, roots
<1>6. CASE worker.i > N
  <2>1. Phase("activated") /\ Goto("restart", 0)
    BY <1>6 DEF Activate, N
  <2>2. worker' \in Workers /\ worker'.pc = "restart"
    BY <1>1, <2>1, Goes, PCFacts
  <2>3. journal' \in Journals /\ journal'.phase = "activated" /\ journal'.items = journal.items
    BY <1>1, <2>1, PhaseIsSet DEF Phases
  <2>4. AllNew
    BY <1>1, <1>2, <1>4, <1>6 DEF AllNew
  <2>5. journal.phase = "prepared" /\ writers = "stopped" /\ K = N
    BY <1>2
  <2>6. Roots' /\ TypeOK' /\ JournalIsShort'
    BY <2>1, <2>2, <2>3, <2>4, <2>5, <1>4, <1>5 DEF Inv, TypeOK, JournalIsShort, K, Contents
  <2>7. RootsAreKept'
    BY <2>1, <2>2, <2>3, <2>4, <2>5, <1>3, <1>4, <1>5 DEF RootsAreKept, Rooted, Marked, K
  <2>8. RootsAreWhole'
    BY <2>1, <2>2, <2>3, <2>4, <2>5, <1>5 DEF Inv, RootsAreWhole, Uncommitted, AllOld, AllNew
  <2>9. Prepares'
    BY <2>1, <2>2, <2>3, <2>4, <2>5 DEF Inv, Prepares, AllOld
  <2>10. Activates'
    BY <2>1, <2>2, <2>3, <2>4, <2>5, <1>5 DEF Activates, Activating, AllNew
  <2>11. Concludes'
    BY <2>1, <2>2, <2>3, <2>4, <2>5 DEF Inv, Concludes, Undoing, Uncommitted, AllOld, AllNew
  <2>12. StatusHolds'
    BY <2>1, <2>2, <2>3, <2>4, <2>5, <1>5 DEF Inv, StatusHolds, Uncommitted, AllOld, AllNew
  <2>13. QED BY <2>6, <2>7, <2>8, <2>9, <2>10, <2>11, <2>12 DEF Inv
<1>7. CASE worker.i <= N
  <2>1. /\ journal' = [journal EXCEPT !.items[worker.i].activating = TRUE]
        /\ Goto("moveAway", worker.i)
    <3>1. ~(worker.i > N)
      BY <1>1, <1>4, <1>7
    <3>2. QED BY <3>1 DEF Activate, N
  <2>2. worker' \in Workers /\ worker'.pc = "moveAway" /\ worker'.i = worker.i
    BY <1>1, <2>1, Goes, PCFacts
  <2>3. worker.i \in Items /\ ~Marked(worker.i) /\ prepared[worker.i] = "new"
    BY <1>1, <1>2, <1>4, <1>7 DEF Inv, Activates
  <2>4. /\ journal' \in Journals /\ journal'.phase = "prepared" /\ Len(journal'.items) = N
        /\ journal'.items[worker.i].existed = journal.items[worker.i].existed /\ journal'.items[worker.i].activating
        /\ \A j \in Items : j # worker.i => journal'.items[j] = journal.items[j]
    <3> DEFINE m == [journal.items[worker.i] EXCEPT !.activating = TRUE]
    <3>1. worker.i \in 1 .. K
      BY <1>2, <1>4, <2>3
    <3>2. m \in Records /\ m.existed = journal.items[worker.i].existed /\ m.activating
      <4>1. journal.items[worker.i] \in Records
        BY <1>1, <3>1 DEF Journals, K
      <4>2. QED BY <4>1 DEF Records
    <3>3. journal' = [journal EXCEPT !.items[worker.i] = m]
      BY <2>1
    <3> HIDE DEF m
    <3>4. /\ journal' \in Journals /\ journal'.phase = journal.phase /\ Len(journal'.items) = K
          /\ journal'.items[worker.i] = m
          /\ \A j \in 1 .. K : j # worker.i => journal'.items[j] = journal.items[j]
      BY <1>1, <3>1, <3>2, <3>3, ItemIsSet
    <3>5. QED BY <1>2, <1>4, <3>2, <3>4
  <2>5. target[worker.i] = Original(worker.i) /\ safety[worker.i] = "none"
    BY <1>3, <2>3 DEF Rooted
  <2>6. Marked(worker.i)'
    BY <2>2, <2>4 DEF Marked
  <2>7. journal.phase = "prepared" /\ writers = "stopped" /\ K = N
    BY <1>2
  <2>8. Roots' /\ TypeOK' /\ JournalIsShort'
    BY <2>1, <2>2, <2>3, <2>4, <2>5, <2>6, <2>7, <1>4, <1>5 DEF Inv, TypeOK, JournalIsShort, K, Contents
  <2>9. RootsAreKept'
    <3> SUFFICES ASSUME NEW j \in Items PROVE Rooted(j)'
      BY <1>4, <2>4 DEF RootsAreKept, K
    <3>1. CASE j = worker.i
      BY <1>3, <1>5, <2>3, <2>4, <2>5, <2>6, <3>1 DEF Rooted, Marked
    <3>2. CASE j # worker.i
      BY <1>3, <1>5, <2>4, <3>2 DEF Rooted, Marked
    <3>3. QED BY <3>1, <3>2
  <2>10. RootsAreWhole'
    BY <2>1, <2>2, <2>3, <2>4, <2>5, <2>6, <2>7, <1>5 DEF Inv, RootsAreWhole, Uncommitted, AllOld, AllNew
  <2>11. Prepares'
    BY <2>1, <2>2, <2>3, <2>4, <2>5, <2>6, <2>7 DEF Prepares
  <2>12. Activates'
    <3>1. \A j \in Items : j < worker.i => target'[j] = "new"
      BY <1>2, <1>5
    <3>2. \A j \in Items : j > worker.i => ~Marked(j)' /\ prepared'[j] = "new"
      BY <1>1, <1>2, <1>4, <1>5, <2>4 DEF Marked
    <3>3. QED BY <1>1, <1>2, <1>5, <1>7, <2>2, <2>3, <2>4, <2>5, <2>6, <3>1, <3>2 DEF Activates, Activating, K
  <2>13. Concludes'
    BY <2>1, <2>2, <2>3, <2>4, <2>5, <2>6, <2>7 DEF Concludes, Undoing
  <2>14. StatusHolds'
    BY <2>1, <2>2, <2>3, <2>4, <2>5, <2>6, <2>7, <1>5 DEF Inv, StatusHolds, Uncommitted, AllOld, AllNew
  <2>15. QED BY <2>8, <2>9, <2>10, <2>11, <2>12, <2>13, <2>14 DEF Inv
<1>8. QED BY <1>1, <1>4, <1>6, <1>7

\* The first rename: what was there is the safety copy.
LEMMA MoveAwayKeepsInv == ASSUME Inv, MoveAway PROVE Inv'
<1>1. worker.pc = "moveAway" /\ worker \in Workers /\ journal \in Journals /\ worker.i \in Nat
  BY WorkerFacts DEF MoveAway, At, Inv, TypeOK
<1>2. /\ journal.phase = "prepared" /\ writers = "stopped" /\ K = N
      /\ worker.i \in 1 .. N + 1 /\ (worker.pc # "activate" => worker.i <= N)
      /\ \A j \in Items : j < worker.i => target[j] = "new"
      /\ \A j \in Items : j > worker.i => ~Marked(j) /\ prepared[j] = "new"
  BY <1>1 DEF Inv, Activates, Activating
<1>3. \A j \in Items : Rooted(j)
  BY <1>2, RootFacts DEF Inv, RootsAreKept, Uncommitted
<1>4. Roots /\ Items = 1 .. N /\ N \in Nat /\ \A j \in Items : j \in Nat
  BY RootFacts DEF Inv
<1>5. UNCHANGED <<journal, status, prepared, writers>>
  BY DEF MoveAway
<1>6. /\ worker.i \in Items /\ worker.i <= N
      /\ \A j \in Items : j < worker.i \/ j > worker.i => j # worker.i
  <2>1. worker.i \in 1 .. N + 1 /\ worker.i <= N
    BY <1>1, <1>2
  <2>2. worker.i \in 1 .. N
    BY <1>1, <1>4, <2>1
  <2>3. worker.i \in Items
    BY <1>4, <2>2
  <2>4. \A j \in Items : j < worker.i \/ j > worker.i => j # worker.i
    BY <1>1, <1>4
  <2>5. QED BY <2>1, <2>3, <2>4
<1>7. /\ target[worker.i] = Original(worker.i) /\ safety[worker.i] = "none" /\ prepared[worker.i] = "new"
      /\ Marked(worker.i)
  BY <1>1 DEF Inv, Activates
<1>8. worker' \in Workers /\ worker'.pc \in {"moveIn", "failed"} /\ (worker'.pc = "moveIn" => worker'.i = worker.i)
  BY <1>1, Goes, PCFacts DEF MoveAway, Fails
<1>9. /\ target' \in [Items -> Contents] /\ safety' \in [Items -> Contents]
      /\ target'[worker.i] = "none"
      /\ safety'[worker.i] = IF worker.i \in Existing THEN "old" ELSE "none"
      /\ \A j \in Items : j # worker.i => target'[j] = target[j] /\ safety'[j] = safety[j]
  <2>1. CASE target[worker.i] # "none"
    <3>1. worker.i \in Existing /\ target[worker.i] = "old"
      BY <1>7, <2>1 DEF Original
    <3>2. target' = [target EXCEPT ![worker.i] = "none"] /\ safety' = [safety EXCEPT ![worker.i] = "old"]
      BY <2>1, <3>1 DEF MoveAway
    <3>3. QED BY <1>6, <3>1, <3>2 DEF Inv, TypeOK, Contents
  <2>2. CASE target[worker.i] = "none"
    <3>1. worker.i \notin Existing /\ UNCHANGED <<target, safety>>
      BY <1>7, <2>2 DEF Original, MoveAway
    <3>2. QED BY <1>7, <2>2, <3>1 DEF Inv, TypeOK
  <2>3. QED BY <2>1, <2>2
<1>10. Roots' /\ TypeOK' /\ JournalIsShort'
  BY <1>5, <1>8, <1>9 DEF Inv, TypeOK, JournalIsShort, K
<1>11. RootsAreKept'
  <2> SUFFICES ASSUME NEW j \in Items PROVE Rooted(j)'
    BY <1>2, <1>4, <1>5 DEF RootsAreKept, K
  <2>1. CASE j = worker.i
    BY <1>3, <1>5, <1>6, <1>7, <1>9, <2>1 DEF Rooted, Marked
  <2>2. CASE j # worker.i
    BY <1>3, <1>5, <1>9, <2>2 DEF Rooted, Marked
  <2>3. QED BY <2>1, <2>2
<1>12. RootsAreWhole'
  BY <1>2, <1>5 DEF RootsAreWhole
<1>13. Prepares'
  BY <1>8 DEF Prepares
<1>14. Activates'
  <2>1. \A j \in Items : j < worker.i => target'[j] = "new"
    BY <1>2, <1>6, <1>9
  <2>2. \A j \in Items : j > worker.i => ~Marked(j)' /\ prepared'[j] = "new"
    BY <1>2, <1>5 DEF Marked
  <2>3. worker'.pc = "moveIn" => Marked(worker.i)'
    BY <1>5, <1>7, <1>8 DEF Marked
  <2>4. UNCHANGED <<journal, writers>> /\ K' = K
    BY <1>5 DEF K
  <2>5. QED BY <1>2, <1>5, <1>6, <1>7, <1>8, <1>9, <2>1, <2>2, <2>3, <2>4 DEF Activates, Activating
<1>15. Concludes'
  BY <1>2, <1>5, <1>8 DEF Concludes, Undoing, Uncommitted
<1>16. StatusHolds'
  BY <1>2, <1>5 DEF Inv, StatusHolds, Uncommitted
<1>17. QED BY <1>10, <1>11, <1>12, <1>13, <1>14, <1>15, <1>16 DEF Inv

\* The second rename: the copy is the root, and the copy's name is free.
LEMMA MoveInKeepsInv == ASSUME Inv, MoveIn PROVE Inv'
<1>1. worker.pc = "moveIn" /\ worker \in Workers /\ journal \in Journals /\ worker.i \in Nat
  BY WorkerFacts DEF MoveIn, At, Inv, TypeOK
<1>2. /\ journal.phase = "prepared" /\ writers = "stopped" /\ K = N
      /\ worker.i \in 1 .. N + 1 /\ (worker.pc # "activate" => worker.i <= N)
      /\ \A j \in Items : j < worker.i => target[j] = "new"
      /\ \A j \in Items : j > worker.i => ~Marked(j) /\ prepared[j] = "new"
  BY <1>1 DEF Inv, Activates, Activating
<1>3. \A j \in Items : Rooted(j)
  BY <1>2, RootFacts DEF Inv, RootsAreKept, Uncommitted
<1>4. Roots /\ Items = 1 .. N /\ N \in Nat /\ \A j \in Items : j \in Nat
  BY RootFacts DEF Inv
<1>5. UNCHANGED <<journal, status, safety, writers>>
  BY DEF MoveIn
<1>6. /\ worker.i \in Items /\ worker.i <= N
      /\ \A j \in Items : j < worker.i \/ j > worker.i => j # worker.i
  <2>1. worker.i \in 1 .. N + 1 /\ worker.i <= N
    BY <1>1, <1>2
  <2>2. worker.i \in 1 .. N
    BY <1>1, <1>4, <2>1
  <2>3. worker.i \in Items
    BY <1>4, <2>2
  <2>4. \A j \in Items : j < worker.i \/ j > worker.i => j # worker.i
    BY <1>1, <1>4
  <2>5. QED BY <2>1, <2>3, <2>4
<1>7. prepared[worker.i] = "new" /\ (worker.i \in Existing => safety[worker.i] = "old") /\ Marked(worker.i)
  BY <1>1 DEF Inv, Activates
<1>8. worker' \in Workers /\ worker'.pc \in {"activated", "failed"} /\ (worker'.pc = "activated" => worker'.i = worker.i)
  BY <1>1, Goes, PCFacts DEF MoveIn, Fails
<1>9. /\ target' \in [Items -> Contents] /\ prepared' \in [Items -> Contents]
      /\ target'[worker.i] = "new" /\ prepared'[worker.i] = "none"
      /\ \A j \in Items : j # worker.i => target'[j] = target[j] /\ prepared'[j] = prepared[j]
  BY <1>6, <1>7 DEF MoveIn, Inv, TypeOK, Contents
<1>10. Roots' /\ TypeOK' /\ JournalIsShort'
  BY <1>5, <1>8, <1>9 DEF Inv, TypeOK, JournalIsShort, K
<1>11. RootsAreKept'
  <2> SUFFICES ASSUME NEW j \in Items PROVE Rooted(j)'
    BY <1>2, <1>4, <1>5 DEF RootsAreKept, K
  <2>1. CASE j = worker.i
    BY <1>3, <1>5, <1>6, <1>7, <1>9, <2>1 DEF Rooted, Marked
  <2>2. CASE j # worker.i
    BY <1>3, <1>5, <1>9, <2>2 DEF Rooted, Marked
  <2>3. QED BY <2>1, <2>2
<1>12. RootsAreWhole'
  BY <1>2, <1>5 DEF RootsAreWhole
<1>13. Prepares'
  BY <1>8 DEF Prepares
<1>14. Activates'
  <2>1. \A j \in Items : j < worker.i => target'[j] = "new"
    BY <1>2, <1>6, <1>9
  <2>2. \A j \in Items : j > worker.i => ~Marked(j)' /\ prepared'[j] = "new"
    BY <1>2, <1>5, <1>6, <1>9 DEF Marked
  <2>3. worker'.pc = "activated" => Marked(worker.i)'
    BY <1>5, <1>7, <1>8 DEF Marked
  <2>4. UNCHANGED <<journal, writers>> /\ K' = K
    BY <1>5 DEF K
  <2>5. QED BY <1>2, <1>5, <1>6, <1>8, <1>9, <2>1, <2>2, <2>3, <2>4 DEF Activates, Activating
<1>15. Concludes'
  BY <1>2, <1>5, <1>8 DEF Concludes, Undoing, Uncommitted
<1>16. StatusHolds'
  BY <1>2, <1>5 DEF Inv, StatusHolds, Uncommitted
<1>17. QED BY <1>10, <1>11, <1>12, <1>13, <1>14, <1>15, <1>16 DEF Inv

\* The second mark follows both renames.
LEMMA ActivatedKeepsInv == ASSUME Inv, Activated PROVE Inv'
<1>1. worker.pc = "activated" /\ worker \in Workers /\ journal \in Journals /\ worker.i \in Nat
  BY WorkerFacts DEF Activated, At, Inv, TypeOK
<1>2. /\ journal.phase = "prepared" /\ writers = "stopped" /\ K = N
      /\ worker.i \in 1 .. N + 1 /\ (worker.pc # "activate" => worker.i <= N)
      /\ \A j \in Items : j < worker.i => target[j] = "new"
      /\ \A j \in Items : j > worker.i => ~Marked(j) /\ prepared[j] = "new"
  BY <1>1 DEF Inv, Activates, Activating
<1>3. \A j \in Items : Rooted(j)
  BY <1>2, RootFacts DEF Inv, RootsAreKept, Uncommitted
<1>4. Roots /\ Items = 1 .. N /\ N \in Nat /\ \A j \in Items : j \in Nat
  BY RootFacts DEF Inv
<1>5. UNCHANGED <<status, target, prepared, safety, writers>>
  BY DEF Activated, roots
<1>6. /\ worker.i \in Items /\ worker.i <= N
      /\ \A j \in Items : j < worker.i \/ j > worker.i => j # worker.i
  <2>1. worker.i \in 1 .. N + 1 /\ worker.i <= N
    BY <1>1, <1>2
  <2>2. worker.i \in 1 .. N
    BY <1>1, <1>4, <2>1
  <2>3. worker.i \in Items
    BY <1>4, <2>2
  <2>4. \A j \in Items : j < worker.i \/ j > worker.i => j # worker.i
    BY <1>1, <1>4
  <2>5. QED BY <2>1, <2>3, <2>4
<1>7. target[worker.i] = "new" /\ Marked(worker.i)
  BY <1>1 DEF Inv, Activates
<1>8. worker' \in Workers /\ worker'.pc = "activate" /\ worker'.i = worker.i + 1
  <2>1. worker.i + 1 \in Nat
    BY <1>1
  <2>2. QED BY <1>1, <2>1, Goes, PCFacts DEF Activated
<1>9. /\ journal' \in Journals /\ journal'.phase = "prepared" /\ Len(journal'.items) = N
      /\ journal'.items[worker.i].existed = journal.items[worker.i].existed /\ journal'.items[worker.i].activated
      /\ \A j \in Items : j # worker.i => journal'.items[j] = journal.items[j]
  <2> DEFINE m == [journal.items[worker.i] EXCEPT !.activated = TRUE, !.activating = FALSE]
  <2>1. worker.i \in 1 .. K
    BY <1>2, <1>4, <1>6
  <2>2. m \in Records /\ m.existed = journal.items[worker.i].existed /\ m.activated
    <3>1. journal.items[worker.i] \in Records
      BY <1>1, <2>1 DEF Journals, K
    <3>2. QED BY <3>1 DEF Records
  <2>3. journal' = [journal EXCEPT !.items[worker.i] = m]
    BY DEF Activated
  <2> HIDE DEF m
  <2>4. /\ journal' \in Journals /\ journal'.phase = journal.phase /\ Len(journal'.items) = K
        /\ journal'.items[worker.i] = m
        /\ \A j \in 1 .. K : j # worker.i => journal'.items[j] = journal.items[j]
    BY <1>1, <2>1, <2>2, <2>3, ItemIsSet
  <2>5. QED BY <1>2, <1>4, <2>2, <2>4
<1>10. Roots' /\ TypeOK' /\ JournalIsShort'
  <2>1. TypeOK'
    BY <1>5, <1>8, <1>9 DEF Inv, TypeOK
  <2>2. JournalIsShort'
    BY <1>4, <1>9 DEF JournalIsShort, K
  <2>3. QED BY <1>4, <2>1, <2>2
<1>11. RootsAreKept'
  <2> SUFFICES ASSUME NEW j \in Items PROVE Rooted(j)'
    BY <1>4, <1>9 DEF RootsAreKept, K
  <2>1. CASE j = worker.i
    BY <1>3, <1>5, <1>7, <1>9, <2>1 DEF Rooted, Marked
  <2>2. CASE j # worker.i
    BY <1>3, <1>5, <1>9, <2>2 DEF Rooted, Marked
  <2>3. QED BY <2>1, <2>2
<1>12. RootsAreWhole'
  BY <1>2, <1>5, <1>9 DEF RootsAreWhole
<1>13. Prepares'
  BY <1>8 DEF Prepares
<1>14. Activates'
  <2>1. \A j \in Items : j < worker'.i => target'[j] = "new"
    BY <1>1, <1>2, <1>4, <1>5, <1>7, <1>8
  <2>2. \A j \in Items : j >= worker'.i => ~Marked(j)' /\ prepared'[j] = "new"
    BY <1>1, <1>2, <1>4, <1>5, <1>8, <1>9 DEF Marked
  <2>3. worker'.i \in 1 .. N + 1 /\ (worker'.i <= N => worker'.i \in Items)
    BY <1>1, <1>2, <1>4, <1>6, <1>8
  <2>4. worker'.i <= N => ~Marked(worker.i)' /\ prepared'[worker'.i] = "new"
    BY <1>1, <1>4, <1>8, <2>2, <2>3 DEF Marked
  <2>5. \A j \in Items : j > worker'.i => ~Marked(j)' /\ prepared'[j] = "new"
    BY <1>1, <1>4, <1>8, <2>2
  <2>6. QED BY <1>2, <1>5, <1>8, <1>9, <2>1, <2>3, <2>4, <2>5 DEF Activates, Activating, K
<1>15. Concludes'
  BY <1>8 DEF Concludes, Undoing
<1>16. StatusHolds'
  BY <1>2, <1>5, <1>9 DEF Inv, StatusHolds, Uncommitted
<1>17. QED BY <1>10, <1>11, <1>12, <1>13, <1>14, <1>15, <1>16 DEF Inv

\* The commit follows a healthy start on the new roots.
LEMMA RestartKeepsInv == ASSUME Inv, Restart PROVE Inv'
<1>1. worker.pc = "restart" /\ worker \in Workers /\ journal \in Journals
  BY DEF Restart, At, Inv, TypeOK
<1>2. journal.phase = "activated" /\ writers = "stopped" /\ AllNew
  BY <1>1 DEF Inv, Activates
<1>3. UNCHANGED <<status, target, prepared, safety>>
  BY DEF Restart, roots
<1>4. CASE writers' = "restarted" /\ Phase("committed") /\ Goto("clean", 0)
  <2>1. worker' \in Workers /\ worker'.pc = "clean"
    BY <1>1, <1>4, Goes, PCFacts
  <2>2. journal' \in Journals /\ journal'.phase = "committed" /\ journal'.items = journal.items
    BY <1>1, <1>4, PhaseIsSet DEF Phases
  <2>3. Roots' /\ TypeOK' /\ JournalIsShort'
    BY <2>1, <2>2, <1>3, <1>4 DEF Inv, TypeOK, JournalIsShort, K
  <2>4. RootsAreKept'
    BY <2>2 DEF RootsAreKept, Uncommitted
  <2>5. RootsAreWhole'
    BY <2>2, <1>2, <1>3, <1>4 DEF RootsAreWhole, AllNew
  <2>6. Prepares'
    BY <2>1 DEF Prepares
  <2>7. Activates'
    BY <2>1 DEF Activates, Activating
  <2>8. Concludes'
    BY <2>1, <2>2 DEF Concludes, Undoing
  <2>9. StatusHolds'
    BY <2>2, <1>2, <1>3 DEF Inv, StatusHolds, Uncommitted
  <2>10. QED BY <2>3, <2>4, <2>5, <2>6, <2>7, <2>8, <2>9 DEF Inv
<1>5. CASE writers' \in {"stopped", "restarted"} /\ UNCHANGED journal /\ Fails
  <2>1. worker' \in Workers /\ worker'.pc = "failed"
    BY <1>1, <1>5, Goes, PCFacts DEF Fails
  <2>2. Roots' /\ TypeOK' /\ JournalIsShort'
    BY <2>1, <1>3, <1>5 DEF Inv, TypeOK, JournalIsShort, K
  <2>3. RootsAreKept'
    BY <1>3, <1>5 DEF Inv, RootsAreKept, Rooted, Marked, K, Uncommitted
  <2>4. RootsAreWhole'
    BY <1>2, <1>3, <1>5 DEF RootsAreWhole, AllNew
  <2>5. Prepares'
    BY <2>1 DEF Prepares
  <2>6. Activates'
    BY <2>1 DEF Activates, Activating
  <2>7. Concludes'
    BY <2>1, <1>2, <1>5 DEF Concludes, Undoing
  <2>8. StatusHolds'
    BY <1>2, <1>3, <1>5 DEF Inv, StatusHolds, Uncommitted
  <2>9. QED BY <2>2, <2>3, <2>4, <2>5, <2>6, <2>7, <2>8 DEF Inv
<1>6. QED BY <1>4, <1>5 DEF Restart

\* After the commit the archive goes.
LEMMA CleanUpKeepsInv == ASSUME Inv, CleanUp PROVE Inv'
<1>1. worker.pc = "clean" /\ worker \in Workers /\ worker.i \in Nat /\ K \in Nat
  BY WorkerFacts DEF CleanUp, At, Inv, TypeOK
<1>2. journal.phase = "committed" /\ UNCHANGED <<journal, status, target, prepared, safety, writers>>
  BY <1>1 DEF Inv, Concludes, CleanUp, roots
<1>3. worker' \in Workers /\ worker'.pc \in {"discard", "failed"}
  BY <1>1, Goes, PCFacts DEF CleanUp, Fails
<1>4. Roots' /\ TypeOK' /\ JournalIsShort'
  BY <1>1, <1>2, <1>3 DEF Inv, TypeOK, JournalIsShort, K, Contents
<1>5. RootsAreKept'
  BY <1>2 DEF RootsAreKept, Uncommitted
<1>6. RootsAreWhole'
  BY <1>1, <1>2, <1>3 DEF Inv, RootsAreWhole, Uncommitted, AllOld, AllNew
<1>7. Prepares'
  BY <1>1, <1>2, <1>3 DEF Inv, Prepares, AllOld
<1>8. Activates'
  BY <1>1, <1>2, <1>3 DEF Inv, Activates, Activating, AllNew
<1>9. Concludes'
  BY <1>1, <1>2, <1>3 DEF Inv, Concludes, Undoing, Uncommitted, AllOld, AllNew
<1>10. StatusHolds'
  BY <1>1, <1>2, <1>3 DEF Inv, StatusHolds, Uncommitted, AllOld, AllNew
<1>11. QED BY <1>4, <1>5, <1>6, <1>7, <1>8, <1>9, <1>10 DEF Inv

\* The safety copies go only after the commit.
LEMMA DiscardKeepsInv == ASSUME Inv, Discard PROVE Inv'
<1>1. worker.pc = "discard" /\ worker \in Workers /\ worker.i \in Nat /\ K \in Nat
  BY WorkerFacts DEF Discard, At, Inv, TypeOK
<1>2. journal.phase = "committed" /\ UNCHANGED <<journal, status, target, writers>>
  BY <1>1 DEF Inv, Concludes, Discard
<1>3. worker' \in Workers /\ worker'.pc \in {"discard", "failed"}
  <2>1. worker.i + 1 \in Nat
    BY <1>1
  <2>2. QED BY <1>1, <2>1, Goes, PCFacts DEF Discard, Fails
<1>4. prepared' \in [Items -> Contents] /\ safety' \in [Items -> Contents]
  BY DEF Discard, Inv, TypeOK, Contents
<1>5. Roots' /\ TypeOK' /\ JournalIsShort'
  BY <1>1, <1>2, <1>3, <1>4 DEF Inv, TypeOK, JournalIsShort, K, Contents
<1>6. RootsAreKept'
  BY <1>2 DEF RootsAreKept, Uncommitted
<1>7. RootsAreWhole'
  BY <1>1, <1>2, <1>3, <1>4 DEF Inv, RootsAreWhole, Uncommitted, AllOld, AllNew
<1>8. Prepares'
  BY <1>1, <1>2, <1>3, <1>4 DEF Inv, Prepares, AllOld
<1>9. Activates'
  BY <1>1, <1>2, <1>3, <1>4 DEF Inv, Activates, Activating, AllNew
<1>10. Concludes'
  BY <1>1, <1>2, <1>3, <1>4 DEF Inv, Concludes, Undoing, Uncommitted, AllOld, AllNew
<1>11. StatusHolds'
  BY <1>1, <1>2, <1>3, <1>4 DEF Inv, StatusHolds, Uncommitted, AllOld, AllNew
<1>12. QED BY <1>5, <1>6, <1>7, <1>8, <1>9, <1>10, <1>11 DEF Inv

\* The journal goes last.
LEMMA UnlinkKeepsInv == ASSUME Inv, Unlink PROVE Inv'
<1>1. worker.pc = "discard" /\ worker \in Workers /\ worker.i \in Nat /\ K \in Nat
  BY WorkerFacts DEF Unlink, At, Inv, TypeOK
<1>2. journal.phase = "committed" /\ UNCHANGED <<status, target, prepared, safety, writers>>
  BY <1>1 DEF Inv, Concludes, Unlink, roots
<1>3. worker' \in Workers /\ worker'.pc = "completed"
  BY <1>1, Goes, PCFacts DEF Unlink
<1>4. journal' = None /\ journal' \in Journals /\ journal'.phase = "none" /\ Len(journal'.items) = 0
  BY NoneFacts DEF Unlink
<1>5. AllNew /\ writers = "restarted" /\ N \in Nat
  BY <1>2, RootFacts DEF Inv, RootsAreWhole
<1>6. Roots' /\ TypeOK' /\ JournalIsShort'
  BY <1>1, <1>2, <1>3, <1>4, <1>5 DEF Inv, TypeOK, JournalIsShort, K, Contents
<1>7. RootsAreKept'
  BY <1>4 DEF RootsAreKept, Uncommitted
<1>8. RootsAreWhole'
  BY <1>1, <1>2, <1>3, <1>4, <1>5 DEF Inv, RootsAreWhole, Uncommitted, AllOld, AllNew
<1>9. Prepares'
  BY <1>1, <1>2, <1>3, <1>4, <1>5 DEF Inv, Prepares, AllOld
<1>10. Activates'
  BY <1>1, <1>2, <1>3, <1>4, <1>5 DEF Inv, Activates, Activating, AllNew
<1>11. Concludes'
  BY <1>1, <1>2, <1>3, <1>4, <1>5 DEF Inv, Concludes, Undoing, Uncommitted, AllOld, AllNew
<1>12. StatusHolds'
  BY <1>1, <1>2, <1>3, <1>4, <1>5 DEF Inv, StatusHolds, Uncommitted, AllOld, AllNew
<1>13. QED BY <1>6, <1>7, <1>8, <1>9, <1>10, <1>11, <1>12 DEF Inv

\* The new roots are there when the status says so.
LEMMA CompletedKeepsInv == ASSUME Inv, Completed PROVE Inv'
<1>1. worker.pc = "completed" /\ worker \in Workers /\ worker.i \in Nat /\ K \in Nat
  BY WorkerFacts DEF Completed, At, Inv, TypeOK
<1>2. journal.phase = "none" /\ AllNew /\ UNCHANGED <<journal, target, prepared, safety, writers>>
  BY <1>1 DEF Inv, Concludes, Completed, roots
<1>3. worker' \in Workers /\ worker'.pc \in {"idle", "exit"} /\ status' = "completed"
  BY <1>1, Ends DEF Completed
<1>4. Roots' /\ TypeOK' /\ JournalIsShort'
  BY <1>1, <1>2, <1>3 DEF Inv, TypeOK, JournalIsShort, K, Contents
<1>5. RootsAreKept'
  BY <1>2 DEF RootsAreKept, Uncommitted
<1>6. RootsAreWhole'
  BY <1>1, <1>2, <1>3 DEF Inv, RootsAreWhole, Uncommitted, AllOld, AllNew
<1>7. Prepares'
  BY <1>1, <1>2, <1>3 DEF Inv, Prepares, AllOld
<1>8. Activates'
  BY <1>1, <1>2, <1>3 DEF Inv, Activates, Activating, AllNew
<1>9. Concludes'
  BY <1>1, <1>2, <1>3 DEF Inv, Concludes, Undoing, Uncommitted, AllOld, AllNew
<1>10. StatusHolds'
  BY <1>1, <1>2, <1>3 DEF Inv, StatusHolds, Uncommitted, AllOld, AllNew
<1>11. QED BY <1>4, <1>5, <1>6, <1>7, <1>8, <1>9, <1>10 DEF Inv

\* The old roots are there when the status says so.
LEMMA RolledBackKeepsInv == ASSUME Inv, RolledBack PROVE Inv'
<1>1. worker.pc = "rolledBack" /\ worker \in Workers /\ worker.i \in Nat /\ K \in Nat
  BY WorkerFacts DEF RolledBack, At, Inv, TypeOK
<1>2. journal.phase = "none" /\ AllOld /\ UNCHANGED <<journal, target, prepared, safety, writers>>
  BY <1>1 DEF Inv, Prepares, RolledBack, roots
<1>3. worker' \in Workers /\ worker'.pc \in {"idle", "exit"} /\ status' = "rolled-back"
  BY <1>1, Ends DEF RolledBack
<1>4. Roots' /\ TypeOK' /\ JournalIsShort'
  BY <1>1, <1>2, <1>3 DEF Inv, TypeOK, JournalIsShort, K, Contents
<1>5. RootsAreKept'
  BY <1>2 DEF RootsAreKept, Uncommitted
<1>6. RootsAreWhole'
  BY <1>1, <1>2, <1>3 DEF Inv, RootsAreWhole, Uncommitted, AllOld, AllNew
<1>7. Prepares'
  BY <1>1, <1>2, <1>3 DEF Inv, Prepares, AllOld
<1>8. Activates'
  BY <1>1, <1>2, <1>3 DEF Inv, Activates, Activating, AllNew
<1>9. Concludes'
  BY <1>1, <1>2, <1>3 DEF Inv, Concludes, Undoing, Uncommitted, AllOld, AllNew
<1>10. StatusHolds'
  BY <1>1, <1>2, <1>3 DEF Inv, StatusHolds, Uncommitted, AllOld, AllNew
<1>11. QED BY <1>4, <1>5, <1>6, <1>7, <1>8, <1>9, <1>10 DEF Inv

\* An exception is judged by the journal: committed, journaled, or nothing done.
LEMMA FailedKeepsInv == ASSUME Inv, Failed PROVE Inv'
<1>1. worker.pc = "failed" /\ worker \in Workers /\ worker.i \in Nat /\ K \in Nat
  BY WorkerFacts DEF Failed, At, Inv, TypeOK
<1>2. UNCHANGED <<journal, target, prepared, safety, writers>>
  BY DEF Failed, roots
<1>3. CASE journal.phase = "committed"
  <2>1. worker' \in Workers /\ worker'.pc \in {"idle", "exit"} /\ status' \in {"completed", "rollback-failed"}
    BY <1>1, <1>3, Ends DEF Failed
  <2>2. journal.phase = "committed" /\ UNCHANGED <<journal, target, prepared, safety, writers>>
    BY <1>2, <1>3
  <2>3. Roots' /\ TypeOK' /\ JournalIsShort'
    BY <2>1, <2>2 DEF Inv, TypeOK, JournalIsShort, K, Contents
  <2>4. RootsAreKept'
    BY <2>2 DEF RootsAreKept, Uncommitted
  <2>5. RootsAreWhole'
    BY <2>1, <2>2 DEF Inv, RootsAreWhole, Uncommitted, AllOld, AllNew
  <2>6. Prepares'
    BY <2>1, <2>2 DEF Inv, Prepares, AllOld
  <2>7. Activates'
    BY <2>1, <2>2 DEF Inv, Activates, Activating, AllNew
  <2>8. Concludes'
    BY <2>1, <2>2 DEF Inv, Concludes, Undoing, Uncommitted, AllOld, AllNew
  <2>9. StatusHolds'
    BY <2>1, <2>2 DEF Inv, StatusHolds, Uncommitted, AllOld, AllNew
  <2>10. QED BY <2>3, <2>4, <2>5, <2>6, <2>7, <2>8, <2>9 DEF Inv
<1>4. CASE Uncommitted
  <2>1. worker' \in Workers /\ worker'.pc = "stop" /\ UNCHANGED status
    BY <1>1, <1>4, Goes, PCFacts DEF Failed, Uncommitted
  <2>2. Uncommitted /\ UNCHANGED <<journal, target, prepared, safety, writers>>
    BY <1>2, <1>4
  <2>3. Roots' /\ TypeOK' /\ JournalIsShort'
    BY <2>1, <2>2 DEF Inv, TypeOK, JournalIsShort, K, Contents
  <2>4. RootsAreKept'
    BY <2>1, <2>2 DEF Inv, RootsAreKept, Uncommitted, Rooted, Marked, K
  <2>5. RootsAreWhole'
    BY <2>1, <2>2 DEF Inv, RootsAreWhole, Uncommitted, AllOld, AllNew
  <2>6. Prepares'
    BY <2>1, <2>2 DEF Inv, Prepares, AllOld
  <2>7. Activates'
    BY <2>1, <2>2 DEF Inv, Activates, Activating, AllNew
  <2>8. Concludes'
    BY <2>1, <2>2 DEF Inv, Concludes, Undoing, Uncommitted, AllOld, AllNew
  <2>9. StatusHolds'
    BY <2>1, <2>2 DEF Inv, StatusHolds, Uncommitted, AllOld, AllNew
  <2>10. QED BY <2>3, <2>4, <2>5, <2>6, <2>7, <2>8, <2>9 DEF Inv
<1>5. CASE journal.phase = "none"
  <2>1. worker' \in Workers /\ worker'.pc \in {"idle", "exit"} /\ status' = "failed"
    BY <1>1, <1>5, Ends DEF Failed
  <2>2. journal.phase = "none" /\ AllOld /\ UNCHANGED <<journal, target, prepared, safety, writers>>
    BY <1>1, <1>2, <1>5 DEF Inv, Concludes
  <2>3. Roots' /\ TypeOK' /\ JournalIsShort'
    BY <2>1, <2>2 DEF Inv, TypeOK, JournalIsShort, K, Contents
  <2>4. RootsAreKept'
    BY <2>2 DEF RootsAreKept, Uncommitted
  <2>5. RootsAreWhole'
    BY <2>1, <2>2 DEF Inv, RootsAreWhole, Uncommitted, AllOld, AllNew
  <2>6. Prepares'
    BY <2>1, <2>2 DEF Inv, Prepares, AllOld
  <2>7. Activates'
    BY <2>1, <2>2 DEF Inv, Activates, Activating, AllNew
  <2>8. Concludes'
    BY <2>1, <2>2 DEF Inv, Concludes, Undoing, Uncommitted, AllOld, AllNew
  <2>9. StatusHolds'
    BY <2>1, <2>2 DEF Inv, StatusHolds, Uncommitted, AllOld, AllNew
  <2>10. QED BY <2>3, <2>4, <2>5, <2>6, <2>7, <2>8, <2>9 DEF Inv
<1>6. QED BY <1>3, <1>4, <1>5 DEF Uncommitted

\* The rollback stops the writers before it touches a root.
LEMMA StopWritersKeepsInv == ASSUME Inv, StopWriters PROVE Inv'
<1>1. worker.pc = "stop" /\ worker \in Workers /\ worker.i \in Nat /\ K \in Nat
  BY WorkerFacts DEF StopWriters, At, Inv, TypeOK
<1>2. UNCHANGED <<journal, target, prepared, safety>> /\ Uncommitted /\ writers' \in {writers, "stopped"}
  BY <1>1 DEF StopWriters, roots, Inv, Concludes
<1>3. CASE writers' = "stopped" /\ Goto("undo", Len(journal.items)) /\ UNCHANGED status
  <2>1. worker' \in Workers /\ worker'.pc = "undo" /\ worker'.i = K
    BY <1>1, <1>3, Goes, PCFacts DEF K
  <2>2. Uncommitted /\ writers' = "stopped" /\ UNCHANGED <<journal, status, target, prepared, safety>> /\ Uncommitted' /\ K' = K
    BY <1>2, <1>3 DEF Uncommitted, K
  <2>3. \A j \in Items : j > K => target[j] = Original(j)
    BY <1>1, <1>2, RootFacts DEF Inv, RootsAreKept
  <2>4. Roots' /\ TypeOK' /\ JournalIsShort'
    BY <2>1, <2>2, <2>3 DEF Inv, TypeOK, JournalIsShort, K, Contents
  <2>5. RootsAreKept'
    BY <2>1, <2>2, <2>3 DEF Inv, RootsAreKept, Uncommitted, Rooted, Marked, K
  <2>6. RootsAreWhole'
    BY <2>1, <2>2, <2>3 DEF Inv, RootsAreWhole, Uncommitted, AllOld, AllNew
  <2>7. Prepares'
    BY <2>1, <2>2, <2>3 DEF Inv, Prepares, AllOld
  <2>8. Activates'
    BY <2>1, <2>2, <2>3 DEF Inv, Activates, Activating, AllNew
  <2>9. Concludes'
    BY <2>1, <2>2, <2>3, <1>1 DEF Concludes, Undoing
  <2>10. StatusHolds'
    BY <2>1, <2>2, <2>3 DEF Inv, StatusHolds, Uncommitted, AllOld, AllNew
  <2>11. QED BY <2>4, <2>5, <2>6, <2>7, <2>8, <2>9, <2>10 DEF Inv
<1>4. CASE End("rollback-failed")
  <2>1. worker' \in Workers /\ worker'.pc \in {"idle", "exit"} /\ status' = "rollback-failed"
    BY <1>1, <1>4, Ends
  <2>2. Uncommitted /\ writers' \in {writers, "stopped"} /\ UNCHANGED <<journal, target, prepared, safety>>
    BY <1>2
  <2>3. Roots' /\ TypeOK' /\ JournalIsShort'
    BY <2>1, <2>2 DEF Inv, TypeOK, JournalIsShort, K, Contents
  <2>4. RootsAreKept'
    BY <2>1, <2>2 DEF Inv, RootsAreKept, Uncommitted, Rooted, Marked, K
  <2>5. RootsAreWhole'
    BY <2>1, <2>2 DEF Inv, RootsAreWhole, Uncommitted, AllOld, AllNew
  <2>6. Prepares'
    BY <2>1, <2>2 DEF Inv, Prepares, AllOld
  <2>7. Activates'
    BY <2>1, <2>2 DEF Inv, Activates, Activating, AllNew
  <2>8. Concludes'
    BY <2>1, <2>2 DEF Inv, Concludes, Undoing, Uncommitted, AllOld, AllNew
  <2>9. StatusHolds'
    BY <2>1, <2>2 DEF Inv, StatusHolds, Uncommitted, AllOld, AllNew
  <2>10. QED BY <2>3, <2>4, <2>5, <2>6, <2>7, <2>8, <2>9 DEF Inv
<1>5. QED BY <1>3, <1>4 DEF StopWriters

\* The last item first: the files that exist say which renames were made, and a root is
\* removed only with its safety copy there.
LEMMA UndoKeepsInv == ASSUME Inv, Undo PROVE Inv'
<1>1. worker.pc = "undo" /\ worker \in Workers /\ worker.i \in Nat /\ K \in Nat
  BY WorkerFacts DEF Undo, At, Inv, TypeOK
<1>2. Uncommitted /\ writers = "stopped" /\ worker.i <= K /\ \A j \in Items : j > worker.i => target[j] = Original(j)
  BY <1>1 DEF Inv, Concludes, Undoing
<1>3. \A j \in Items : IF j <= K THEN Rooted(j) ELSE target[j] = Original(j)
  BY <1>2 DEF Inv, RootsAreKept
<1>4. Roots /\ Items = 1 .. N /\ N \in Nat /\ K <= N /\ \A j \in Items : j \in Nat
  BY RootFacts DEF Inv, JournalIsShort
<1>5. UNCHANGED <<journal, status, prepared, safety, writers>> /\ Uncommitted' /\ K' = K
  BY <1>2 DEF Undo, Uncommitted, K
<1>6. CASE worker.i = 0
  <2>1. worker' \in Workers /\ worker'.pc = "reconcile" /\ UNCHANGED target
    BY <1>1, <1>6, Goes, PCFacts DEF Undo
  <2>2. AllOld
    BY <1>2, <1>4, <1>6 DEF AllOld
  <2>3. Uncommitted /\ writers = "stopped" /\ UNCHANGED <<journal, status, prepared, safety, writers>> /\ Uncommitted' /\ K' = K
    BY <1>2, <1>5
  <2>4. Roots' /\ TypeOK' /\ JournalIsShort'
    BY <2>1, <2>2, <2>3 DEF Inv, TypeOK, JournalIsShort, K, Contents
  <2>5. RootsAreKept'
    BY <2>1, <2>2, <2>3 DEF Inv, RootsAreKept, Uncommitted, Rooted, Marked, K
  <2>6. RootsAreWhole'
    BY <2>1, <2>2, <2>3 DEF Inv, RootsAreWhole, Uncommitted, AllOld, AllNew
  <2>7. Prepares'
    BY <2>1, <2>2, <2>3 DEF Inv, Prepares, AllOld
  <2>8. Activates'
    BY <2>1, <2>2, <2>3 DEF Inv, Activates, Activating, AllNew
  <2>9. Concludes'
    BY <2>1, <2>2, <2>3 DEF Inv, Concludes, Undoing, Uncommitted, AllOld, AllNew
  <2>10. StatusHolds'
    BY <2>1, <2>2, <2>3 DEF Inv, StatusHolds, Uncommitted, AllOld, AllNew
  <2>11. QED BY <2>4, <2>5, <2>6, <2>7, <2>8, <2>9, <2>10 DEF Inv
<1>7. CASE worker.i > 0
  <2> DEFINE i == worker.i
  <2>1. i \in Items
    <3>1. i \in 1 .. N
      BY <1>1, <1>2, <1>4, <1>7
    <3>2. QED BY <1>4, <3>1
  <2>2. Rooted(i)
    BY <1>2, <1>3, <2>1
  <2>3. CASE ~Changed(i)
    <3>1. worker' \in Workers /\ worker'.pc = "dropCopy" /\ worker'.i = i /\ UNCHANGED target
      <4>1. worker.i # 0
        BY <1>1, <1>7
      <4>2. Goto("dropCopy", i) /\ UNCHANGED target
        BY <1>7, <2>3, <4>1 DEF Undo
      <4>3. QED BY <1>1, <4>2, Goes, PCFacts
    <3>2. target[i] = Original(i)
      BY <2>2, <2>3 DEF Changed, Rooted, Marked, Original
    <3>3. UNCHANGED <<journal, status, target, prepared, safety, writers>>
      BY <1>5, <3>1
    <3>4. Roots' /\ TypeOK' /\ JournalIsShort'
      BY <3>1, <3>3 DEF Inv, TypeOK, JournalIsShort, K
    <3>5. RootsAreKept'
      BY <3>3 DEF Inv, RootsAreKept, Uncommitted, Rooted, Marked, K
    <3>6. RootsAreWhole'
      BY <3>3 DEF Inv, RootsAreWhole, AllOld, AllNew
    <3>7. Prepares'
      BY <3>1 DEF Prepares
    <3>8. Activates'
      BY <3>1 DEF Activates, Activating
    <3>9. Concludes'
      BY <1>2, <1>5, <1>7, <3>1, <3>2 DEF Concludes, Undoing
    <3>10. StatusHolds'
      BY <3>3 DEF Inv, StatusHolds, Uncommitted, AllOld, AllNew
    <3>11. QED BY <3>4, <3>5, <3>6, <3>7, <3>8, <3>9, <3>10 DEF Inv
  <2>4. CASE Changed(i)
    <3>1. PICK content \in {"none", "part"} :
            /\ target' = [target EXCEPT ![i] = content]
            /\ worker' \in Workers /\ worker'.i = i
            /\ worker'.pc = (IF content = "none" THEN "putBack" ELSE "undo")
      <4>1. CASE target' = [target EXCEPT ![i] = "none"] /\ Goto("putBack", i)
        <5>1. worker' \in Workers /\ worker'.pc = "putBack" /\ worker'.i = i
          BY <1>1, <4>1, Goes, PCFacts
        <5>2. QED BY <4>1, <5>1
      <4>2. CASE target' = [target EXCEPT ![i] = "part"] /\ UNCHANGED worker
        BY <1>1, <4>2
      <4>3. worker.i # 0
        BY <1>1, <1>7
      <4>4. \/ target' = [target EXCEPT ![i] = "none"] /\ Goto("putBack", i)
            \/ target' = [target EXCEPT ![i] = "part"] /\ UNCHANGED worker
        BY <1>7, <2>4, <4>3 DEF Undo
      <4>5. QED BY <4>1, <4>2, <4>4
    <3>2. /\ target' \in [Items -> Contents] /\ target'[i] # "old" /\ target'[i] # "new"
          /\ (worker'.pc = "putBack" => target'[i] = "none")
          /\ \A j \in Items : j # i => target'[j] = target[j]
      BY <2>1, <3>1 DEF Inv, TypeOK, Contents
    <3>3. /\ Marked(i) /\ (i \in Existing => safety[i] = "old") /\ (i \notin Existing => prepared[i] = "none")
      BY <2>2, <2>4 DEF Changed, Rooted, Marked
    <3>4. journal' = journal /\ prepared' = prepared /\ safety' = safety /\ writers' = "stopped" /\ status' = status
      BY <1>2, <1>5
    <3>5. Roots' /\ TypeOK' /\ JournalIsShort'
      BY <3>1, <3>2, <3>4, <1>5 DEF Inv, TypeOK, JournalIsShort
    <3>6. RootsAreKept'
      <4> SUFFICES ASSUME NEW j \in Items PROVE IF j <= K THEN Rooted(j)' ELSE target'[j] = Original(j)
        BY <1>5 DEF RootsAreKept
      <4>1. CASE j = i
        BY <1>2, <2>2, <3>3, <3>4, <4>1 DEF Rooted, Marked
      <4>2. CASE j # i
        BY <1>3, <3>2, <3>4, <4>2 DEF Rooted, Marked
      <4>3. QED BY <4>1, <4>2
    <3>7. RootsAreWhole'
      BY <1>2, <3>4 DEF RootsAreWhole, Uncommitted
    <3>8. Prepares'
      BY <3>1 DEF Prepares
    <3>9. Activates'
      BY <3>1 DEF Activates, Activating
    <3>10. Concludes'
      <4>1. \A j \in Items : j > i => target'[j] = Original(j)
        BY <1>1, <1>2, <1>4, <3>2
      <4>2. QED BY <1>2, <1>5, <1>7, <3>1, <3>2, <3>3, <3>4, <4>1 DEF Concludes, Undoing
    <3>11. StatusHolds'
      BY <1>2, <1>5, <3>4 DEF Inv, StatusHolds, Uncommitted
    <3>12. QED BY <3>5, <3>6, <3>7, <3>8, <3>9, <3>10, <3>11 DEF Inv
  <2>5. QED BY <2>3, <2>4
<1>8. QED BY <1>1, <1>6, <1>7

\* The safety copy is the root again.
LEMMA PutBackKeepsInv == ASSUME Inv, PutBack PROVE Inv'
<1>1. worker.pc = "putBack" /\ worker \in Workers /\ worker.i \in Nat /\ K \in Nat
  BY WorkerFacts DEF PutBack, At, Inv, TypeOK
<1>2. Uncommitted /\ writers = "stopped" /\ worker.i <= K /\ \A j \in Items : j > worker.i => target[j] = Original(j)
  BY <1>1 DEF Inv, Concludes, Undoing
<1>3. \A j \in Items : IF j <= K THEN Rooted(j) ELSE target[j] = Original(j)
  BY <1>2 DEF Inv, RootsAreKept
<1>4. Roots /\ Items = 1 .. N /\ N \in Nat /\ K <= N /\ \A j \in Items : j \in Nat
  BY RootFacts DEF Inv, JournalIsShort
<1>5. UNCHANGED <<journal, status, prepared, writers>> /\ Uncommitted' /\ K' = K
  BY <1>2 DEF PutBack, Uncommitted, K
<1>6. worker.i > 0 /\ target[worker.i] = "none" /\ (worker.i \in Existing => safety[worker.i] = "old")
  BY <1>1 DEF Inv, Concludes
<1> DEFINE i == worker.i
<1>7. i \in Items
  <2>1. i \in 1 .. N
    BY <1>1, <1>2, <1>4, <1>6
  <2>2. QED BY <1>4, <2>1
<1>8. Rooted(i)
  BY <1>2, <1>3, <1>7
<1>9. worker' \in Workers /\ worker'.pc = "dropCopy" /\ worker'.i = i
  BY <1>1, Goes, PCFacts DEF PutBack
<1>10. /\ target' \in [Items -> Contents] /\ safety' \in [Items -> Contents]
       /\ target'[i] = Original(i) /\ safety'[i] = "none"
       /\ \A j \in Items : j # i => target'[j] = target[j] /\ safety'[j] = safety[j]
  <2>1. CASE i \in Existing
    <3>1. target' = [target EXCEPT ![i] = "old"] /\ safety' = [safety EXCEPT ![i] = "none"]
      BY <1>6, <1>8, <2>1 DEF PutBack, Rooted
    <3>2. QED BY <1>7, <2>1, <3>1 DEF Inv, TypeOK, Contents, Original
  <2>2. CASE i \notin Existing
    <3>1. UNCHANGED <<target, safety>>
      BY <1>8, <2>2 DEF PutBack, Rooted
    <3>2. QED BY <1>6, <1>8, <2>2, <3>1 DEF Inv, TypeOK, Original, Rooted
  <2>3. QED BY <2>1, <2>2
<1>11. Roots' /\ TypeOK' /\ JournalIsShort'
  BY <1>5, <1>9, <1>10 DEF Inv, TypeOK, JournalIsShort
<1>12. RootsAreKept'
  <2> SUFFICES ASSUME NEW j \in Items PROVE IF j <= K THEN Rooted(j)' ELSE target'[j] = Original(j)
    BY <1>5 DEF RootsAreKept
  <2>1. CASE j = i
    BY <1>2, <1>5, <1>8, <1>10, <2>1 DEF Rooted, Marked, Original
  <2>2. CASE j # i
    BY <1>3, <1>5, <1>10, <2>2 DEF Rooted, Marked
  <2>3. QED BY <2>1, <2>2
<1>13. RootsAreWhole'
  BY <1>2, <1>5 DEF RootsAreWhole, Uncommitted
<1>14. Prepares'
  BY <1>9 DEF Prepares
<1>15. Activates'
  BY <1>9 DEF Activates, Activating
<1>16. Concludes'
  <2>1. \A j \in Items : j > i => target'[j] = Original(j)
    BY <1>1, <1>2, <1>4, <1>10
  <2>2. QED BY <1>2, <1>5, <1>6, <1>9, <1>10, <2>1 DEF Concludes, Undoing
<1>17. StatusHolds'
  BY <1>2, <1>5 DEF Inv, StatusHolds, Uncommitted
<1>18. QED BY <1>11, <1>12, <1>13, <1>14, <1>15, <1>16, <1>17 DEF Inv

\* With its copy gone, and its root as it was, an item is undone.
LEMMA DropCopyKeepsInv == ASSUME Inv, DropCopy PROVE Inv'
<1>1. worker.pc = "dropCopy" /\ worker \in Workers /\ worker.i \in Nat /\ K \in Nat
  BY WorkerFacts DEF DropCopy, At, Inv, TypeOK
<1>2. Uncommitted /\ writers = "stopped" /\ worker.i <= K /\ \A j \in Items : j > worker.i => target[j] = Original(j)
  BY <1>1 DEF Inv, Concludes, Undoing
<1>3. \A j \in Items : IF j <= K THEN Rooted(j) ELSE target[j] = Original(j)
  BY <1>2 DEF Inv, RootsAreKept
<1>4. Roots /\ Items = 1 .. N /\ N \in Nat /\ K <= N /\ \A j \in Items : j \in Nat
  BY RootFacts DEF Inv, JournalIsShort
<1>5. UNCHANGED <<journal, target, safety, writers>> /\ Uncommitted' /\ K' = K
  BY <1>2 DEF DropCopy, Uncommitted, K
<1>6. worker.i > 0 /\ target[worker.i] = Original(worker.i)
  BY <1>1 DEF Inv, Concludes
<1>7. /\ prepared' \in [Items -> Contents]
      /\ \A j \in Items : prepared'[j] \in {prepared[j], "none"}
  BY DEF DropCopy, Inv, TypeOK, Contents
<1>8. \/ worker' \in Workers /\ worker'.pc = "undo" /\ worker'.i = worker.i - 1 /\ status' = status
      \/ worker' \in Workers /\ worker'.pc \in {"idle", "exit"} /\ status' = "rollback-failed"
  <2>1. worker.i - 1 \in Nat
    BY <1>1, <1>6
  <2>2. QED BY <1>1, <2>1, Goes, PCFacts, Ends DEF DropCopy
<1>9. Roots' /\ TypeOK' /\ JournalIsShort'
  BY <1>5, <1>7, <1>8 DEF Inv, TypeOK, JournalIsShort
<1>10. RootsAreKept'
  <2> SUFFICES ASSUME NEW j \in Items PROVE IF j <= K THEN Rooted(j)' ELSE target'[j] = Original(j)
    BY <1>5 DEF RootsAreKept
  <2>1. QED BY <1>3, <1>5, <1>7 DEF Rooted, Marked, Original
<1>11. RootsAreWhole'
  BY <1>2, <1>5 DEF RootsAreWhole, Uncommitted
<1>12. Prepares'
  BY <1>8 DEF Prepares
<1>13. Activates'
  BY <1>8 DEF Activates, Activating
<1>14. Concludes'
  <2>1. \A j \in Items : j > worker.i - 1 => target[j] = Original(j)
    BY <1>1, <1>2, <1>4, <1>6
  <2>2. worker.i - 1 <= K
    BY <1>1, <1>2
  <2>3. QED BY <1>2, <1>5, <1>8, <2>1, <2>2 DEF Concludes, Undoing
<1>15. StatusHolds'
  BY <1>2, <1>5, <1>8 DEF Inv, StatusHolds, Uncommitted
<1>16. QED BY <1>9, <1>10, <1>11, <1>12, <1>13, <1>14, <1>15 DEF Inv

\* The journal of a rollback goes when every root is as it was.
LEMMA ReconcileKeepsInv == ASSUME Inv, Reconcile PROVE Inv'
<1>1. worker.pc = "reconcile" /\ worker \in Workers /\ worker.i \in Nat /\ K \in Nat
  BY WorkerFacts DEF Reconcile, At, Inv, TypeOK
<1>2. Uncommitted /\ AllOld /\ UNCHANGED <<target, prepared, safety>>
  BY <1>1 DEF Inv, Concludes, Undoing, Reconcile, roots
<1>3. CASE writers' = "asBefore" /\ journal' = None /\ Goto("rolledBack", 0) /\ UNCHANGED status
  <2>1. worker' \in Workers /\ worker'.pc = "rolledBack"
    BY <1>1, <1>3, Goes, PCFacts
  <2>2. journal' = None /\ journal' \in Journals /\ journal'.phase = "none" /\ Len(journal'.items) = 0
    BY <1>3, NoneFacts
  <2>3. AllOld /\ writers' = "asBefore" /\ Uncommitted /\ UNCHANGED <<status, target, prepared, safety>> /\ N \in Nat
    BY <1>2, <1>3, RootFacts DEF Inv
  <2>4. Roots' /\ TypeOK' /\ JournalIsShort'
    BY <2>1, <2>2, <2>3 DEF Inv, TypeOK, JournalIsShort, K, Contents
  <2>5. RootsAreKept'
    BY <2>2 DEF RootsAreKept, Uncommitted
  <2>6. RootsAreWhole'
    BY <2>1, <2>2, <2>3 DEF Inv, RootsAreWhole, Uncommitted, AllOld, AllNew
  <2>7. Prepares'
    BY <2>1, <2>2, <2>3 DEF Inv, Prepares, AllOld
  <2>8. Activates'
    BY <2>1, <2>2, <2>3 DEF Inv, Activates, Activating, AllNew
  <2>9. Concludes'
    BY <2>1, <2>2, <2>3 DEF Concludes, Undoing
  <2>10. StatusHolds'
    BY <2>1, <2>2, <2>3 DEF Inv, StatusHolds, Uncommitted, AllOld, AllNew
  <2>11. QED BY <2>4, <2>5, <2>6, <2>7, <2>8, <2>9, <2>10 DEF Inv
<1>4. CASE writers' \in {writers, "asBefore"} /\ UNCHANGED journal /\ End("rollback-failed")
  <2>1. worker' \in Workers /\ worker'.pc \in {"idle", "exit"} /\ status' = "rollback-failed"
    BY <1>1, <1>4, Ends
  <2>2. Uncommitted /\ AllOld /\ writers' \in {writers, "asBefore"} /\ UNCHANGED <<journal, target, prepared, safety>>
    BY <1>2, <1>4
  <2>3. Roots' /\ TypeOK' /\ JournalIsShort'
    BY <2>1, <2>2 DEF Inv, TypeOK, JournalIsShort, K, Contents
  <2>4. RootsAreKept'
    BY <2>1, <2>2 DEF Inv, RootsAreKept, Uncommitted, Rooted, Marked, K
  <2>5. RootsAreWhole'
    BY <2>1, <2>2 DEF Inv, RootsAreWhole, Uncommitted, AllOld, AllNew
  <2>6. Prepares'
    BY <2>1, <2>2 DEF Inv, Prepares, AllOld
  <2>7. Activates'
    BY <2>1, <2>2 DEF Inv, Activates, Activating, AllNew
  <2>8. Concludes'
    BY <2>1, <2>2 DEF Inv, Concludes, Undoing, Uncommitted, AllOld, AllNew
  <2>9. StatusHolds'
    BY <2>1, <2>2 DEF Inv, StatusHolds, Uncommitted, AllOld, AllNew
  <2>10. QED BY <2>3, <2>4, <2>5, <2>6, <2>7, <2>8, <2>9 DEF Inv
<1>5. QED BY <1>3, <1>4 DEF Reconcile

\* A start finds the journal, and goes on from it alone.
LEMMA StartupRecoverKeepsInv == ASSUME Inv, StartupRecover PROVE Inv'
<1>1. journal \in Journals /\ journal # None /\ (journal.phase = "none" => journal = None)
  BY DEF StartupRecover, Inv, TypeOK, JournalIsShort
<1>2. UNCHANGED <<journal, target, prepared, safety, writers>> /\ status' = "rollback"
  BY DEF StartupRecover, roots
<1>3. worker' \in Workers /\ worker'.pc \in {"discard", "stop"} /\ (worker'.pc = "discard" <=> journal.phase = "committed")
  BY PCFacts DEF StartupRecover, Workers
<1>4. journal.phase # "none"
  BY <1>1
<1>5. Roots' /\ TypeOK' /\ JournalIsShort'
  BY <1>1, <1>2, <1>3, <1>4 DEF Inv, TypeOK, JournalIsShort, K, Contents
<1>6. RootsAreKept'
  BY <1>1, <1>2, <1>3, <1>4 DEF Inv, RootsAreKept, Uncommitted, Rooted, Marked, K
<1>7. RootsAreWhole'
  BY <1>1, <1>2, <1>3, <1>4 DEF Inv, RootsAreWhole, Uncommitted, AllOld, AllNew
<1>8. Prepares'
  BY <1>1, <1>2, <1>3, <1>4 DEF Inv, Prepares, AllOld
<1>9. Activates'
  BY <1>1, <1>2, <1>3, <1>4 DEF Inv, Activates, Activating, AllNew
<1>10. Concludes'
  BY <1>1, <1>2, <1>3, <1>4 DEF Inv, Concludes, Undoing, Uncommitted, AllOld, AllNew
<1>11. StatusHolds'
  BY <1>1, <1>2, <1>3, <1>4 DEF Inv, StatusHolds, Uncommitted, AllOld, AllNew
<1>12. QED BY <1>5, <1>6, <1>7, <1>8, <1>9, <1>10, <1>11 DEF Inv

\* What an end of the process leaves is what the invariant says for no worker.
LEMMA KilledKeepsInv == ASSUME Inv, Killed PROVE Inv'
<1>1. worker' \in Workers /\ worker'.pc = "idle" /\ UNCHANGED <<journal, status, target, prepared, safety, writers>>
  BY IdleFacts DEF Killed, roots
<1>2. Roots' /\ TypeOK' /\ JournalIsShort'
  BY <1>1 DEF Inv, TypeOK, JournalIsShort, K, Contents
<1>3. RootsAreKept'
  BY <1>1 DEF Inv, RootsAreKept, Uncommitted, Rooted, Marked, K
<1>4. RootsAreWhole'
  BY <1>1 DEF Inv, RootsAreWhole, Uncommitted, AllOld, AllNew
<1>5. Prepares'
  BY <1>1 DEF Inv, Prepares, AllOld
<1>6. Activates'
  BY <1>1 DEF Inv, Activates, Activating, AllNew
<1>7. Concludes'
  BY <1>1 DEF Inv, Concludes, Undoing, Uncommitted, AllOld, AllNew
<1>8. StatusHolds'
  BY <1>1 DEF Inv, StatusHolds, Uncommitted, AllOld, AllNew
<1>9. QED BY <1>2, <1>3, <1>4, <1>5, <1>6, <1>7, <1>8 DEF Inv

-----------------------------------------------------------------------------
\* No recovery was made yet.
LEMMA InitInv == ASSUME Roots, Init PROVE Inv
<1>1. /\ Idle \in Workers /\ Idle.pc = "idle" /\ None \in Journals /\ None.phase = "none" /\ Len(None.items) = 0
  BY IdleFacts, NoneFacts
<1>2. /\ journal = None /\ status = "idle" /\ worker = Idle /\ writers = "asBefore"
      /\ target = [i \in Items |-> Original(i)]
      /\ prepared = [i \in Items |-> "none"] /\ safety = [i \in Items |-> "none"]
  BY DEF Init
<1>3. AllOld
  BY <1>2 DEF AllOld
<1>4. TypeOK
  BY <1>1, <1>2 DEF TypeOK, Contents, Original
<1>5. N \in Nat
  BY RootFacts
<1>6. JournalIsShort /\ RootsAreKept
  BY <1>1, <1>2, <1>5 DEF JournalIsShort, K, RootsAreKept, Uncommitted
<1>7. RootsAreWhole
  BY <1>1, <1>2, <1>3 DEF RootsAreWhole
<1>8. Prepares /\ Activates /\ Concludes
  BY <1>1, <1>2 DEF Prepares, Activates, Activating, Concludes, Undoing
<1>9. StatusHolds
  BY <1>1, <1>2, <1>3 DEF StatusHolds, Uncommitted
<1>10. QED BY <1>4, <1>6, <1>7, <1>8, <1>9 DEF Inv

\* Every step keeps the invariant.
LEMMA NextKeepsInv == ASSUME Inv, [Next]_state PROVE Inv'
<1>1. CASE UNCHANGED state
  BY <1>1, UnchangedKeepsInv DEF state, roots
<1>2. CASE Start \/ StartupRecover \/ Killed
  BY <1>2, StartKeepsInv, StartupRecoverKeepsInv, KilledKeepsInv
<1>3. CASE Step
  BY <1>3, BeginKeepsInv, PreflightKeepsInv, QuiesceKeepsInv, PrepareKeepsInv, CopyKeepsInv, ActivateKeepsInv,
     MoveAwayKeepsInv, MoveInKeepsInv, ActivatedKeepsInv, RestartKeepsInv, CleanUpKeepsInv, DiscardKeepsInv,
     UnlinkKeepsInv, CompletedKeepsInv, FailedKeepsInv, StopWritersKeepsInv, UndoKeepsInv, PutBackKeepsInv,
     DropCopyKeepsInv, ReconcileKeepsInv, RolledBackKeepsInv DEF Step
<1>4. QED BY <1>1, <1>2, <1>3 DEF Next

\* The invariant holds throughout, for any roots of which at least one is recovered.
THEOREM Invariance == ASSUME Roots PROVE Spec => []Inv
<1>1. Init => Inv
  BY InitInv
<1>2. Inv /\ [Next]_state => Inv'
  BY NextKeepsInv
<1>3. QED BY <1>1, <1>2, PTL DEF Spec

\* The invariant is about the roots.
LEMMA InvImplies == ASSUME Inv PROVE NothingIsLost
<1>1. CASE Uncommitted
  <2>1. \A i \in Items : i \in Existing => target[i] = "old" \/ safety[i] = "old"
    <3> SUFFICES ASSUME NEW i \in Items, i \in Existing PROVE target[i] = "old" \/ safety[i] = "old"
      OBVIOUS
    <3>1. IF i <= K THEN Rooted(i) ELSE target[i] = Original(i)
      BY <1>1 DEF Inv, RootsAreKept
    <3>2. QED BY <3>1 DEF Rooted, Original
  <2>2. QED BY <2>1 DEF Inv, Roots, RootsAreWhole, NothingIsLost
<1>2. CASE journal.phase \in {"none", "committed"}
  <2>1. AllOld => \A i \in Existing : target[i] = "old"
    BY DEF Inv, Roots, AllOld, Original
  <2>2. QED BY <1>2, <2>1 DEF Inv, RootsAreWhole, NothingIsLost
<1>3. QED BY <1>1, <1>2 DEF Uncommitted

\* Every root that was there is in its place or next to it as a whole safety copy, until
\* all are replaced and the appliance runs on them; and nothing writes while some are
\* replaced and some are not (_rollback, _commit).
THEOREM RootsKept == ASSUME Roots PROVE Spec => []NothingIsLost
<1>1. Inv => NothingIsLost
  BY InvImplies
<1>2. QED BY <1>1, Invariance, PTL

-----------------------------------------------------------------------------
\* What is recorded of the roots.
RecordHolds ==
    /\ Uncommitted => Recorded = "unknown"
    /\ Recorded = "unknown" \/ (Recorded = Deployed /\ Deployed \in {"old", "new"})
    /\ Deployed \in {"old", "new", "mixed"}

\* What the journal or the status says of an ended recovery is what is in the roots.
LEMMA RecordedFacts == Inv => RecordHolds
<1> SUFFICES ASSUME Inv PROVE RecordHolds
  OBVIOUS
<1>1. ~(AllOld /\ AllNew)
  BY WholesDiffer DEF Inv
<1>2. /\ AllOld => Deployed = "old"
      /\ AllNew => Deployed = "new"
      /\ Deployed \in {"old", "new", "mixed"}
  BY <1>1 DEF Deployed
<1>3. journal.phase = "none" <=> journal = None
  BY NoneFacts DEF Inv, JournalIsShort
<1>4. CASE journal.phase = "committed"
  BY <1>2, <1>3, <1>4 DEF Inv, RootsAreWhole, RecordHolds, Recorded, Uncommitted
<1>5. CASE journal.phase = "none"
  BY <1>2, <1>3, <1>5 DEF Inv, StatusHolds, RecordHolds, Recorded, Uncommitted
<1>6. CASE Uncommitted
  BY <1>2, <1>3, <1>6 DEF RecordHolds, Recorded, Uncommitted
<1>7. QED BY <1>4, <1>5, <1>6 DEF Uncommitted

\* The same, after a step.
LEMMA RecordedFactsNext == Inv' => RecordHolds'
BY RecordedFacts, PTL

\* A step changes a root only with an uncommitted recovery in the journal.
LEMMA ChangesAreJournaled ==
    ASSUME Inv, Next
    PROVE  UNCHANGED target \/ (Uncommitted /\ Uncommitted')
<1>1. CASE MoveAway \/ MoveIn
  <2>1. journal.phase = "prepared" /\ journal' = journal
    BY <1>1 DEF MoveAway, MoveIn, At, Inv, Activates, Activating
  <2>2. QED BY <2>1 DEF Uncommitted
<1>2. CASE Undo \/ PutBack
  <2>1. Uncommitted /\ journal' = journal
    BY <1>2 DEF Undo, PutBack, At, Inv, Concludes, Undoing
  <2>2. QED BY <2>1 DEF Uncommitted
<1>3. CASE Start \/ StartupRecover \/ Killed
  BY <1>3 DEF Start, StartupRecover, Killed, roots
<1>4. CASE \/ Begin \/ Preflight \/ Quiesce \/ Prepare \/ Copy \/ Activate \/ Activated \/ Restart
           \/ CleanUp \/ Discard \/ Unlink \/ Completed \/ Failed \/ StopWriters \/ DropCopy \/ Reconcile \/ RolledBack
  BY <1>4 DEF Begin, Preflight, Quiesce, Prepare, Copy, Activate, Activated, Restart,
     CleanUp, Discard, Unlink, Completed, Failed, StopWriters, DropCopy, Reconcile, RolledBack, roots
<1>5. QED BY <1>1, <1>2, <1>3, <1>4 DEF Next, Step

\* Every step is one of AllOrNothing, or leaves what it is about.
LEMMA StepIsAllOrNothing ==
    ASSUME Inv, Inv', [Next]_state
    PROVE  [Change!Next]_<<Deployed, Recorded>>
<1>1. RecordHolds /\ RecordHolds'
  BY RecordedFacts, RecordedFactsNext
<1>2. CASE Deployed' = Deployed
  BY <1>1, <1>2 DEF RecordHolds, Change!Next, Change!Begin, Change!Settle
<1>3. CASE Uncommitted /\ Uncommitted'
  BY <1>1, <1>3 DEF RecordHolds, Change!Next, Change!Change
<1>4. UNCHANGED target => Deployed' = Deployed
  BY DEF Deployed, AllOld, AllNew
<1>5. QED
  BY <1>2, <1>3, <1>4, ChangesAreJournaled DEF state, roots

\* A full recovery is all or nothing: when the journal is gone, or committed, the roots
\* are all the old ones or all the new ones, and they are what the status says.
THEOREM AllOrNothing == ASSUME Roots PROVE Spec => Change!Spec
<1>1. Init => Change!Init
  <2> SUFFICES ASSUME Init PROVE Change!Init
    OBVIOUS
  <2>1. AllOld /\ journal = None /\ status = "idle"
    BY DEF Init, AllOld
  <2>2. None.phase = "none"
    BY DEF None
  <2>3. QED BY <2>1, <2>2 DEF Change!Init, Deployed, Recorded
<1>2. Inv /\ Inv' /\ [Next]_state => [Change!Next]_<<Deployed, Recorded>>
  BY StepIsAllOrNothing
<1>3. QED
  BY <1>1, <1>2, Invariance, PTL DEF Spec, Change!Spec

==============================================================================
