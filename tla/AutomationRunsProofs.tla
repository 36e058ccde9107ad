------------------------ MODULE AutomationRunsProofs ------------------------
(* What holds of the runs of Classroom Automation for any set of occurrences, *)
(* manual runs, tests and resources.  Every property is a part of one         *)
(* inductive invariant; the parts that concern ownership are proved over the  *)
(* few ways in which a step can change the registry of runs.                  *)
EXTENDS AutomationRuns, TLAPS

\* Whatever is under way has an owner.
Registered == \A x \in Owners : pc[x] # "none" => x \in owners

\* Of two owners that share a resource, one waits for the other; nothing that waits executes.
Ordered ==
    /\ \A x \in owners : Executing(x) => waits[x] = {}
    /\ \A x, y \in owners : x # y /\ Shares(x, y) => x \in waits[y] \/ y \in waits[x]

\* A stop on disk concerns a run in memory only while that run is flagged.
StopsAreFlagged == stops \cap owners \subseteq flagged

\* What runs, or has run, for an occurrence that does not loop is marked on disk.
MarkedOnDisk ==
    /\ saved \subseteq marked
    /\ \A i \in Scheduled \ Continuous :
          /\ i \in owners \cup begun => i \in saved
          /\ i \in begun => pc[i] # "waiting"

\* No request is on its way to a handler either.
Sealed == freeze = "active" => admitted # "open" /\ FrozenIsQuiet

\* The managed manual runs of an earlier moment that are not done are being awaited.
BygoneIsAwaited ==
    bygone \cap Manual \subseteq IF resume = "cancelling" THEN awaited ELSE {}

----------------------------------------------------------------------------
(* The ways a step can change who runs.                                      *)

NoRunChanges == UNCHANGED <<owners, waits, pc>>

Admits(S) ==
    /\ S \subseteq Owners /\ S \cap owners = {} /\ S \cap stops = {}
    /\ \A x, y \in S : x # y => ~Shares(x, y)
    /\ StartOwned(S)

Advances(x) ==
    /\ \/ pc[x] = "waiting" /\ waits[x] = {} /\ pc' = [pc EXCEPT ![x] = "ready"]
       \/ pc[x] = "ready" /\ Active(x) /\ pc' = [pc EXCEPT ![x] = "acting"]
       \/ pc[x] = "acting" /\ pc' = [pc EXCEPT ![x] = "ready"]
    /\ UNCHANGED <<owners, waits>>

Leaves(x) ==
    /\ owners' = owners \ {x} /\ waits' = [y \in Runs |-> waits[y] \ {x}]
    /\ pc' = [pc EXCEPT ![x] = "none"]

TestStarts(t) ==
    /\ waits' = [waits EXCEPT ![t] = OverlapsManual(t)]
    /\ pc' = [pc EXCEPT ![t] = "waiting"] /\ UNCHANGED owners

AllGone == owners' = {} /\ pc' = [x \in Runs |-> "none"] /\ waits' = [x \in Runs |-> {}]

\* Recovery admits runs that were never stopped and do not share resources.
LEMMA RecoverAdmits ==
    ASSUME TypeOK, Recover
    PROVE  \E S : Admits(S)
<1>1. PICK S \in SUBSET {i \in Scheduled : allowed /\ Recoverable(i)} :
         (\A i, j \in S : i # j => ~Shares(i, j)) /\ StartOwned(S)
  BY DEF Recover
<1>2. S \subseteq Owners /\ S \cap owners = {} /\ S \cap stops = {}
  BY <1>1 DEF Recoverable, Owners
<1> QED BY <1>1, <1>2 DEF Admits

\* Every step is one of those.
LEMMA RunSteps ==
    ASSUME TypeOK, [Next]_vars
    PROVE  \/ NoRunChanges
           \/ \E S : Admits(S)
           \/ \E x \in Runs : Advances(x) \/ Leaves(x)
           \/ \E t \in Tests : TestStarts(t)
           \/ AllGone
<1> USE DEF NoRunChanges, runState, requests, hub, disk, ledger, policy
<1>1. CASE UNCHANGED vars
  BY <1>1 DEF vars
<1>2. ASSUME NEW i \in Scheduled, ClaimOccurrence(i)
      PROVE  NoRunChanges \/ \E S : Admits(S)
  <2>1. NoRunChanges \/ (i \notin owners /\ StartOwned({i}))
    BY <1>2 DEF ClaimOccurrence
  <2>2. {i} \subseteq Owners /\ {i} \cap stops = {}
    BY <1>2 DEF ClaimOccurrence, Owners
  <2> QED BY <2>1, <2>2 DEF Admits
<1>3. ASSUME NEW m \in Manual, StartManual(m)
      PROVE  \E S : Admits(S)
  <2>1. m \notin owners /\ StartOwned({m}) BY <1>3 DEF StartManual
  <2>2. {m} \subseteq Owners /\ {m} \cap stops = {}
    BY RunsAssumption DEF Owners, TypeOK
  <2> QED BY <2>1, <2>2 DEF Admits
<1>4. ASSUME NEW t \in Tests, StartTest(t)
      PROVE  TestStarts(t)
  BY <1>4 DEF StartTest, TestStarts
<1>5. ASSUME NEW x \in Runs, Begin(x) \/ Act(x) \/ Acted(x)
      PROVE  Advances(x) \/ Leaves(x)
  BY <1>5 DEF Begin, Act, Acted, Advances, Leaves, Deregister, NoLongerAwaited
<1>6. ASSUME NEW x \in Runs, Stop(x) \/ Finish(x)
      PROVE  Leaves(x)
  BY <1>6 DEF Stop, Finish, Settle, Leaves, Deregister, NoLongerAwaited
<1>7. ASSUME StartupRecovers \/ ResumeRecovers
      PROVE  NoRunChanges \/ \E S : Admits(S)
  BY <1>7, RecoverAdmits DEF StartupRecovers, ResumeRecovers
<1>8. ASSUME Restart
      PROVE  AllGone
  BY <1>8 DEF Restart, AllGone
<1>9. ASSUME NEW x \in Runs, Edit(x) \/ Passes(x) \/ Cancel(x)
      PROVE  NoRunChanges
  BY <1>9 DEF Edit, Passes, Cancel
<1>10. ASSUME \/ StartupBegins \/ StartupReconciles \/ ResumeRequested \/ ResumeCancels
              \/ ResumeCancelled \/ ResumeReconciles \/ ResumeFails
       PROVE  NoRunChanges
  BY <1>10 DEF StartupBegins, StartupReconciles, ResumeRequested, ResumeCancels,
               ResumeCancelled, ResumeReconciles, ResumeFails
<1>11. ASSUME \/ PlayMedia \/ Toggle \/ Admit \/ Abort \/ Refuse \/ FreezeBegins
              \/ FreezeActive \/ FreezeEnds \/ ShutdownRequested \/ ShuttingDown
       PROVE  NoRunChanges
  BY <1>11 DEF PlayMedia, Toggle, Admit, Abort, Refuse, FreezeBegins, FreezeActive,
               FreezeEnds, ShutdownRequested, ShuttingDown
<1>12. Scheduled \subseteq Runs BY DEF Runs, Owners
<1> QED
  BY <1>1, <1>2, <1>3, <1>4, <1>5, <1>6, <1>7, <1>8, <1>9, <1>10, <1>11, <1>12 DEF Next

----------------------------------------------------------------------------
(* Ownership.                                                                *)

\* Only registered runs are past "none", whichever action registers or settles them.
LEMMA RegisteredStep ==
    ASSUME TypeOK, Registered, [Next]_vars
    PROVE  Registered'
<1>1. ASSUME NEW S, Admits(S) PROVE Registered'
  BY <1>1 DEF Registered, Admits, StartOwned, Runs
<1>2. ASSUME NEW x \in Runs, Advances(x) PROVE Registered'
  BY <1>2 DEF Registered, Advances, TypeOK, Runs
<1>3. ASSUME NEW x \in Runs, Leaves(x) PROVE Registered'
  BY <1>3 DEF Registered, Leaves, TypeOK, Runs
<1>4. ASSUME NEW t \in Tests, TestStarts(t) PROVE Registered'
  BY <1>4, RunsAssumption DEF Registered, TestStarts, TypeOK, Runs, Owners
<1>5. CASE NoRunChanges
  BY <1>5 DEF Registered, NoRunChanges
<1>6. CASE AllGone
  BY <1>6 DEF Registered, AllGone, Runs
<1> QED BY <1>1, <1>2, <1>3, <1>4, <1>5, <1>6, RunSteps

\* Two runs share resources both ways round.
LEMMA SharesIsSymmetric == \A x, y : Shares(x, y) => Shares(y, x)
  BY DEF Shares

\* A new owner waits for every older owner that shares a resource with it, and the owners
\* admitted together share none.
LEMMA AdmissionKeepsOrder ==
    ASSUME TypeOK, Ordered, NEW S, Admits(S)
    PROVE  Ordered'
<1>1. owners' = owners \cup S /\ owners \cup S \subseteq Runs
  BY DEF Admits, StartOwned, TypeOK, Runs
<1>2. \A x \in Runs : /\ x \in S => waits'[x] = Overlapping(x) /\ pc'[x] = "waiting"
                      /\ x \notin S => waits'[x] = waits[x] /\ pc'[x] = pc[x]
  BY DEF Admits, StartOwned, Predecessors
<1>3. ASSUME NEW x \in owners', Executing(x)' PROVE waits'[x] = {}
  BY <1>1, <1>2, <1>3 DEF Ordered, Executing
<1>4. ASSUME NEW x \in owners', NEW y \in owners', x # y, Shares(x, y)
      PROVE  x \in waits'[y] \/ y \in waits'[x]
  <2>1. CASE x \in owners /\ y \in owners
    BY <2>1, <1>1, <1>2, <1>4 DEF Ordered, Admits
  <2>2. CASE x \in owners /\ y \in S
    BY <2>2, <1>1, <1>2, <1>4, SharesIsSymmetric DEF Overlapping, Admits
  <2>3. CASE x \in S /\ y \in owners
    BY <2>3, <1>1, <1>2, <1>4, SharesIsSymmetric DEF Overlapping, Admits
  <2>4. CASE x \in S /\ y \in S
    BY <2>4, <1>4 DEF Admits
  <2> QED BY <1>1, <2>1, <2>2, <2>3, <2>4
<1> QED BY <1>3, <1>4 DEF Ordered, Shares

\* Of two owners that share a resource, one always waits for the other.
LEMMA OrderedStep ==
    ASSUME TypeOK, Ordered, [Next]_vars
    PROVE  Ordered'
<1>1. ASSUME NEW S, Admits(S) PROVE Ordered'
  BY <1>1, AdmissionKeepsOrder
<1>2. ASSUME NEW x \in Runs, Advances(x) PROVE Ordered'
  <2>1. UNCHANGED <<owners, waits>> BY <1>2 DEF Advances
  <2>2. \A y \in owners : y # x => pc'[y] = pc[y]
    BY <1>2 DEF Advances, TypeOK, Owners, Runs
  <2>3. x \in owners => waits[x] = {}
    BY <1>2 DEF Advances, Ordered, Executing
  <2>4. \A y \in owners : Executing(y)' => waits'[y] = {}
    BY <2>1, <2>2, <2>3 DEF Ordered, Executing
  <2> QED BY <2>1, <2>4 DEF Ordered, Executing, Shares
<1>3. ASSUME NEW x \in Runs, Leaves(x) PROVE Ordered'
  <2>1. \A y \in owners' : pc'[y] = pc[y] /\ waits'[y] = waits[y] \ {x} /\ y \in owners /\ y # x
    BY <1>3 DEF Leaves, TypeOK, Owners, Runs
  <2> QED BY <2>1 DEF Ordered, Executing, Shares
<1>4. ASSUME NEW t \in Tests, TestStarts(t) PROVE Ordered'
  <2>1. \A y \in owners' : pc'[y] = pc[y] /\ waits'[y] = waits[y] /\ y \in owners
    BY <1>4, RunsAssumption DEF TestStarts, TypeOK, Owners, Runs
  <2> QED BY <2>1 DEF Ordered, Executing, Shares
<1>5. CASE NoRunChanges
  BY <1>5 DEF Ordered, NoRunChanges, Executing, Shares
<1>6. CASE AllGone
  BY <1>6 DEF Ordered, AllGone
<1> QED BY <1>1, <1>2, <1>3, <1>4, <1>5, <1>6, RunSteps

----------------------------------------------------------------------------
(* Types.                                                                    *)

\* The ledger and the flags after requestAutomationRunCancellation().
LEMMA CancellationTypes ==
    ASSUME TypeOK, NEW victims \in SUBSET owners, NEW S \in SUBSET Scheduled,
           RequestCancellation(victims, S)
    PROVE  claimed' \subseteq Scheduled /\ stops' \subseteq Scheduled /\ flagged' \subseteq owners
  BY DEF TypeOK, RequestCancellation, Write

\* The registry after startOwnedAutomationOccurrence(): the new run waits for owners only.
LEMMA AdmissionTypes ==
    ASSUME TypeOK, NEW S \in SUBSET Owners, StartOwned(S)
    PROVE  /\ owners' = owners \cup S /\ owners' \subseteq Owners /\ stale' \subseteq owners'
           /\ waits' \in [Runs -> SUBSET owners']
           /\ pc' \in [Runs -> {"none", "waiting", "ready", "acting"}]
  BY DEF TypeOK, StartOwned, Predecessors, Overlapping

\* The ledger and the registry after recoverContinuousAutomationOccurrences().
LEMMA RecoverTypes ==
    ASSUME TypeOK, Recover
    PROVE  /\ claimed' \subseteq Scheduled /\ stops' \subseteq Scheduled
           /\ flagged' \subseteq owners' /\ stale' \subseteq owners' /\ owners \subseteq owners'
           /\ owners' \subseteq Owners /\ waits' \in [Runs -> SUBSET owners']
           /\ pc' \in [Runs -> {"none", "waiting", "ready", "acting"}]
<1>1. PICK S \in SUBSET Scheduled :
         StartOwned(S) /\ RequestCancellation(UNION {Overlapping(i) : i \in S}, {})
  BY DEF Recover
<1>2. UNION {Overlapping(i) : i \in S} \subseteq owners
  BY DEF Overlapping
<1>3. S \subseteq Owners BY DEF Owners
<1> QED BY <1>1, <1>2, <1>3, CancellationTypes, AdmissionTypes

\* The registry after a task's finalizer: nobody waits for a task that has left.
LEMMA DeregisterTypes ==
    ASSUME TypeOK, NEW x \in Runs, Deregister(x)
    PROVE  /\ owners' \subseteq Owners /\ flagged' \subseteq owners' /\ stale' \subseteq owners'
           /\ waits' \in [Runs -> SUBSET owners'] /\ awaited' \subseteq owners'
           /\ pc' \in [Runs -> {"none", "waiting", "ready", "acting"}]
           /\ bygone' \subseteq Manual \cup Tests
  BY DEF TypeOK, Deregister, NoLongerAwaited

\* The execution marks after reconcileScheduledAutomationState().
LEMMA ReconcileTypes ==
    ASSUME TypeOK, Reconcile
    PROVE  marked' \subseteq Scheduled /\ saved' \subseteq Scheduled
  BY DEF TypeOK, Reconcile

\* Every step keeps the types.
LEMMA TypeStep ==
    ASSUME TypeOK, [Next]_vars
    PROVE  TypeOK'
<1> USE DEF runState, requests, hub, disk, ledger, policy
<1>1. CASE UNCHANGED vars
  BY <1>1 DEF vars, TypeOK
<1>2. ASSUME NEW i \in Scheduled, ClaimOccurrence(i)
      PROVE  TypeOK'
  <2>1. marked' \subseteq Scheduled /\ saved' \subseteq Scheduled
    BY <1>2 DEF ClaimOccurrence, Recorded, TypeOK
  <2>2. CASE Write({i}) /\ UNCHANGED <<stops, runState>>
    BY <1>2, <2>1, <2>2 DEF ClaimOccurrence, Write, TypeOK
  <2>3. CASE /\ RequestCancellation(Overlapping(i), {i})
             /\ IF i \in owners THEN UNCHANGED <<owners, waits, pc, stale>>
                                ELSE StartOwned({i})
    <3>1. claimed' \subseteq Scheduled /\ stops' \subseteq Scheduled /\ flagged' \subseteq owners
      BY <2>3, CancellationTypes DEF Overlapping
    <3>2. CASE i \in owners
      BY <1>2, <2>1, <2>3, <3>1, <3>2 DEF ClaimOccurrence, TypeOK
    <3>3. CASE i \notin owners
      <4>1. StartOwned({i}) /\ {i} \subseteq Owners BY <2>3, <3>3 DEF Owners
      <4>2. /\ owners' = owners \cup {i} /\ owners' \subseteq Owners /\ stale' \subseteq owners'
            /\ waits' \in [Runs -> SUBSET owners']
            /\ pc' \in [Runs -> {"none", "waiting", "ready", "acting"}]
        BY <4>1, AdmissionTypes
      <4> QED BY <1>2, <2>1, <3>1, <4>2 DEF ClaimOccurrence, TypeOK
    <3> QED BY <3>2, <3>3
  <2> QED BY <1>2, <2>2, <2>3 DEF ClaimOccurrence, Recorded
<1>3. ASSUME NEW m \in Manual, StartManual(m)
      PROVE  TypeOK'
  <2>1. claimed' \subseteq Scheduled /\ stops' \subseteq Scheduled /\ flagged' \subseteq owners
    BY <1>3, CancellationTypes DEF StartManual, Overlapping
  <2>2. StartOwned({m}) /\ {m} \subseteq Owners BY <1>3 DEF StartManual, Owners
  <2>3. /\ owners' = owners \cup {m} /\ owners' \subseteq Owners /\ stale' \subseteq owners'
        /\ waits' \in [Runs -> SUBSET owners']
        /\ pc' \in [Runs -> {"none", "waiting", "ready", "acting"}]
    BY <2>2, AdmissionTypes
  <2> QED BY <1>3, <2>1, <2>3 DEF StartManual, Handle, TypeOK
<1>4. ASSUME NEW t \in Tests, StartTest(t)
      PROVE  TypeOK'
  <2>1. claimed' \subseteq Scheduled /\ stops' \subseteq Scheduled /\ flagged' \subseteq owners
    BY <1>4, CancellationTypes DEF StartTest, OverlapsManual
  <2>2. waits' \in [Runs -> SUBSET owners] /\ pc' \in [Runs -> {"none", "waiting", "ready", "acting"}]
    BY <1>4 DEF StartTest, OverlapsManual, TypeOK
  <2> QED BY <1>4, <2>1, <2>2 DEF StartTest, Handle, TypeOK
<1>5. ASSUME NEW x \in Runs, Begin(x)
      PROVE  TypeOK'
  <2>1. claimed' \subseteq Scheduled /\ begun' \subseteq Scheduled
    BY <1>5 DEF Begin, Write, TypeOK
  <2>2. CASE Deregister(x)
    BY <1>5, <2>1, <2>2, DeregisterTypes DEF Begin, TypeOK
  <2>3. CASE /\ pc' = [pc EXCEPT ![x] = "ready"]
             /\ UNCHANGED <<owners, waits, flagged, stale, awaited, bygone>>
    BY <1>5, <2>1, <2>3 DEF Begin, TypeOK
  <2> QED BY <1>5, <2>2, <2>3 DEF Begin
<1>6. ASSUME NEW x \in Runs, Act(x) \/ Acted(x)
      PROVE  TypeOK'
  BY <1>6 DEF Act, Acted, TypeOK
<1>7. ASSUME NEW x \in Runs, Stop(x) \/ Finish(x)
      PROVE  TypeOK'
  <2>1. Settle(x) /\ claimed' \subseteq Scheduled
    BY <1>7 DEF Stop, Finish, Write, TypeOK
  <2>2. Deregister(x) BY <2>1 DEF Settle
  <2> QED BY <2>1, <2>2, DeregisterTypes DEF Settle, TypeOK
<1>8. ASSUME NEW x \in Runs, Cancel(x)
      PROVE  TypeOK'
  <2>1. claimed' \subseteq Scheduled /\ stops' \subseteq Scheduled /\ flagged' \subseteq owners
    BY <1>8, CancellationTypes DEF Cancel
  <2> QED BY <1>8, <2>1 DEF Cancel, Handle, TypeOK
<1>9. ASSUME StartupReconciles \/ ResumeReconciles
      PROVE  TypeOK'
  BY <1>9, ReconcileTypes DEF StartupReconciles, ResumeReconciles, TypeOK
<1>10. ASSUME StartupRecovers \/ ResumeRecovers
       PROVE  TypeOK'
  <2>1. CASE Recover
    BY <1>10, <2>1, RecoverTypes DEF StartupRecovers, ResumeRecovers, TypeOK
  <2>2. CASE UNCHANGED <<ledger, runState>>
    BY <1>10, <2>2 DEF StartupRecovers, ResumeRecovers, TypeOK
  <2> QED BY <1>10, <2>1, <2>2 DEF StartupRecovers, ResumeRecovers
<1>11. ASSUME PlayMedia
       PROVE  TypeOK'
  <2>1. claimed' \subseteq Scheduled /\ stops' \subseteq Scheduled /\ flagged' \subseteq owners
    <3>1. CASE RequestCancellation(owners, {}) BY <3>1, CancellationTypes
    <3>2. CASE UNCHANGED <<ledger, flagged>> BY <3>2 DEF TypeOK
    <3> QED BY <1>11, <3>1, <3>2 DEF PlayMedia
  <2> QED BY <1>11, <2>1 DEF PlayMedia, Handle, TypeOK
<1>12. ASSUME ResumeCancels
       PROVE  TypeOK'
  <2>1. claimed' \subseteq Scheduled /\ stops' \subseteq Scheduled /\ flagged' \subseteq owners
    BY <1>12, CancellationTypes DEF ResumeCancels, ManualOwners
  <2> QED BY <1>12, <2>1 DEF ResumeCancels, ManualOwners, TypeOK
<1>13. ASSUME \/ StartupBegins \/ ResumeCancelled \/ ResumeFails
              \/ \E i \in Scheduled : Edit(i)
       PROVE  TypeOK'
  BY <1>13 DEF StartupBegins, ResumeCancelled, ResumeFails, Edit, Handle, TypeOK
<1>14. ASSUME \/ Admit \/ Abort \/ Refuse \/ FreezeBegins \/ FreezeActive \/ FreezeEnds
              \/ ShutdownRequested \/ ShuttingDown \/ \E i \in Scheduled : Passes(i)
       PROVE  TypeOK'
  BY <1>14 DEF Admit, Abort, Refuse, FreezeBegins, FreezeActive, FreezeEnds,
               ShutdownRequested, ShuttingDown, Passes, TypeOK
<1>15. ASSUME Restart
       PROVE  TypeOK'
  BY <1>15 DEF Restart, TypeOK
<1>16. ASSUME Toggle
       PROVE  TypeOK'
  <2>1. allowed' \in BOOLEAN BY <1>16 DEF Toggle
  <2> QED BY <1>16, <2>1 DEF Toggle, Handle, TypeOK
<1>17. ASSUME ResumeRequested
       PROVE  TypeOK'
  <2>1. allowed' \in BOOLEAN BY <1>17 DEF ResumeRequested, TypeOK
  <2> QED BY <1>17, <2>1 DEF ResumeRequested, Handle, TypeOK
<1> QED
  BY <1>1, <1>2, <1>3, <1>4, <1>5, <1>6, <1>7, <1>8, <1>9, <1>10, <1>11, <1>12, <1>13,
     <1>14, <1>15, <1>16, <1>17 DEF Next

----------------------------------------------------------------------------
(* Stops.                                                                    *)

\* Stops victims, and admits the runs S in the same step.
StopsAndAdmits(victims, S) ==
    /\ victims \subseteq owners /\ S \cap owners = {} /\ S \cap stops = {}
    /\ owners' = owners \cup S /\ flagged' = flagged \cup victims
    /\ stops' = stops \cup (victims \cap Scheduled)

\* What a step can do to owners, flags and stops.
LEMMA StopSteps ==
    ASSUME TypeOK, [Next]_vars
    PROVE  \/ UNCHANGED <<owners, flagged, stops>>
           \/ \E victims, S : StopsAndAdmits(victims, S)
           \/ \E x : owners' = owners \ {x} /\ flagged' = flagged \ {x} /\ stops' = stops
           \/ owners' = {} /\ flagged' = {} /\ stops' = stops
<1> USE DEF runState, requests, hub, disk, ledger, policy
<1>1. CASE UNCHANGED vars
  BY <1>1 DEF vars
<1>2. ASSUME NEW i \in Scheduled, ClaimOccurrence(i)
      PROVE  UNCHANGED <<owners, flagged, stops>> \/ \E victims, S : StopsAndAdmits(victims, S)
  <2>1. CASE UNCHANGED <<stops, runState>>
    BY <2>1
  <2>2. CASE /\ RequestCancellation(Overlapping(i), {i})
             /\ IF i \in owners THEN UNCHANGED <<owners, waits, pc, stale>>
                                ELSE StartOwned({i})
    <3>1. i \notin stops /\ Overlapping(i) \subseteq owners
      BY <1>2 DEF ClaimOccurrence, Overlapping
    <3>2. CASE i \in owners
      <4>1. StopsAndAdmits(Overlapping(i), {})
        BY <2>2, <3>1, <3>2 DEF StopsAndAdmits, RequestCancellation
      <4> QED BY <4>1
    <3>3. CASE i \notin owners
      <4>1. StopsAndAdmits(Overlapping(i), {i})
        BY <2>2, <3>1, <3>3 DEF StopsAndAdmits, RequestCancellation, StartOwned
      <4> QED BY <4>1
    <3> QED BY <3>2, <3>3
  <2> QED BY <1>2, <2>1, <2>2 DEF ClaimOccurrence
<1>3. ASSUME NEW m \in Manual, StartManual(m)
      PROVE  \E victims, S : StopsAndAdmits(victims, S)
  <2>1. m \notin stops BY RunsAssumption DEF TypeOK
  <2>2. StopsAndAdmits(Overlapping(m), {m})
    BY <1>3, <2>1 DEF StartManual, StopsAndAdmits, RequestCancellation, StartOwned, Overlapping
  <2> QED BY <2>2
<1>4. ASSUME NEW t \in Tests, StartTest(t)
      PROVE  \E victims, S : StopsAndAdmits(victims, S)
  <2>1. StopsAndAdmits(OverlapsManual(t), {})
    BY <1>4 DEF StartTest, StopsAndAdmits, RequestCancellation, OverlapsManual
  <2> QED BY <2>1
<1>5. ASSUME NEW x \in Runs, Cancel(x)
      PROVE  \E victims, S : StopsAndAdmits(victims, S)
  <2>1. StopsAndAdmits({x}, {})
    BY <1>5 DEF Cancel, StopsAndAdmits, RequestCancellation
  <2> QED BY <2>1
<1>6. ASSUME PlayMedia
      PROVE  UNCHANGED <<owners, flagged, stops>> \/ \E victims, S : StopsAndAdmits(victims, S)
  <2>1. CASE RequestCancellation(owners, {})
    <3>1. StopsAndAdmits(owners, {})
      BY <1>6, <2>1 DEF PlayMedia, StopsAndAdmits, RequestCancellation
    <3> QED BY <3>1
  <2> QED BY <1>6, <2>1 DEF PlayMedia
<1>7. ASSUME ResumeCancels
      PROVE  \E victims, S : StopsAndAdmits(victims, S)
  <2>1. StopsAndAdmits(ManualOwners, {})
    BY <1>7 DEF ResumeCancels, ManualOwners, StopsAndAdmits, RequestCancellation
  <2> QED BY <2>1
<1>8. ASSUME StartupRecovers \/ ResumeRecovers
      PROVE  UNCHANGED <<owners, flagged, stops>> \/ \E victims, S : StopsAndAdmits(victims, S)
  <2>1. CASE Recover
    <3>1. PICK S \in SUBSET {i \in Scheduled : allowed /\ Recoverable(i)} :
             StartOwned(S) /\ RequestCancellation(UNION {Overlapping(i) : i \in S}, {})
      BY <2>1 DEF Recover
    <3>2. S \cap owners = {} /\ S \cap stops = {}
      BY <3>1 DEF Recoverable
    <3>3. UNION {Overlapping(i) : i \in S} \subseteq owners
      BY DEF Overlapping
    <3>4. StopsAndAdmits(UNION {Overlapping(i) : i \in S}, S)
      BY <3>1, <3>2, <3>3 DEF StopsAndAdmits, StartOwned, RequestCancellation
    <3> QED BY <3>4
  <2> QED BY <1>8, <2>1 DEF StartupRecovers, ResumeRecovers
<1>9. ASSUME NEW x \in Runs, Begin(x) \/ Act(x) \/ Acted(x) \/ Stop(x) \/ Finish(x)
      PROVE  \/ UNCHANGED <<owners, flagged, stops>>
             \/ owners' = owners \ {x} /\ flagged' = flagged \ {x} /\ stops' = stops
  BY <1>9 DEF Begin, Act, Acted, Stop, Finish, Settle, Deregister
<1>10. ASSUME Restart
       PROVE  owners' = {} /\ flagged' = {} /\ stops' = stops
  BY <1>10 DEF Restart
<1>11. ASSUME NEW i \in Scheduled, Edit(i) \/ Passes(i)
       PROVE  UNCHANGED <<owners, flagged, stops>>
  BY <1>11 DEF Edit, Passes
<1>12. ASSUME \/ StartupBegins \/ StartupReconciles \/ ResumeRequested
              \/ ResumeCancelled \/ ResumeReconciles \/ ResumeFails
       PROVE  UNCHANGED <<owners, flagged, stops>>
  BY <1>12 DEF StartupBegins, StartupReconciles, ResumeRequested, ResumeCancelled,
               ResumeReconciles, ResumeFails
<1>13. ASSUME \/ Toggle \/ Admit \/ Abort \/ Refuse \/ FreezeBegins
              \/ FreezeActive \/ FreezeEnds \/ ShutdownRequested \/ ShuttingDown
       PROVE  UNCHANGED <<owners, flagged, stops>>
  BY <1>13 DEF Toggle, Admit, Abort, Refuse, FreezeBegins, FreezeActive, FreezeEnds,
               ShutdownRequested, ShuttingDown
<1> QED
  BY <1>1, <1>2, <1>3, <1>4, <1>5, <1>6, <1>7, <1>8, <1>9, <1>10, <1>11, <1>12, <1>13
  DEF Next

\* A flagged occurrence is a saved stop, and a saved stop that is registered is flagged.
LEMMA StopsStep ==
    ASSUME TypeOK, StopsAreSaved, StopsAreFlagged, [Next]_vars
    PROVE  StopsAreSaved' /\ StopsAreFlagged'
<1>1. ASSUME NEW victims, NEW S, StopsAndAdmits(victims, S)
      PROVE  StopsAreSaved' /\ StopsAreFlagged'
  BY <1>1 DEF StopsAndAdmits, StopsAreSaved, StopsAreFlagged
<1>2. ASSUME NEW x, owners' = owners \ {x}, flagged' = flagged \ {x}, stops' = stops
      PROVE  StopsAreSaved' /\ StopsAreFlagged'
  BY <1>2 DEF StopsAreSaved, StopsAreFlagged
<1>3. CASE UNCHANGED <<owners, flagged, stops>>
  BY <1>3 DEF StopsAreSaved, StopsAreFlagged
<1>4. CASE owners' = {} /\ flagged' = {} /\ stops' = stops
  BY <1>4 DEF StopsAreSaved, StopsAreFlagged
<1> QED BY <1>1, <1>2, <1>3, <1>4, StopSteps

\* An action is dispatched only by a registered run that is not flagged.
LEMMA StoppedNeverActs ==
    ASSUME TypeOK, Registered, StopsAreFlagged, [Next]_vars,
           NEW i \in stops, pc[i] # "acting"
    PROVE  pc'[i] # "acting"
<1>1. i \in Owners /\ i \in Runs BY DEF TypeOK, Owners, Runs
<1>2. ASSUME NEW S, Admits(S) PROVE pc'[i] # "acting"
  BY <1>1, <1>2 DEF Admits, StartOwned
<1>3. ASSUME NEW x \in Runs, Advances(x) PROVE pc'[i] # "acting"
  <2>1. pc'[i] = "acting" => i \notin flagged /\ pc[i] = "ready"
    BY <1>1, <1>3 DEF Advances, Active, TypeOK
  <2> QED BY <1>1, <2>1 DEF Registered, StopsAreFlagged
<1>4. ASSUME NEW x \in Runs, Leaves(x) PROVE pc'[i] # "acting"
  BY <1>1, <1>4 DEF Leaves, TypeOK
<1>5. ASSUME NEW t \in Tests, TestStarts(t) PROVE pc'[i] # "acting"
  BY <1>1, <1>5 DEF TestStarts, TypeOK
<1>6. CASE NoRunChanges
  BY <1>6 DEF NoRunChanges
<1>7. CASE AllGone
  BY <1>1, <1>7 DEF AllGone
<1> QED BY <1>2, <1>3, <1>4, <1>5, <1>6, <1>7, RunSteps

----------------------------------------------------------------------------
(* Execution marks.                                                          *)

\* A sequence that has begun, or waits to begin, has its execution mark on disk or is continuous.
LEMMA MarksStep ==
    ASSUME TypeOK, Registered, MarkedOnDisk, [Next]_vars
    PROVE  MarkedOnDisk'
<1> USE DEF runState, requests, hub, disk, ledger, policy
<1>1. CASE UNCHANGED vars
  BY <1>1 DEF vars, MarkedOnDisk
<1>2. ASSUME NEW i \in Scheduled, ClaimOccurrence(i)
      PROVE  MarkedOnDisk'
  <2>1. /\ marked' = marked \cup {i} /\ i \notin marked /\ UNCHANGED begun
        /\ saved' = saved \/ saved' = marked'
    BY <1>2 DEF ClaimOccurrence, Recorded
  <2>2. CASE UNCHANGED runState
    BY <2>1, <2>2 DEF MarkedOnDisk
  <2>3. CASE UNCHANGED <<owners, pc>>
    BY <2>1, <2>3 DEF MarkedOnDisk
  <2>4. CASE StartOwned({i}) /\ saved' = marked'
    <3>1. \A j \in Scheduled : j # i => pc'[j] = pc[j]
      BY <2>4 DEF StartOwned, Runs, Owners
    <3>2. owners' = owners \cup {i} BY <2>4 DEF StartOwned
    <3>3. i \in Continuous \/ i \notin begun
      BY <2>1 DEF MarkedOnDisk
    <3> QED BY <2>1, <2>4, <3>1, <3>2, <3>3 DEF MarkedOnDisk
  <2> QED BY <1>2, <2>2, <2>3, <2>4 DEF ClaimOccurrence, Recorded
<1>3. ASSUME NEW m \in Manual, StartManual(m)
      PROVE  MarkedOnDisk'
  <2>1. \A j \in Scheduled : pc'[j] = pc[j] /\ (j \in owners' => j \in owners)
    BY <1>3, RunsAssumption DEF StartManual, StartOwned, Runs, Owners
  <2> QED BY <1>3, <2>1 DEF StartManual, MarkedOnDisk
<1>4. ASSUME NEW t \in Tests, StartTest(t)
      PROVE  MarkedOnDisk'
  <2>1. \A j \in Scheduled : pc'[j] = pc[j]
    BY <1>4, RunsAssumption DEF StartTest, TypeOK, Runs, Owners
  <2> QED BY <1>4, <2>1 DEF StartTest, MarkedOnDisk
<1>5. ASSUME StartupRecovers \/ ResumeRecovers
      PROVE  MarkedOnDisk'
  <2>1. CASE Recover
    <3>1. PICK S \in SUBSET {i \in Scheduled : allowed /\ Recoverable(i)} : StartOwned(S)
      BY <2>1 DEF Recover
    <3>2. S \subseteq Continuous BY <3>1 DEF Recoverable
    <3>3. \A j \in Scheduled \ Continuous : pc'[j] = pc[j] /\ (j \in owners' => j \in owners)
      BY <3>1, <3>2 DEF StartOwned, Runs, Owners
    <3> QED BY <1>5, <3>3 DEF StartupRecovers, ResumeRecovers, MarkedOnDisk
  <2> QED BY <1>5, <2>1 DEF StartupRecovers, ResumeRecovers, MarkedOnDisk
<1>6. ASSUME NEW x \in Runs, Begin(x)
      PROVE  MarkedOnDisk'
  <2>1. UNCHANGED <<saved, marked>> /\ owners' \subseteq owners /\ pc'[x] # "waiting"
    BY <1>6 DEF Begin, Deregister, TypeOK
  <2>2. \A j \in Runs : j # x => pc'[j] = pc[j]
    BY <1>6 DEF Begin, Deregister, TypeOK
  <2>3. begun' \subseteq begun \cup {x} /\ (x \in Scheduled => x \in owners)
    BY <1>6 DEF Begin, Registered, Owners
  <2>4. Scheduled \subseteq Runs BY DEF Runs, Owners
  <2> QED BY <2>1, <2>2, <2>3, <2>4 DEF MarkedOnDisk
<1>7. ASSUME NEW x \in Runs, Act(x) \/ Acted(x)
      PROVE  MarkedOnDisk'
  <2>1. \A j \in Scheduled : pc'[j] = pc[j] \/ pc'[j] # "waiting"
    BY <1>7 DEF Act, Acted, TypeOK, Runs, Owners
  <2> QED BY <1>7, <2>1 DEF Act, Acted, MarkedOnDisk
<1>8. ASSUME NEW x \in Runs, Stop(x) \/ Finish(x)
      PROVE  MarkedOnDisk'
  <2>1. Settle(x) BY <1>8 DEF Stop, Finish
  <2>2. owners' \subseteq owners /\ UNCHANGED <<marked, begun>> /\ saved' \in {saved, marked}
    BY <2>1 DEF Settle, Deregister
  <2>3. \A j \in Scheduled : pc'[j] = pc[j] \/ pc'[j] # "waiting"
    BY <2>1 DEF Settle, Deregister, TypeOK, Runs, Owners
  <2> QED BY <2>2, <2>3 DEF MarkedOnDisk
<1>9. ASSUME StartupReconciles \/ ResumeReconciles
      PROVE  MarkedOnDisk'
  BY <1>9 DEF StartupReconciles, ResumeReconciles, Reconcile, MarkedOnDisk
<1>10. ASSUME NEW i \in Scheduled, Edit(i) \/ Passes(i)
       PROVE  MarkedOnDisk'
  BY <1>10 DEF Edit, Passes, MarkedOnDisk
<1>11. ASSUME Restart
       PROVE  MarkedOnDisk'
  BY <1>11 DEF Restart, MarkedOnDisk, Runs, Owners
<1>12. ASSUME \/ StartupBegins \/ ResumeRequested \/ ResumeCancels \/ ResumeCancelled
              \/ ResumeFails \/ PlayMedia \/ Toggle \/ \E x \in Runs : Cancel(x)
       PROVE  MarkedOnDisk'
  BY <1>12 DEF StartupBegins, ResumeRequested, ResumeCancels, ResumeCancelled,
               ResumeFails, PlayMedia, Toggle, Cancel, MarkedOnDisk
<1>13. ASSUME \/ Admit \/ Abort \/ Refuse \/ FreezeBegins \/ FreezeActive \/ FreezeEnds
              \/ ShutdownRequested \/ ShuttingDown
       PROVE  MarkedOnDisk'
  BY <1>13 DEF Admit, Abort, Refuse, FreezeBegins, FreezeActive, FreezeEnds,
               ShutdownRequested, ShuttingDown, MarkedOnDisk
<1> QED
  BY <1>1, <1>2, <1>3, <1>4, <1>5, <1>6, <1>7, <1>8, <1>9, <1>10, <1>11, <1>12, <1>13
  DEF Next

\* A run leaves "waiting" for "ready" only by beginning, and one that began never waits again.
LEMMA BeginsOnce ==
    ASSUME TypeOK, MarkedOnDisk, [Next]_vars,
           NEW i \in begun \ Continuous, pc[i] = "waiting"
    PROVE  pc'[i] # "ready"
  BY DEF MarkedOnDisk, TypeOK

----------------------------------------------------------------------------
(* The export freeze.                                                        *)

\* A frozen Hub has nothing under way, and starts nothing.
LEMMA SealedStep ==
    ASSUME TypeOK, Registered, Sealed, [Next]_vars
    PROVE  Sealed'
<1> USE DEF runState, requests, hub, disk, ledger, policy
<1>1. CASE FreezeActive
  BY <1>1 DEF FreezeActive, Drained, Sealed, FrozenIsQuiet
<1>2. CASE FreezeEnds \/ Restart
  BY <1>2 DEF FreezeEnds, Restart, Sealed, FrozenIsQuiet
<1>3. CASE ~(FreezeActive \/ FreezeEnds \/ Restart) /\ freeze # "active"
  <2>1. freeze' # "active"
    <3>1. CASE UNCHANGED vars BY <1>3, <3>1 DEF vars
    <3>2. ASSUME NEW i \in Scheduled, ClaimOccurrence(i) \/ Edit(i) \/ Passes(i)
          PROVE  freeze' = freeze
      BY <3>2 DEF ClaimOccurrence, Edit, Passes
    <3>3. ASSUME (\E m \in Manual : StartManual(m)) \/ (\E t \in Tests : StartTest(t))
          PROVE  freeze' = freeze
      BY <3>3 DEF StartManual, StartTest
    <3>4. ASSUME NEW x \in Runs,
                 Begin(x) \/ Act(x) \/ Acted(x) \/ Stop(x) \/ Finish(x) \/ Cancel(x)
          PROVE  freeze' = freeze
      BY <3>4 DEF Begin, Act, Acted, Stop, Finish, Settle, Cancel
    <3>5. ASSUME \/ StartupBegins \/ StartupReconciles \/ StartupRecovers
                 \/ ResumeRequested \/ ResumeCancels \/ ResumeCancelled
                 \/ ResumeReconciles \/ ResumeRecovers \/ ResumeFails
          PROVE  freeze' = freeze
      BY <3>5 DEF StartupBegins, StartupReconciles, StartupRecovers, ResumeRequested,
                  ResumeCancels, ResumeCancelled, ResumeReconciles, ResumeRecovers,
                  ResumeFails
    <3>6. ASSUME \/ PlayMedia \/ Toggle \/ Admit \/ Abort \/ Refuse \/ FreezeBegins
                 \/ ShutdownRequested \/ ShuttingDown
          PROVE  freeze' # "active"
      BY <1>3, <3>6 DEF PlayMedia, Toggle, Admit, Abort, Refuse, FreezeBegins,
                        ShutdownRequested, ShuttingDown
    <3> QED BY <1>3, <3>1, <3>2, <3>3, <3>4, <3>5, <3>6 DEF Next
  <2> QED BY <2>1 DEF Sealed
<1>4. CASE ~(FreezeActive \/ FreezeEnds \/ Restart) /\ freeze = "active"
  <2>1. /\ ~Accepting /\ admitted # "open" /\ owners = {} /\ \A t \in Tests : pc[t] = "none"
        /\ resume = "idle" /\ startup \in {"pending", "done"}
    BY <1>4 DEF Sealed, FrozenIsQuiet, Accepting
  <2>2. \A x \in Runs : pc[x] = "none"
    BY <2>1 DEF Registered, Runs
  <2>3. ~Handle BY <2>1 DEF Handle
  <2>4. ASSUME NEW i \in Scheduled PROVE ~ClaimOccurrence(i) /\ ~Edit(i)
    BY <2>1, <2>3 DEF ClaimOccurrence, TickRuns, Edit
  <2>5. /\ \A m \in Manual : ~StartManual(m)
        /\ \A t \in Tests : ~StartTest(t)
        /\ \A x \in Runs : ~Cancel(x)
        /\ ~PlayMedia /\ ~ResumeRequested /\ ~Toggle
    BY <2>3 DEF StartManual, StartTest, Cancel, PlayMedia, ResumeRequested, Toggle
  <2>6. ASSUME NEW x \in Runs
        PROVE  ~Begin(x) /\ ~Act(x) /\ ~Acted(x) /\ ~Stop(x) /\ ~Finish(x)
    BY <2>2 DEF Begin, Act, Acted, Stop, Finish, Settle
  <2>7. /\ ~StartupBegins /\ ~StartupReconciles /\ ~StartupRecovers /\ ~ResumeCancels
        /\ ~ResumeCancelled /\ ~ResumeReconciles /\ ~ResumeRecovers /\ ~ResumeFails
        /\ ~Admit /\ ~Abort /\ ~FreezeBegins /\ ~ShuttingDown
    BY <2>1, <1>4 DEF StartupBegins, StartupReconciles, StartupRecovers, ResumeCancels,
       ResumeCancelled, ResumeReconciles, ResumeRecovers, ResumeFails, Admit, Abort,
       FreezeBegins, ShuttingDown
  <2>8. UNCHANGED vars \/ Refuse \/ ShutdownRequested \/ \E i \in Scheduled : Passes(i)
    BY <1>4, <2>4, <2>5, <2>6, <2>7 DEF Next
  <2>9. UNCHANGED <<owners, pc, resume, startup>> /\ admitted' \in {admitted, "none"}
    BY <2>8 DEF vars, Refuse, ShutdownRequested, Passes
  <2> QED BY <2>1, <2>9 DEF Sealed, FrozenIsQuiet
<1> QED BY <1>1, <1>2, <1>3, <1>4

----------------------------------------------------------------------------
(* Resume.                                                                   *)

\* The manual runs of before a Resume are among those it waits for.
LEMMA BygoneStep ==
    ASSUME TypeOK, BygoneIsAwaited, [Next]_vars
    PROVE  BygoneIsAwaited'
<1> USE DEF runState, requests, hub, disk, ledger, policy
<1>1. CASE UNCHANGED vars
  BY <1>1 DEF vars, BygoneIsAwaited
<1>2. ASSUME NEW i \in Scheduled, ClaimOccurrence(i) \/ Edit(i) \/ Passes(i)
      PROVE  BygoneIsAwaited'
  BY <1>2 DEF ClaimOccurrence, Edit, Passes, BygoneIsAwaited
<1>3. ASSUME (\E m \in Manual : StartManual(m)) \/ (\E t \in Tests : StartTest(t))
      PROVE  BygoneIsAwaited'
  BY <1>3 DEF StartManual, StartTest, BygoneIsAwaited
<1>4. ASSUME NEW x \in Runs, Begin(x) \/ Stop(x) \/ Finish(x)
      PROVE  BygoneIsAwaited'
  <2>1. /\ \/ awaited' = awaited \ {x} /\ bygone' = bygone \ {x}
           \/ UNCHANGED <<awaited, bygone>>
        /\ resume' = resume
    BY <1>4 DEF Begin, Stop, Finish, Settle, Deregister
  <2> QED BY <2>1 DEF BygoneIsAwaited
<1>5. ASSUME NEW x \in Runs, Act(x) \/ Acted(x) \/ Cancel(x)
      PROVE  BygoneIsAwaited'
  BY <1>5 DEF Act, Acted, Cancel, BygoneIsAwaited
<1>6. ASSUME ResumeCancels
      PROVE  BygoneIsAwaited'
  BY <1>6, RunsAssumption DEF ResumeCancels, ManualOwners, BygoneIsAwaited
<1>7. ASSUME ResumeCancelled \/ ResumeRequested \/ ResumeReconciles \/ ResumeRecovers
      PROVE  BygoneIsAwaited'
  BY <1>7 DEF ResumeCancelled, ResumeRequested, ResumeReconciles, ResumeRecovers,
              BygoneIsAwaited
<1>8. ASSUME ResumeFails \/ Restart
      PROVE  BygoneIsAwaited'
  BY <1>8 DEF ResumeFails, Restart, BygoneIsAwaited
<1>9. ASSUME StartupBegins \/ StartupReconciles \/ StartupRecovers \/ PlayMedia \/ Toggle
      PROVE  BygoneIsAwaited'
  BY <1>9 DEF StartupBegins, StartupReconciles, StartupRecovers, PlayMedia, Toggle,
              BygoneIsAwaited
<1>10. ASSUME \/ Admit \/ Abort \/ Refuse \/ FreezeBegins \/ FreezeActive \/ FreezeEnds
              \/ ShutdownRequested \/ ShuttingDown
       PROVE  BygoneIsAwaited'
  BY <1>10 DEF Admit, Abort, Refuse, FreezeBegins, FreezeActive, FreezeEnds,
               ShutdownRequested, ShuttingDown, BygoneIsAwaited
<1> QED
  BY <1>1, <1>2, <1>3, <1>4, <1>5, <1>6, <1>7, <1>8, <1>9, <1>10 DEF Next

----------------------------------------------------------------------------
(* The inductive invariant, and what follows from it.                        *)

RunsInv ==
    /\ TypeOK /\ Registered /\ Ordered
    /\ StopsAreSaved /\ StopsAreFlagged
    /\ MarkedOnDisk /\ Sealed /\ BygoneIsAwaited

\* The initial state satisfies the inductive invariant.
LEMMA InitEstablishes == Init => RunsInv
<1> SUFFICES ASSUME Init PROVE RunsInv
  OBVIOUS
<1>1. TypeOK BY DEF Init, TypeOK
<1>2. Registered /\ Ordered BY DEF Init, Registered, Ordered, Runs
<1>3. StopsAreSaved /\ StopsAreFlagged BY DEF Init, StopsAreSaved, StopsAreFlagged
<1>4. MarkedOnDisk /\ Sealed /\ BygoneIsAwaited
  BY DEF Init, MarkedOnDisk, Sealed, BygoneIsAwaited
<1> QED BY <1>1, <1>2, <1>3, <1>4 DEF RunsInv

\* Every step keeps the inductive invariant.
LEMMA StepPreserves == RunsInv /\ [Next]_vars => RunsInv'
  BY TypeStep, RegisteredStep, OrderedStep, StopsStep, MarksStep, SealedStep, BygoneStep
  DEF RunsInv

\* In every reachable state the registry, the ledger and the export freeze agree.
THEOREM RunsInvariant == Spec => []RunsInv
  BY InitEstablishes, StepPreserves, PTL DEF Spec

\* The variables have their types; whoever is waited for is still registered.
THEOREM TypesHold == Spec => []TypeOK
<1>1. RunsInv => TypeOK BY DEF RunsInv
<1> QED BY <1>1, RunsInvariant, PTL

\* Two runs never execute at the same time on a resource both own: one waits for the other,
\* through any chain of replacements (startOwnedAutomationOccurrence).
THEOREM OwnersExclude == Spec => []ExclusiveOwners
<1>1. RunsInv => ExclusiveOwners
  BY DEF RunsInv, Ordered, ExclusiveOwners
<1> QED BY <1>1, RunsInvariant, PTL

\* A cancellation that any run can see is on disk (requestAutomationRunCancellation).
THEOREM StopsPersist == Spec => []StopsAreSaved
<1>1. RunsInv => StopsAreSaved BY DEF RunsInv
<1> QED BY <1>1, RunsInvariant, PTL

\* No step dispatches an action of an occurrence whose stop is on disk.
THEOREM StopsAreTerminal == Spec => StopIsTerminal
<1>1. RunsInv /\ [Next]_vars => [\A i \in stops : pc[i] # "acting" => pc'[i] # "acting"]_vars
  BY StoppedNeverActs DEF RunsInv
<1> QED BY <1>1, RunsInvariant, PTL DEF Spec, StopIsTerminal

\* No step begins an occurrence a second time, unless its sequence loops.
THEOREM BegunAtMostOnce == Spec => AtMostOnce
<1>1. RunsInv /\ [Next]_vars =>
        [\A i \in begun \ Continuous : pc[i] = "waiting" => pc'[i] # "ready"]_vars
  BY BeginsOnce DEF RunsInv
<1> QED BY <1>1, RunsInvariant, PTL DEF Spec, AtMostOnce

\* While a Full Recovery Export reads, nothing of the automation is under way (drained).
THEOREM ExportsReadQuietState == Spec => []FrozenIsQuiet
<1>1. RunsInv => FrozenIsQuiet
  BY DEF RunsInv, Sealed, FrozenIsQuiet
<1> QED BY <1>1, RunsInvariant, PTL

\* When Resume reasserts the schedule, the managed manual runs of before are gone.
THEOREM ResumeWaitsForManualRuns == Spec => []ResumeDrainsManualRuns
<1>1. RunsInv => ResumeDrainsManualRuns
  BY DEF RunsInv, BygoneIsAwaited, ResumeDrainsManualRuns
<1> QED BY <1>1, RunsInvariant, PTL

=============================================================================
