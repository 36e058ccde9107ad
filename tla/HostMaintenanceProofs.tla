----------------------- MODULE HostMaintenanceProofs -------------------------
(****************************************************************************)
(* Nothing that the Host Agent (server.py) does takes the way back away,    *)
(* for any roots, builds, requests and ends of the Host Agent or the host.  *)
(* Each change that it makes is followed by itself, as the proofs of that   *)
(* change take it: a step of the Host Agent is a step of that change, or    *)
(* leaves what it is about. Neither the appliance lock nor the order of     *)
(* the startup is needed for this; they keep two changes from running into  *)
(* each other.                                                              *)
(****************************************************************************)
EXTENDS HostMaintenance, TLAPS

\* Each change alone, as its proofs take it.
MusicP == INSTANCE MusicUpdatesProofs WITH
    journal <- musicJournal, worker <- musicWorker, failed <- setAside
FullP == INSTANCE FullRecoveryProofs WITH
    journal <- fullJournal, status <- fullStatus, worker <- fullWorker
AppP == INSTANCE AppUpdateProofs WITH agent <- installed

-----------------------------------------------------------------------------
\* What a step of the Host Agent is for Music Assistant.
LEMMA MusicTurns ==
    ASSUME Next
    PROVE  \/ Music!Start \/ Music!Recover \/ Music!Step \/ Music!Migrate \/ Music!CoolDown
           \/ Music!StartupRecover \/ Music!Killed \/ UNCHANGED music
BY DEF Next, Requests, Work, Services, AskMusic, AskFull, AskApp, AskCLI, Freeze, Thaw, Accepts,
     MusicStep, FullStep, AppStep, Replaced, Exit, Serve, RecoverFull, RecoverMusic, Undone, ResumeUpdate,
     Crash, HostCrash, Ends

\* It is a step of the upgrade alone.
LEMMA MusicRefines ==
    ASSUME [Next]_vars
    PROVE  [MusicP!Next]_(MusicP!state)
<1>1. Music!Start \/ Music!Recover \/ Music!StartupRecover => MusicP!Requests
  BY DEF Music!deployment, Music!copies, Music!ledger, Music!None, Music!Update, Music!Recovery, Music!Idle,
     Music!TERMINAL, Music!Running, Music!At, Music!Goto, Music!Save, Music!SaveStage, Music!End,
     Music!MayRecover, Music!Start, Music!Recover, Music!StartupRecover, MusicP!deployment, MusicP!copies,
     MusicP!ledger, MusicP!None, MusicP!Update, MusicP!Recovery, MusicP!Idle, MusicP!TERMINAL, MusicP!Running,
     MusicP!At, MusicP!Goto, MusicP!Save, MusicP!SaveStage, MusicP!End, MusicP!MayRecover, MusicP!Start,
     MusicP!Recover, MusicP!StartupRecover, MusicP!Requests
<1>2. Music!Step => MusicP!Step
  BY DEF Music!deployment, Music!copies, Music!ledger, Music!None, Music!Update, Music!Recovery, Music!Idle,
     Music!TERMINAL, Music!Running, Music!At, Music!Goto, Music!Save, Music!SaveStage, Music!End,
     Music!Preflight, Music!Stop, Music!CopyData, Music!ClaimChange, Music!WriteCompose, Music!Up, Music!Verify,
     Music!Done, Music!Rollback, Music!Halt, Music!Clear, Music!CopyBack, Music!SetAside, Music!Swap,
     Music!WriteBack, Music!UpAgain, Music!Restarted, Music!Raise, Music!Probe, Music!RestartService,
     Music!Recovered, Music!Step, MusicP!deployment, MusicP!copies, MusicP!ledger, MusicP!None, MusicP!Update,
     MusicP!Recovery, MusicP!Idle, MusicP!TERMINAL, MusicP!Running, MusicP!At, MusicP!Goto, MusicP!Save,
     MusicP!SaveStage, MusicP!End, MusicP!Preflight, MusicP!Stop, MusicP!CopyData, MusicP!ClaimChange,
     MusicP!WriteCompose, MusicP!Up, MusicP!Verify, MusicP!Done, MusicP!Rollback, MusicP!Halt, MusicP!Clear,
     MusicP!CopyBack, MusicP!SetAside, MusicP!Swap, MusicP!WriteBack, MusicP!UpAgain, MusicP!Restarted,
     MusicP!Raise, MusicP!Probe, MusicP!RestartService, MusicP!Recovered, MusicP!Step
<1>3. Music!Migrate \/ Music!CoolDown \/ Music!Killed => MusicP!Migrate \/ MusicP!CoolDown \/ MusicP!Killed
  BY DEF Music!deployment, Music!copies, Music!ledger, Music!None, Music!Update, Music!Recovery, Music!Idle,
     Music!TERMINAL, Music!Running, Music!At, Music!Goto, Music!Save, Music!SaveStage, Music!End, Music!Migrate,
     Music!CoolDown, Music!Killed, MusicP!deployment, MusicP!copies, MusicP!ledger, MusicP!None, MusicP!Update,
     MusicP!Recovery, MusicP!Idle, MusicP!TERMINAL, MusicP!Running, MusicP!At, MusicP!Goto, MusicP!Save,
     MusicP!SaveStage, MusicP!End, MusicP!Migrate, MusicP!CoolDown, MusicP!Killed
<1>4. UNCHANGED music => UNCHANGED MusicP!state
  BY DEF music, MusicP!state, MusicP!deployment, MusicP!copies, MusicP!ledger
<1>5. QED
  BY <1>1, <1>2, <1>3, <1>4, MusicTurns DEF MusicP!Next, vars

\* Next to anything else that changes the appliance, an upgrade of Music Assistant does
\* what it does alone.
THEOREM MusicRuns == Spec => MusicP!Spec
<1>1. Init => MusicP!Init
  BY DEF Init, Music!Init, Music!None, Music!Idle, MusicP!Init, MusicP!None, MusicP!Idle
<1>2. [Next]_vars => [MusicP!Next]_(MusicP!state)
  BY MusicRefines
<1>3. QED BY <1>1, <1>2, PTL DEF Spec, MusicP!Spec

-----------------------------------------------------------------------------
\* What a step of the Host Agent is for a full recovery.
LEMMA FullTurns ==
    ASSUME Next
    PROVE  Full!Start \/ Full!Step \/ Full!StartupRecover \/ Full!Killed \/ UNCHANGED full
BY DEF Next, Requests, Work, Services, AskMusic, AskFull, AskApp, AskCLI, Freeze, Thaw, Accepts,
     MusicStep, FullStep, AppStep, Replaced, Exit, Serve, RecoverFull, RecoverMusic, Undone, ResumeUpdate,
     Crash, HostCrash, Ends

\* It is a step of the recovery alone.
LEMMA FullRefines ==
    ASSUME [Next]_vars
    PROVE  [FullP!Next]_(FullP!state)
<1>1. Full!Start \/ Full!StartupRecover \/ Full!Killed => FullP!Start \/ FullP!StartupRecover \/ FullP!Killed
  BY DEF Full!roots, Full!Items, Full!None, Full!Idle, Full!Original, Full!At, Full!Goto, Full!Fails,
     Full!Phase, Full!End, Full!Start, Full!StartupRecover, Full!Killed, FullP!roots, FullP!Items, FullP!None,
     FullP!Idle, FullP!Original, FullP!At, FullP!Goto, FullP!Fails, FullP!Phase, FullP!End, FullP!Start,
     FullP!StartupRecover, FullP!Killed
<1>2. Full!Step => FullP!Step
  BY DEF Full!roots, Full!Items, Full!None, Full!Idle, Full!Original, Full!At, Full!Goto, Full!Fails,
     Full!Phase, Full!End, Full!Begin, Full!Preflight, Full!Quiesce, Full!Record, Full!Prepare, Full!Copy,
     Full!Activate, Full!MoveAway, Full!MoveIn, Full!Activated, Full!Restart, Full!CleanUp, Full!Discard,
     Full!Unlink, Full!Completed, Full!Failed, Full!StopWriters, Full!Changed, Full!Undo, Full!PutBack,
     Full!DropCopy, Full!Reconcile, Full!RolledBack, Full!Step, FullP!roots, FullP!Items, FullP!None,
     FullP!Idle, FullP!Original, FullP!At, FullP!Goto, FullP!Fails, FullP!Phase, FullP!End, FullP!Begin,
     FullP!Preflight, FullP!Quiesce, FullP!Record, FullP!Prepare, FullP!Copy, FullP!Activate, FullP!MoveAway,
     FullP!MoveIn, FullP!Activated, FullP!Restart, FullP!CleanUp, FullP!Discard, FullP!Unlink, FullP!Completed,
     FullP!Failed, FullP!StopWriters, FullP!Changed, FullP!Undo, FullP!PutBack, FullP!DropCopy, FullP!Reconcile,
     FullP!RolledBack, FullP!Step
<1>3. UNCHANGED full => UNCHANGED FullP!state
  BY DEF full, FullP!state, FullP!roots
<1>4. QED
  BY <1>1, <1>2, <1>3, FullTurns DEF FullP!Next, vars

\* Next to anything else that changes the appliance, a full recovery does what it does
\* alone.
THEOREM FullRuns == Spec => FullP!Spec
<1>1. Init => FullP!Init
  BY DEF Init, Full!Init, Full!None, Full!Idle, Full!Items, Full!Original, FullP!Init, FullP!None, FullP!Idle,
     FullP!Items, FullP!Original
<1>2. [Next]_vars => [FullP!Next]_(FullP!state)
  BY FullRefines
<1>3. QED BY <1>1, <1>2, PTL DEF Spec, FullP!Spec

-----------------------------------------------------------------------------
\* What a step of the Host Agent is for an application update.
LEMMA AppTurns ==
    ASSUME Next
    PROVE  \/ App!Ask \/ App!AskCLI \/ App!Resume \/ App!Step \/ App!AgentStep
           \/ App!Migrate \/ App!Killed \/ UNCHANGED app
BY DEF Next, Requests, Work, Services, AskMusic, AskFull, AskApp, AskCLI, Freeze, Thaw, Accepts,
     MusicStep, FullStep, AppStep, Replaced, Exit, Serve, RecoverFull, RecoverMusic, Undone, ResumeUpdate,
     Crash, HostCrash, Ends

\* It is a step of the update alone.
LEMMA AppRefines ==
    ASSUME [Next]_vars
    PROVE  [AppP!Next]_(AppP!state)
<1>1. App!Ask \/ App!AskCLI \/ App!Resume => AppP!Ask \/ AppP!AskCLI \/ AppP!Resume
  BY DEF App!files, App!parts, App!Builds, App!None, App!Idle, App!At, App!Goto, App!Try, App!Healthy,
     App!Restored, App!Request, App!Ask, App!AskCLI, App!Resume, AppP!files, AppP!parts, AppP!Builds, AppP!None,
     AppP!Idle, AppP!At, AppP!Goto, AppP!Try, AppP!Healthy, AppP!Restored, AppP!Request, AppP!Ask, AppP!AskCLI,
     AppP!Resume
<1>2. App!Step => AppP!Step
  BY DEF App!files, App!parts, App!Builds, App!None, App!Idle, App!At, App!Goto, App!Try, App!Healthy,
     App!Restored, App!StartRunner, App!Capture, App!Preflight, App!PreflightFailed, App!RecordPrevious,
     App!SaveCopies, App!Claim, App!Switch, App!SetTags, App!StopForRevert, App!RestoreForRevert, App!Recreate,
     App!Verify, App!Record, App!Forget, App!Complete, App!Exit, App!RollbackSource, App!RollbackEnv,
     App!RollbackTags, App!RollbackStop, App!RollbackData, App!RollbackStart, App!RollbackHealth,
     App!RolledBack, App!ForgetRollback, App!RollbackFailed, App!Step, AppP!files, AppP!parts, AppP!Builds,
     AppP!None, AppP!Idle, AppP!At, AppP!Goto, AppP!Try, AppP!Healthy, AppP!Restored, AppP!StartRunner,
     AppP!Capture, AppP!Preflight, AppP!PreflightFailed, AppP!RecordPrevious, AppP!SaveCopies, AppP!Claim,
     AppP!Switch, AppP!SetTags, AppP!StopForRevert, AppP!RestoreForRevert, AppP!Recreate, AppP!Verify,
     AppP!Record, AppP!Forget, AppP!Complete, AppP!Exit, AppP!RollbackSource, AppP!RollbackEnv,
     AppP!RollbackTags, AppP!RollbackStop, AppP!RollbackData, AppP!RollbackStart, AppP!RollbackHealth,
     AppP!RolledBack, AppP!ForgetRollback, AppP!RollbackFailed, AppP!Step
<1>3. App!AgentStep => AppP!AgentStep
  BY DEF App!files, App!parts, App!Builds, App!None, App!Idle, App!At, App!Goto, App!Try, App!Healthy,
     App!Restored, App!RefreshAgent, App!RollbackAgent, App!AgentStep, AppP!files, AppP!parts, AppP!Builds,
     AppP!None, AppP!Idle, AppP!At, AppP!Goto, AppP!Try, AppP!Healthy, AppP!Restored, AppP!RefreshAgent,
     AppP!RollbackAgent, AppP!AgentStep
<1>4. App!Migrate \/ App!Killed => AppP!Migrate \/ AppP!Killed
  BY DEF App!files, App!parts, App!Builds, App!None, App!Idle, App!At, App!Goto, App!Try, App!Healthy,
     App!Restored, App!Migrate, App!Killed, AppP!files, AppP!parts, AppP!Builds, AppP!None, AppP!Idle, AppP!At,
     AppP!Goto, AppP!Try, AppP!Healthy, AppP!Restored, AppP!Migrate, AppP!Killed
<1>5. UNCHANGED app => UNCHANGED AppP!state
  BY DEF app, AppP!state, AppP!files, AppP!parts
<1>6. QED
  BY <1>1, <1>2, <1>3, <1>4, <1>5, AppTurns DEF AppP!Next, vars

\* Next to anything else that changes the appliance, and however often the Host Agent is
\* replaced by it, an application update does what it does alone.
THEOREM AppRuns == Spec => AppP!Spec
<1>1. Init => AppP!Init
  BY DEF Init, App!Init, App!None, App!Idle, AppP!Init, AppP!None, AppP!Idle
<1>2. [Next]_vars => [AppP!Next]_(AppP!state)
  BY AppRefines
<1>3. QED BY <1>1, <1>2, PTL DEF Spec, AppP!Spec

-----------------------------------------------------------------------------
\* The roots are as a full recovery needs them.
LEMMA RootsHold == FullP!Roots
BY RootsAssumption DEF FullP!Roots, FullP!Items

\* Whatever is interrupted, and by what, what is needed to come back is there: the
\* snapshot of Music Assistant's data, every root or its safety copy, and the backup for
\* the build to come back to; and no old program runs on data that a newer one has
\* changed.
THEOREM WayBack == Spec => []WayBackIsKept
<1>1. Spec => []MusicP!DataIsKept
  BY MusicRuns, MusicP!DataKept, PTL
<1>2. Spec => []FullP!NothingIsLost
  <2>1. FullP!Spec => []FullP!NothingIsLost
    BY RootsHold, FullP!RootsKept
  <2>2. QED BY <2>1, FullRuns, PTL
<1>3. Spec => []AppP!OldBuildsKeepTheirData
  <2>1. AppP!Spec => []AppP!OldBuildsKeepTheirData
    BY BoundsAssumption, AppP!DataKept
  <2>2. QED BY <2>1, AppRuns, PTL
<1>4. MusicP!DataIsKept => Music!DataIsKept
  BY DEF Music!DataIsKept, MusicP!DataIsKept
<1>5. FullP!NothingIsLost => Full!NothingIsLost
  BY DEF Full!NothingIsLost, Full!AllOld, Full!AllNew, Full!Items, Full!Original, FullP!NothingIsLost,
     FullP!AllOld, FullP!AllNew, FullP!Items, FullP!Original
<1>6. AppP!OldBuildsKeepTheirData => App!OldBuildsKeepTheirData
  BY DEF App!OldBuildsKeepTheirData, AppP!OldBuildsKeepTheirData, App!None, AppP!None
<1>7. QED BY <1>1, <1>2, <1>3, <1>4, <1>5, <1>6, PTL DEF WayBackIsKept

\* A restart of Music Assistant is made once for one claim, also when the Host Agent ends
\* before its outcome is saved.
THEOREM RestartedOnce == Spec => []RestartsAreNotRepeated
<1>1. Spec => []MusicP!RestartsAreNotRepeated
  BY MusicRuns, MusicP!RestartedOnce, PTL
<1>2. MusicP!RestartsAreNotRepeated => RestartsAreNotRepeated
  BY DEF RestartsAreNotRepeated, Music!RestartsAreNotRepeated, MusicP!RestartsAreNotRepeated
<1>3. QED BY <1>1, <1>2, PTL

\* An upgrade of Music Assistant, a full recovery and an application update are each all
\* or nothing, whatever ends the Host Agent or the host, and whatever the next start
\* finds.
THEOREM AllOrNothing == Spec => ChangesAreAllOrNothing
<1>1. Spec => Music!Change!Spec
  <2>1. MusicP!Spec => MusicP!Change!Spec
    BY MusicP!AllOrNothing
  <2>2. MusicP!Change!Init => Music!Change!Init
    BY DEF Music!Change!Init, Music!Deployed, Music!Recorded, Music!Running, Music!TERMINAL, MusicP!Change!Init,
       MusicP!Deployed, MusicP!Recorded, MusicP!Running, MusicP!TERMINAL
  <2>3. [MusicP!Change!Next]_<<MusicP!Deployed, MusicP!Recorded>> => [Music!Change!Next]_<<Music!Deployed, Music!Recorded>>
    BY DEF Music!Change!Next, Music!Change!Begin, Music!Change!Change, Music!Change!Settle, Music!Deployed,
       Music!Recorded, Music!Running, Music!TERMINAL, MusicP!Change!Next, MusicP!Change!Begin,
       MusicP!Change!Change, MusicP!Change!Settle, MusicP!Deployed, MusicP!Recorded, MusicP!Running,
       MusicP!TERMINAL
  <2>4. QED BY <2>1, <2>2, <2>3, MusicRuns, PTL DEF MusicP!Change!Spec, Music!Change!Spec
<1>2. Spec => Full!Change!Spec
  <2>1. FullP!Spec => FullP!Change!Spec
    BY RootsHold, FullP!AllOrNothing
  <2>2. FullP!Change!Init => Full!Change!Init
    BY DEF Full!Change!Init, Full!Deployed, Full!Recorded, Full!AllOld, Full!AllNew, Full!None, Full!Items,
       Full!Original, FullP!Change!Init, FullP!Deployed, FullP!Recorded, FullP!AllOld, FullP!AllNew, FullP!None,
       FullP!Items, FullP!Original
  <2>3. [FullP!Change!Next]_<<FullP!Deployed, FullP!Recorded>> => [Full!Change!Next]_<<Full!Deployed, Full!Recorded>>
    BY DEF Full!Change!Next, Full!Change!Begin, Full!Change!Change, Full!Change!Settle, Full!Deployed,
       Full!Recorded, Full!AllOld, Full!AllNew, Full!None, Full!Items, Full!Original, FullP!Change!Next,
       FullP!Change!Begin, FullP!Change!Change, FullP!Change!Settle, FullP!Deployed, FullP!Recorded,
       FullP!AllOld, FullP!AllNew, FullP!None, FullP!Items, FullP!Original
  <2>4. QED BY <2>1, <2>2, <2>3, FullRuns, PTL DEF FullP!Change!Spec, Full!Change!Spec
<1>3. Spec => App!Change!Spec
  <2>1. AppP!Spec => AppP!Change!Spec
    BY BoundsAssumption, AppP!AllOrNothing
  <2>2. AppP!Change!Init => App!Change!Init
    BY DEF App!Change!Init, App!Deployed, App!Recorded, App!Unknown, App!Mixed, App!Builds, AppP!Change!Init,
       AppP!Deployed, AppP!Recorded, AppP!Unknown, AppP!Mixed, AppP!Builds
  <2>3. [AppP!Change!Next]_<<AppP!Deployed, AppP!Recorded>> => [App!Change!Next]_<<App!Deployed, App!Recorded>>
    BY DEF App!Change!Next, App!Change!Begin, App!Change!Change, App!Change!Settle, App!Deployed, App!Recorded,
       App!Unknown, App!Mixed, App!Builds, AppP!Change!Next, AppP!Change!Begin, AppP!Change!Change,
       AppP!Change!Settle, AppP!Deployed, AppP!Recorded, AppP!Unknown, AppP!Mixed, AppP!Builds
  <2>4. QED BY <2>1, <2>2, <2>3, AppRuns, PTL DEF AppP!Change!Spec, App!Change!Spec
<1>4. QED BY <1>1, <1>2, <1>3, PTL DEF ChangesAreAllOrNothing

==============================================================================
