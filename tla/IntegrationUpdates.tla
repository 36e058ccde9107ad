------------------------- MODULE IntegrationUpdates -------------------------
(***************************************************************************)
(* Maintenance of Music Assistant and of the Apollo devices                *)
(* (integration-updates.js): an administrator installs a release, or the   *)
(* tick of an automatic policy does.  The claim of an update is saved      *)
(* before it is sent, since a flash whose delivery is uncertain must not   *)
(* be sent again; a later tick looks at what the devices run.              *)
(*                                                                         *)
(* The Host Agent's side of an update is MusicUpdates; here it only runs   *)
(* or does not.  Devices and the Host Agent may act without an answer      *)
(* reaching the Hub.                                                       *)
(***************************************************************************)
EXTENDS Naturals, FiniteSets

CONSTANTS
    Devices,      \* enrolled Apollo devices
    MaxVersion    \* releases, a bound of the model

VARIABLES
    paused,       \* a full export has asked for quiet (canRun)
    saved,        \* music.maintenance.state.v1
    aged,         \* the job of a device is ten minutes old
    policy,       \* what is maintained automatically
    catalog,      \* newest known releases, 0: not known
    install,      \* the installation at work, and its await
    tick,         \* await of the tick
    hostRunning,  \* what the Hub last heard of the Host Agent
    recovering,   \* a recovery was asked for less than half an hour ago
    firmware,     \* version that a device runs
    released,     \* newest release of each product
    flash,        \* version that a device was told to install, 0: none
    host,         \* the Host Agent is at work
    sent,         \* history: firmware deliveries to a device since the last that succeeded
    tried         \* history: automatic attempts of each release

store == <<saved, policy>>
outside == <<released, firmware, flash, host>>
history == <<sent, tried>>
vars == <<store, aged, catalog, install, tick, hostRunning, recovering, outside, history>>

Kinds == Devices \cup {"music"}
Product(k) == IF k = "music" THEN "music" ELSE "apollo"
Versions == 0..MaxVersion
Releases == [{"music", "apollo"} -> Versions]
Idle == [pc |-> "idle"]

Saved == [stage : [Devices -> {"none", "issued", "unconfirmed", "succeeded"}],
          version : [Devices -> Versions], attempts : [Kinds -> Versions], recovered : BOOLEAN]
Installs == [pc : {"asking", "checking", "claiming", "sending", "answer"}, kind : Kinds,
             version : Versions, automatic : BOOLEAN, saved : Saved]

TypeOK ==
    /\ saved \in Saved /\ aged \in [Devices -> BOOLEAN]
    /\ policy \subseteq Kinds \cup {"recover"}
    /\ catalog \in Releases /\ released \in Releases
    /\ install \in Installs \cup {Idle}
    /\ tick \in {"off", "job", "idle", "check", "install", "recover"}
    /\ {hostRunning, recovering, host} \subseteq BOOLEAN
    /\ firmware \in [Devices -> Versions] /\ flash \in [Devices -> Versions]
    /\ sent \in [Devices -> Nat] /\ tried \in [Kinds \X Versions -> Nat]

Init ==
    /\ saved = [stage |-> [d \in Devices |-> "none"], version |-> [d \in Devices |-> 0],
                attempts |-> [k \in Kinds |-> 0], recovered |-> FALSE]
    /\ aged = [d \in Devices |-> FALSE]
    /\ policy \in SUBSET (Kinds \cup {"recover"})
    /\ catalog = [p \in {"music", "apollo"} |-> 0] /\ released = catalog
    /\ install = Idle /\ tick = "off"
    /\ hostRunning = FALSE /\ recovering = FALSE /\ host = FALSE
    /\ firmware = [d \in Devices |-> 0] /\ flash = [d \in Devices |-> 0]
    /\ sent = [d \in Devices |-> 0] /\ tried = [k \in Kinds \X Versions |-> 0]

------------------------------------------------------------------------------
(* active(): an installation, the Host Agent, or a recent delivery.        *)
Active ==
    \/ install # Idle
    \/ hostRunning
    \/ \E d \in Devices : saved.stage[d] = "issued" /\ ~aged[d]

Uncertain(state, d) == state.stage[d] \in {"issued", "unconfirmed"}

(* apolloCandidate: the device is connected, and offers something newer.   *)
Candidate(d, v) == firmware[d] < v

(* check(): the newest releases, of the products whose catalog answers.    *)
Catalogs == {[p \in {"music", "apollo"} |-> IF p \in known THEN released[p] ELSE 0] :
                known \in SUBSET {"music", "apollo"}}

(* configure()                                                             *)
Configure(p) ==
    /\ ~paused /\ policy' = p /\ policy # p
    /\ UNCHANGED <<saved, aged, catalog, install, tick, hostRunning, recovering, outside, history>>

------------------------------------------------------------------------------
(* install()                                                               *)

Begin(k, v, automatic) ==
    /\ ~Active
    /\ install' = [pc |-> "asking", kind |-> k, version |-> v, automatic |-> automatic, saved |-> saved]

Install(k, v) ==
    /\ ~paused /\ v > 0 /\ Begin(k, v, FALSE)
    /\ UNCHANGED <<store, aged, catalog, tick, hostRunning, recovering, outside, history>>

(* busy is cleared, and a tick that awaits its own installation ends.      *)
Ends ==
    /\ install' = Idle
    /\ tick' = IF install.automatic THEN "off" ELSE tick

(* With the releases known: the saved state is read, what was tried or is  *)
(* uncertain is refused, and the house is asked for silence once more.     *)
Consider(c) ==
    IF \/ install.automatic /\ saved.attempts[install.kind] = install.version
       \/ c[Product(install.kind)] # install.version
       \/ install.kind # "music" /\ (~Candidate(install.kind, install.version) \/ Uncertain(saved, install.kind))
    THEN Ends
    ELSE install' = [install EXCEPT !.pc = "claiming", !.saved = saved] /\ UNCHANGED tick

(* assertIdle has its answer; releases that are not fresh are looked up.   *)
Asked(idle, fresh) ==
    /\ install.pc = "asking"
    /\ IF ~idle \/ paused THEN Ends
       ELSE IF fresh THEN Consider(catalog)
            ELSE install' = [install EXCEPT !.pc = "checking"] /\ UNCHANGED tick
    /\ UNCHANGED <<store, aged, catalog, hostRunning, recovering, outside, history>>

Checked(c) ==
    /\ install.pc = "checking"
    /\ catalog' = c
    /\ Consider(c)
    /\ UNCHANGED <<store, aged, hostRunning, recovering, outside, history>>

(* The claim: the state as it was read, with this attempt in it.           *)
Claimed ==
    LET k == install.kind
        attempt == [install.saved EXCEPT !.attempts[k] = install.version]
    IN IF k = "music" THEN attempt
       ELSE [attempt EXCEPT !.stage[k] = "issued", !.version[k] = install.version]

ClaimLater(idle) ==
    /\ install.pc = "claiming"
    /\ IF ~idle \/ paused
       THEN Ends /\ UNCHANGED <<saved, aged, tried>>
       ELSE /\ UNCHANGED saved
            /\ aged' = [d \in Devices |-> aged[d] /\ d # install.kind]
            /\ install' = [install EXCEPT !.pc = "sending", !.saved = Claimed]
            /\ tried' = [tried EXCEPT ![<<install.kind, install.version>>] = @ + IF install.automatic THEN 1 ELSE 0]
            /\ UNCHANGED tick
    /\ UNCHANGED <<policy, catalog, hostRunning, recovering, outside, sent>>

Claim(idle) ==
    /\ install.pc = "claiming"
    /\ IF ~idle \/ paused
       THEN Ends /\ UNCHANGED <<saved, aged, tried>>
       ELSE /\ saved' = Claimed
            /\ aged' = [d \in Devices |-> aged[d] /\ d # install.kind]
            /\ install' = [install EXCEPT !.pc = "sending", !.saved = Claimed]
            /\ tried' = [tried EXCEPT ![<<install.kind, install.version>>] = @ + IF install.automatic THEN 1 ELSE 0]
            /\ UNCHANGED tick
    /\ UNCHANGED <<policy, catalog, hostRunning, recovering, outside, sent>>

(* The request goes out, to a device or to the Host Agent, which accepts   *)
(* it or not.                                                              *)
Send(accepted) ==
    /\ install.pc = "sending"
    /\ install' = [install EXCEPT !.pc = "answer"]
    /\ IF install.kind = "music"
       THEN host' = (host \/ accepted) /\ UNCHANGED <<flash, sent>>
       ELSE /\ flash' = [flash EXCEPT ![install.kind] = IF accepted THEN install.version ELSE @]
            /\ sent' = [sent EXCEPT ![install.kind] = @ + 1]
            /\ UNCHANGED host
    /\ UNCHANGED <<store, aged, catalog, tick, hostRunning, recovering, released, firmware, tried>>

(* An answer came, or did not.  A delivery without one is unconfirmed: the *)
(* state that was read before is saved, unless an export forbids it.       *)
Answered(ok) ==
    /\ install.pc = "answer"
    /\ hostRunning' = (hostRunning \/ (install.kind = "music" /\ ok))
    /\ saved' = IF ok \/ install.kind = "music" \/ paused THEN saved
                ELSE [install.saved EXCEPT !.stage[install.kind] = "unconfirmed"]
    /\ Ends
    /\ UNCHANGED <<policy, aged, catalog, recovering, outside, history>>

------------------------------------------------------------------------------
(* tick()                                                                  *)

Polled(h) ==
    IF \/ install # Idle \/ h \/ \E d \in Devices : saved'.stage[d] = "issued" /\ ~aged[d]
       \/ policy = {}
    THEN "off" ELSE "idle"

(* reconcile(): what the devices that are connected now run settles their  *)
(* jobs; a job without an outcome is unconfirmed after ten minutes.        *)
Reconciled(d, online) ==
    IF ~Uncertain(saved, d) THEN saved.stage[d]
    ELSE IF d \in online /\ firmware[d] = saved.version[d] THEN "succeeded"
    ELSE IF aged[d] THEN "unconfirmed" ELSE saved.stage[d]

Tick(online) ==
    /\ ~paused /\ tick = "off"
    /\ saved' = [saved EXCEPT !.stage = [d \in Devices |-> Reconciled(d, online)]]
    /\ sent' = [d \in Devices |-> IF saved'.stage[d] = "succeeded" THEN 0 ELSE sent[d]]
    /\ tick' = IF policy \cap {"music", "recover"} # {} \/ saved.attempts["music"] # 0 \/ saved.recovered \/ hostRunning
               THEN "job" ELSE Polled(FALSE)
    /\ UNCHANGED <<policy, aged, catalog, install, hostRunning, recovering, outside, tried>>

TickJobRemembers(ok) ==
    /\ tick = "job"
    /\ hostRunning' = (hostRunning \/ (ok /\ host))
    /\ UNCHANGED saved
    /\ tick' = IF ok THEN Polled(host) ELSE "off"
    /\ UNCHANGED <<policy, aged, catalog, install, recovering, outside, history>>

(* The Host Agent's job, or an error.                                      *)
TickJob(ok) ==
    /\ tick = "job"
    /\ hostRunning' = IF ok THEN host ELSE hostRunning
    /\ UNCHANGED saved
    /\ tick' = IF ok THEN Polled(host) ELSE "off"
    /\ UNCHANGED <<policy, aged, catalog, install, recovering, outside, history>>

(* An automatic installation of what the policy names, Music Assistant     *)
(* first; it is refused if an administrator's came in between.             *)
Automatic(k, c) ==
    /\ k \in policy \ {"recover"}
    /\ c[Product(k)] > 0 /\ saved.attempts[k] # c[Product(k)]
    /\ k # "music" => Candidate(k, c["apollo"])

TickInstall(c) ==
    \/ \E k \in Kinds :
          /\ Automatic(k, c) /\ (k # "music" => ~Automatic("music", c))
          /\ IF Active
             THEN tick' = "off" /\ UNCHANGED install
             ELSE tick' = "install" /\ Begin(k, c[Product(k)], TRUE)
    \/ (\A k \in Kinds : ~Automatic(k, c)) /\ tick' = "off" /\ UNCHANGED install

(* The house is silent, in the maintenance window, or not.                 *)
TickIdle(idle, fresh) ==
    /\ tick = "idle"
    /\ IF ~idle THEN tick' = "off" /\ UNCHANGED install
       ELSE IF fresh THEN TickInstall(catalog)
       ELSE tick' = "check" /\ UNCHANGED install
    /\ UNCHANGED <<store, aged, catalog, hostRunning, recovering, outside, history>>

TickCheck(c) ==
    /\ tick = "check"
    /\ catalog' = c
    /\ TickInstall(c)
    /\ UNCHANGED <<store, aged, hostRunning, recovering, outside, history>>

(* Music Assistant does not answer, for the third time: the Host Agent is  *)
(* asked to restart it, once in half an hour.                              *)
TickUnknown(allowed) ==
    /\ tick = "idle"
    /\ IF allowed /\ "recover" \in policy /\ ~paused /\ ~recovering
       THEN /\ recovering' = TRUE
            /\ saved' = [saved EXCEPT !.recovered = TRUE]
            /\ tick' = "recover"
       ELSE tick' = "off" /\ UNCHANGED <<recovering, saved>>
    /\ UNCHANGED <<policy, aged, catalog, install, hostRunning, outside, history>>

TickRecover(accepted, ok) ==
    /\ tick = "recover"
    /\ host' = (host \/ accepted)
    /\ hostRunning' = (hostRunning \/ (accepted /\ ok))
    /\ tick' = "off"
    /\ UNCHANGED <<store, aged, catalog, install, recovering, released, firmware, flash, history>>

------------------------------------------------------------------------------
(* The outside: a release is published, a device installs what it was      *)
(* told or does not, the Host Agent's work ends, time passes.              *)
Release(p) ==
    /\ released[p] < MaxVersion
    /\ released' = [released EXCEPT ![p] = @ + 1]
    /\ UNCHANGED <<store, aged, catalog, install, tick, hostRunning, recovering, firmware, flash, host, history>>

Flash(d, works) ==
    /\ flash[d] # 0
    /\ flash' = [flash EXCEPT ![d] = 0]
    /\ firmware' = [firmware EXCEPT ![d] = IF works THEN flash[d] ELSE @]
    /\ UNCHANGED <<store, aged, catalog, install, tick, hostRunning, recovering, released, host, history>>

HostEnds ==
    /\ host /\ host' = FALSE
    /\ UNCHANGED <<store, aged, catalog, install, tick, hostRunning, recovering, released, firmware, flash, history>>

Age(d) ==
    /\ saved.stage[d] = "issued" /\ ~aged[d]
    /\ aged' = [aged EXCEPT ![d] = TRUE]
    /\ UNCHANGED <<store, catalog, install, tick, hostRunning, recovering, outside, history>>

CoolDown ==
    /\ recovering /\ recovering' = FALSE
    /\ UNCHANGED <<store, aged, catalog, install, tick, hostRunning, outside, history>>

Restart ==
    /\ install' = Idle /\ tick' = "off"
    /\ hostRunning' = FALSE /\ recovering' = FALSE
    /\ catalog' = [p \in {"music", "apollo"} |-> 0]
    /\ UNCHANGED <<store, aged, outside, history>>

------------------------------------------------------------------------------
Request ==
    \/ \E p \in SUBSET (Kinds \cup {"recover"}) : Configure(p)
    \/ \E k \in Kinds, v \in Versions : Install(k, v)

InstallStep ==
    \/ \E idle, fresh \in BOOLEAN : Asked(idle, fresh)
    \/ \E c \in Catalogs : Checked(c)
    \/ \E idle \in BOOLEAN : Claim(idle)
    \/ \E accepted \in BOOLEAN : Send(accepted)
    \/ \E ok \in BOOLEAN : Answered(ok)

TickStep ==
    \/ \E ok \in BOOLEAN : TickJob(ok)
    \/ \E idle, fresh \in BOOLEAN : TickIdle(idle, fresh)
    \/ \E c \in Catalogs : TickCheck(c)
    \/ \E allowed \in BOOLEAN : TickUnknown(allowed)
    \/ \E accepted, ok \in BOOLEAN : TickRecover(accepted, ok)

Timer == \E online \in SUBSET Devices : Tick(online)

Outside ==
    \/ \E p \in {"music", "apollo"} : Release(p)
    \/ \E d \in Devices, works \in BOOLEAN : Flash(d, works)
    \/ \E d \in Devices : Age(d)
    \/ HostEnds
    \/ CoolDown

------------------------------------------------------------------------------
(* Firmware is not sent to a device again before an earlier delivery is    *)
(* known to have succeeded, and no release is tried twice by itself,       *)
(* whatever answers are lost and whenever the Hub stops (install,          *)
(* reconcile, tick).                                                       *)
UncertainWorkIsNotRepeated ==
    /\ \A d \in Devices : sent[d] <= 1
    /\ \A k \in Kinds, v \in Versions : tried[<<k, v>>] <= 1

------------------------------------------------------------------------------
(* Why it holds: the inductive invariant of HubServicesProofs.             *)

\* The installation has read the saved state, which a tick may since have changed.
Holding == install.pc \in {"claiming", "sending", "answer"}

\* A device that is not uncertain has nothing sent to it that is unsettled; what it was
\* told to install is what is saved, and newer than what it runs.
DeliveriesAreSaved ==
    \A d \in Devices :
        /\ sent[d] <= 1
        /\ ~Uncertain(saved, d) => sent[d] = 0
        /\ flash[d] # 0 => sent[d] = 1 /\ flash[d] = saved.version[d] /\ firmware[d] < flash[d]

\* The attempts saved for a product only ever move on to newer releases.
AttemptsAreKnown ==
    /\ \A p \in {"music", "apollo"} : catalog[p] <= released[p]
    /\ \A k \in Kinds :
        /\ saved.attempts[k] <= released[Product(k)]
        /\ catalog[Product(k)] # 0 => saved.attempts[k] <= catalog[Product(k)]
        /\ \A v \in Versions : tried[<<k, v>>] <= 1 /\ (tried[<<k, v>>] = 1 => v <= saved.attempts[k])

\* The copy that an installation will save has the saved attempts and versions, and no
\* job of it was settled too early.
CopyIsCurrent ==
    Holding =>
        /\ install.saved.attempts = saved.attempts /\ install.saved.version = saved.version
        /\ \A d \in Devices : ~Uncertain(install.saved, d) => sent[d] = 0

\* Up to the claim the release is the newest known one and was not tried by itself; up to
\* the delivery nothing is under way to the device, and it runs something older.
NothingUnderWay ==
    LET k == install.kind
    IN  /\ install.pc # "idle" => install.version > 0
        /\ install.pc = "claiming" =>
             /\ saved.attempts[k] <= install.version /\ install.version <= released[Product(k)]
             /\ catalog[Product(k)] # 0 => install.version <= catalog[Product(k)]
             /\ install.automatic => saved.attempts[k] # install.version
        /\ install.pc \in {"claiming", "sending"} /\ k # "music" =>
             sent[k] = 0 /\ firmware[k] < install.version
        /\ install.pc = "sending" /\ k # "music" =>
             Uncertain(saved, k) /\ Uncertain(install.saved, k) /\ saved.version[k] = install.version

UpdatesInv ==
    TypeOK /\ DeliveriesAreSaved /\ AttemptsAreKnown /\ CopyIsCurrent /\ NothingUnderWay

==============================================================================
